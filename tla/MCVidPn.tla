------------------------------- MODULE MCVidPn -------------------------------
(***************************************************************************)
(* Mode lists with a size twice, as the custom slots have it; VidPns with   *)
(* up to two paths, pinned and unpinned, valid and not.                     *)
(***************************************************************************)
EXTENDS VidPn

MCModeList == <<"s", "s", "l">>

Free == [target |-> 0, pinned |-> FALSE, scaling |-> "unpinned",
         rotation |-> "unpinned", plain |-> TRUE]
Fixed == [target |-> 0, pinned |-> TRUE, scaling |-> "identity",
          rotation |-> "identity", plain |-> TRUE]
Second(p) == [p EXCEPT !.target = 1]
Turned == [Fixed EXCEPT !.rotation = "90"]
Stretched == [Second(Fixed) EXCEPT !.scaling = "stretched"]
UpsideDown == [Fixed EXCEPT !.rotation = "180", !.pinned = FALSE]

Pin(size) == [size |-> size, format |-> "argb"]

MCVidPns ==
    {[mode |-> NULL, path |-> <<Free, Second(Free)>>], [mode |-> Pin("s"), path |-> <<>>],
     [mode |-> Pin("s"), path |-> <<Free, Second(Fixed)>>]}
      \cup [mode : {Pin("s"), Pin("l"), [Pin("l") EXCEPT !.format = "other"]},
            path : {<<Fixed>>, <<Turned>>, <<UpsideDown>>, <<Fixed, Stretched>>,
                    <<Fixed, Second(Turned)>>}]
      \cup {[mode |-> NULL, path |-> <<Fixed>>],
            [mode |-> NULL, path |-> <<Free, Second(Free), [Fixed EXCEPT !.target = 2]>>]}
=============================================================================
