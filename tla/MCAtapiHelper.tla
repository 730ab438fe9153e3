--------------------------- MODULE MCAtapiHelper ---------------------------
(* Two helpers compete for two drives, each also under a spelling that is  *)
(* not canonical.  One request of each kind is malformed.                  *)
EXTENDS AtapiHelper, TLC

MCRequests ==
    [cmd : {"open"}, path : Paths, ok : {TRUE}]
      \cup [cmd : {"open"}, path : {NotAPath}, ok : BOOLEAN]
      \cup [cmd : {"acquire", "release"}, id : Ids, ok : {TRUE}]
      \cup [cmd : {"size"}, id : {0}, ok : {TRUE}]
      \cup [cmd : {"sg_io"}, id : {0}, ok : {FALSE}]
      \cup [cmd : {"bad"}]

Symmetric == Permutations(Helpers) \cup Permutations(Devices)
=============================================================================
