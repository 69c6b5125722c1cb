------------------------------- MODULE MCSpaces -------------------------------
(* Instances of Spaces for TLC.                                               *)
EXTENDS SpacesProps, TLC

SpaceOnly == {"POST /spaces"}

LogoutAndRefresh == {"DELETE /session", "POST /session/refresh"}

LogoutOnly == {"DELETE /session"}

SymmetricJobsAndUsers ==
    Permutations(Jobs) \union Permutations(SpaceIds) \union Permutations(TgIds)
=============================================================================
