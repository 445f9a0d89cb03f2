------------------------------ MODULE MCGitSync ------------------------------
(* Small instances of git sync.                                            *)
EXTENDS GitSync

Racing == [push |-> TRUE, apply |-> TRUE]
OnlyPull == [push |-> FALSE, apply |-> TRUE]
FetchFirst == [push |-> TRUE, apply |-> FALSE]
AllModes == {Racing, OnlyPull, FetchFirst}
RacingMode == {Racing}
PullMode == {OnlyPull}
FetchMode == {FetchFirst}

\* A commit to the remote changes the settings and the access list together.
Kinds == {<<TRUE, TRUE>>}
=============================================================================
