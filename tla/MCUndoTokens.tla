---------------------------- MODULE MCUndoTokens ----------------------------
EXTENDS UndoTokens, TLC

\* Direct calls are interchangeable, so are the others, undo_apply calls and the
\* fields of the record.
Symmetry ==
    Permutations(Direct) \cup Permutations(Calls \ Direct) \cup Permutations(Applies)
    \cup Permutations(SizeFields)
=============================================================================
