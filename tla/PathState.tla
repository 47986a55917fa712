------------------------------ MODULE PathState ------------------------------
(***************************************************************************)
(* The path to the declaration that a conversion between descriptors is at *)
(* (internal/idl/path_state.go): field numbers and indices of a            *)
(* FileDescriptor, the latter counted from zero.                           *)
(***************************************************************************)
EXTENDS Integers, SequencesExt

\* The field numbers that the conversions push.
FieldOfMessage == 2
MessageType == 4

EmptyPath == [path |-> << >>, indexStack |-> << >>]

PushFieldNumber(p, fieldNumber) == [p EXCEPT !.path = Append(@, fieldNumber)]

PopFieldNumber(p) == [p EXCEPT !.path = Front(@)]

\* The stack holds the places of the indices in the path.
PushIndex(p) ==
    [path |-> Append(p.path, 0), indexStack |-> Append(p.indexStack, Len(p.path) + 1)]

PopIndex(p) == [path |-> Front(p.path), indexStack |-> Front(p.indexStack)]

\* Mutant of IncrementIndex: the outermost index is counted up.
IncrementFirst(p) ==
    IF p.indexStack = << >> THEN p ELSE [p EXCEPT !.path[Head(p.indexStack)] = @ + 1]

\* Whichever index is innermost; nothing when there is none.
IncrementIndex(p) ==
    IF p.indexStack = << >> THEN p ELSE [p EXCEPT !.path[Last(p.indexStack)] = @ + 1]
=============================================================================
