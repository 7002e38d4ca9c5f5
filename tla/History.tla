------------------------------ MODULE History ------------------------------
(***************************************************************************)
(* The command history of a shell (lib/zcmdsh/command_shell.c 63-153): a   *)
(* ring of HISTORY_SIZE lines. `last` is the newest line, the slot after   *)
(* it is kept empty and separates the newest line from the oldest, and     *)
(* `current` is the line the operator has walked to.                       *)
(***************************************************************************)
EXTENDS Integers

CONSTANTS
  HISTORY_SIZE,   \* slots of the ring (128)
  EMPTY           \* a slot without a line (the NULL pointer)

ASSUME HistoryAssumption == HISTORY_SIZE \in Nat /\ HISTORY_SIZE >= 3

Slots == 0 .. HISTORY_SIZE - 1

HISTORY_PREV(x) == IF x = 0 THEN HISTORY_SIZE - 1 ELSE x - 1

HISTORY_NEXT(x) == IF x + 1 = HISTORY_SIZE THEN 0 ELSE x + 1

(* The history is allocated, and zeroed, by the first command. *)
NewHistory == [array |-> [i \in Slots |-> EMPTY], last |-> 0, current |-> 0]

(* The slot the next command is written to. *)
AddSlot(h) == IF h.array[h.last] # EMPTY THEN HISTORY_NEXT(h.last) ELSE h.current

(* What assert() asks for at command_shell.c:86. *)
AddAllowed(h) == h.array[AddSlot(h)] = EMPTY

(* Mutant: the slot after the new line is not emptied. *)
XKeepOldest(h, line) ==
  LET slot == AddSlot(h)
  IN  [array |-> [h.array EXCEPT ![slot] = line],
       last |-> slot, current |-> HISTORY_NEXT(slot)]

(* command_history_add(): write the slot, empty the one after it. *)
command_history_add(h, line) ==
  LET slot == AddSlot(h)
  IN  [array |-> [h.array EXCEPT ![slot] = line, ![HISTORY_NEXT(slot)] = EMPTY],
       last |-> slot, current |-> HISTORY_NEXT(slot)]

(* command_history_prev() and _next() walk only to a slot with a line, and  *)
(* not past the separator.                                                  *)
PrevAllowed(h) ==
  /\ h.current # HISTORY_NEXT(HISTORY_NEXT(h.last))
  /\ h.array[HISTORY_PREV(h.current)] # EMPTY

NextAllowed(h) ==
  /\ h.current # HISTORY_NEXT(h.last)
  /\ h.array[HISTORY_NEXT(h.current)] # EMPTY

=============================================================================
