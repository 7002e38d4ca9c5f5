---------------------------- MODULE ShellProofs ----------------------------
(***************************************************************************)
(* The shell, for every line, every HISTORY_SIZE and every buffer size:    *)
(* the line stays sound and on the screen, a yank puts back what was cut,  *)
(* words are found where they begin, the history ring holds the last       *)
(* commands, and the key map follows the telnet client.                    *)
(***************************************************************************)
EXTENDS Shell, FiniteSetTheorems, NaturalsInduction, WellFoundedInduction, TLAPS

(* A set of numbers has a least one, and Min() finds it. *)
LEMMA MinFacts ==
  ASSUME NEW S, S \subseteq Nat, S # {}
  PROVE  Min(S) \in S /\ \A y \in S : Min(S) <= y
<1>1. PICK x \in S : \A y \in S : ~ (<<y, x>> \in OpToRel(<, Nat))
  BY NatLessThanWellFounded, WFMin
<1>2. ASSUME NEW y \in S PROVE x <= y
  <2>1. ~ (y < x)
    BY <1>1, Zenon DEF OpToRel
  <2>2. QED
    BY <2>1
<1>3. QED
  BY <1>2 DEF Min

(* A bounded one has a greatest one, and Max() finds it. *)
LEMMA MaxFacts ==
  ASSUME NEW n \in Nat, NEW S, S \subseteq 0 .. n, S # {}
  PROVE  Max(S) \in S /\ \A y \in S : y <= Max(S)
<1> DEFINE T == {n - i : i \in S}
           least == Min(T)
<1>1. T \subseteq Nat /\ T # {}
  <2>1. \A i \in S : n - i \in Nat
    OBVIOUS
  <2>2. QED
    BY <2>1
<1>2. least \in T /\ \A t \in T : least <= t
  <2> HIDE DEF T
  <2>1. QED
    BY <1>1, MinFacts
<1>3. PICK x \in S : least = n - x
  BY <1>2
<1> HIDE DEF least
<1>4. ASSUME NEW y \in S PROVE x >= y
  <2>1. n - y \in T
    OBVIOUS
  <2>2. least <= n - y
    BY <1>2, <2>1
  <2>3. x \in Int /\ y \in Int
    OBVIOUS
  <2>4. QED
    BY <1>3, <2>2, <2>3
<1>5. QED
  BY <1>4 DEF Max

(* Induction: a set of numbers with zero, and with n + 1 whenever n is in   *)
(* it, has them all.                                                        *)
LEMMA AllNumbers ==
  ASSUME NEW P, 0 \in P, \A n \in Nat : n \in P => n + 1 \in P
  PROVE  \A n \in Nat : n \in P
<1> SUFFICES ASSUME Nat \ P # {} PROVE FALSE
  OBVIOUS
<1> DEFINE least == Min(Nat \ P)
<1>1. least \in Nat /\ least \notin P /\ \A y \in Nat \ P : least <= y
  BY MinFacts
<1> HIDE DEF least
<1>2. least # 0 /\ least - 1 \in Nat
  BY <1>1
<1>3. least - 1 \in P
  BY <1>1, <1>2
<1>4. (least - 1) + 1 \in P
  BY <1>2, <1>3
<1>5. QED
  BY <1>1, <1>4

-----------------------------------------------------------------------------
(* A state of the editor, from its fields. *)
Is(s, l, n, z, c, b, k, h, u, w, p, t, f) ==
  s = [sh |-> [line |-> l, nul |-> n, size |-> z, cursor |-> c, cut_buffer |-> b,
               keymap |-> k, history |-> h, subnego_buf |-> u, winsize |-> w,
               is_paging |-> p],
       tty |-> t, failed |-> f]

(* Any state of the editor. *)
IsState(s) ==
  Is(s, s.sh.line, s.sh.nul, s.sh.size, s.sh.cursor, s.sh.cut_buffer, s.sh.keymap,
     s.sh.history, s.sh.subnego_buf, s.sh.winsize, s.sh.is_paging, s.tty, s.failed)

(* What the line editor leaves alone. *)
SameRest(t, s) ==
  /\ t.sh.keymap = s.sh.keymap /\ t.sh.history = s.sh.history
  /\ t.sh.subnego_buf = s.sh.subnego_buf /\ t.sh.winsize = s.sh.winsize
  /\ t.sh.is_paging = s.sh.is_paging

(* The fields of a state. *)
LEMMA Fields ==
  ASSUME NEW s, NEW l, NEW n, NEW z, NEW c, NEW b, NEW k, NEW h, NEW u, NEW w, NEW p, NEW t, NEW f,
         Is(s, l, n, z, c, b, k, h, u, w, p, t, f)
  PROVE  /\ s.sh.line = l /\ s.sh.nul = n /\ s.sh.size = z /\ s.sh.cursor = c
         /\ s.sh.cut_buffer = b /\ s.sh.keymap = k /\ s.sh.history = h
         /\ s.sh.subnego_buf = u /\ s.sh.winsize = w /\ s.sh.is_paging = p
         /\ s.tty = t /\ s.failed = f
         /\ IsState(s)
<1>1. /\ s.sh.line = l /\ s.sh.nul = n /\ s.sh.size = z /\ s.sh.cursor = c
      /\ s.sh.cut_buffer = b /\ s.sh.keymap = k /\ s.sh.history = h
      /\ s.sh.subnego_buf = u /\ s.sh.winsize = w /\ s.sh.is_paging = p
      /\ s.tty = t /\ s.failed = f
  BY DEF Is
<1>2. IsState(s)
  BY <1>1, Zenon DEF IsState
<1>3. QED
  BY <1>1, <1>2

(* An assignment to one field changes that field. *)
LEMMA Updates ==
  ASSUME NEW s, NEW l, NEW n, NEW z, NEW c, NEW b, NEW k, NEW h, NEW u, NEW w, NEW p, NEW t, NEW f, NEW x,
         Is(s, l, n, z, c, b, k, h, u, w, p, t, f)
  PROVE  /\ Is([s EXCEPT !.sh.line = x], x, n, z, c, b, k, h, u, w, p, t, f)
         /\ Is([s EXCEPT !.sh.nul = x], l, x, z, c, b, k, h, u, w, p, t, f)
         /\ Is([s EXCEPT !.sh.size = x], l, n, x, c, b, k, h, u, w, p, t, f)
         /\ Is([s EXCEPT !.sh.cursor = x], l, n, z, x, b, k, h, u, w, p, t, f)
         /\ Is([s EXCEPT !.sh.cut_buffer = x], l, n, z, c, x, k, h, u, w, p, t, f)
         /\ Is([s EXCEPT !.sh.keymap = x], l, n, z, c, b, x, h, u, w, p, t, f)
         /\ Is([s EXCEPT !.sh.history = x], l, n, z, c, b, k, x, u, w, p, t, f)
         /\ Is([s EXCEPT !.sh.subnego_buf = x], l, n, z, c, b, k, h, x, w, p, t, f)
         /\ Is([s EXCEPT !.sh.winsize = x], l, n, z, c, b, k, h, u, x, p, t, f)
         /\ Is([s EXCEPT !.sh.is_paging = x], l, n, z, c, b, k, h, u, w, x, t, f)
         /\ Is([s EXCEPT !.tty = x], l, n, z, c, b, k, h, u, w, p, x, f)
         /\ Is([s EXCEPT !.failed = x], l, n, z, c, b, k, h, u, w, p, t, x)
<1>1. Is([s EXCEPT !.sh.line = x], x, n, z, c, b, k, h, u, w, p, t, f)
  BY DEF Is
<1>2. Is([s EXCEPT !.sh.nul = x], l, x, z, c, b, k, h, u, w, p, t, f)
  BY DEF Is
<1>3. Is([s EXCEPT !.sh.size = x], l, n, x, c, b, k, h, u, w, p, t, f)
  BY DEF Is
<1>4. Is([s EXCEPT !.sh.cursor = x], l, n, z, x, b, k, h, u, w, p, t, f)
  BY DEF Is
<1>5. Is([s EXCEPT !.sh.cut_buffer = x], l, n, z, c, x, k, h, u, w, p, t, f)
  BY DEF Is
<1>6. Is([s EXCEPT !.sh.keymap = x], l, n, z, c, b, x, h, u, w, p, t, f)
  BY DEF Is
<1>7. Is([s EXCEPT !.sh.history = x], l, n, z, c, b, k, x, u, w, p, t, f)
  BY DEF Is
<1>8. Is([s EXCEPT !.sh.subnego_buf = x], l, n, z, c, b, k, h, x, w, p, t, f)
  BY DEF Is
<1>9. Is([s EXCEPT !.sh.winsize = x], l, n, z, c, b, k, h, u, x, p, t, f)
  BY DEF Is
<1>10. Is([s EXCEPT !.sh.is_paging = x], l, n, z, c, b, k, h, u, w, x, t, f)
  BY DEF Is
<1>11. Is([s EXCEPT !.tty = x], l, n, z, c, b, k, h, u, w, p, x, f)
  BY DEF Is
<1>12. Is([s EXCEPT !.failed = x], l, n, z, c, b, k, h, u, w, p, t, x)
  BY DEF Is
<1>13. QED
  BY <1>1, <1>2, <1>3, <1>4, <1>5, <1>6, <1>7, <1>8, <1>9, <1>10, <1>11, <1>12

-----------------------------------------------------------------------------
(* shell_terminate() writes the terminator. *)
LEMMA TerminateIs ==
  ASSUME NEW s, IsState(s)
  PROVE  LET t == shell_terminate(s)
         IN  /\ IsState(t) /\ SameRest(t, s)
             /\ t.sh.nul = (Len(s.sh.line) < s.sh.size)
             /\ t.sh.line = s.sh.line /\ t.sh.size = s.sh.size
             /\ t.sh.cursor = s.sh.cursor /\ t.sh.cut_buffer = s.sh.cut_buffer
             /\ t.tty = s.tty /\ t.failed = s.failed
<1> DEFINE nul == (Len(s.sh.line) < s.sh.size)
<1>1. Is(shell_terminate(s), s.sh.line, nul, s.sh.size, s.sh.cursor, s.sh.cut_buffer,
         s.sh.keymap, s.sh.history, s.sh.subnego_buf, s.sh.winsize, s.sh.is_paging,
         s.tty, s.failed)
  BY Updates DEF shell_terminate, IsState
<1> HIDE DEF nul
<1>2. QED
  BY <1>1, Fields DEF SameRest, nul

(* The line, the cursor and the screen assigned, and the line terminated. *)
Written(s, x, c, y) ==
  shell_terminate([s EXCEPT !.sh.line = x, !.sh.cursor = c, !.tty = y])

(* Its fields. *)
LEMMA WrittenIs ==
  ASSUME NEW s, IsState(s), NEW x, NEW c, NEW y
  PROVE  LET t == Written(s, x, c, y)
         IN  /\ IsState(t) /\ SameRest(t, s)
             /\ t.sh.nul = (Len(x) < s.sh.size)
             /\ t.sh.line = x /\ t.sh.size = s.sh.size
             /\ t.sh.cursor = c /\ t.sh.cut_buffer = s.sh.cut_buffer
             /\ t.tty = y /\ t.failed = s.failed
<1> DEFINE r == [s EXCEPT !.sh.line = x, !.sh.cursor = c, !.tty = y]
<1>1. Is(r, x, s.sh.nul, s.sh.size, c, s.sh.cut_buffer,
         s.sh.keymap, s.sh.history, s.sh.subnego_buf, s.sh.winsize, s.sh.is_paging,
         y, s.failed)
  BY Updates DEF IsState
<1> HIDE DEF r
<1>2. /\ IsState(r) /\ SameRest(r, s) /\ r.sh.line = x /\ r.sh.size = s.sh.size
      /\ r.sh.cursor = c /\ r.sh.cut_buffer = s.sh.cut_buffer
      /\ r.tty = y /\ r.failed = s.failed
  BY <1>1, Fields DEF SameRest
<1>3. Written(s, x, c, y) = shell_terminate(r)
  BY DEF r, Written
<1>4. QED
  BY <1>2, <1>3, TerminateIs DEF SameRest

(* shell_clear(). *)
LEMMA ClearIs ==
  ASSUME NEW s, IsState(s)
  PROVE  LET t == shell_clear(s)
         IN  /\ IsState(t) /\ SameRest(t, s)
             /\ t.sh.nul = (Len(<<>>) < s.sh.size)
             /\ t.sh.line = <<>> /\ t.sh.size = s.sh.size
             /\ t.sh.cursor = 0 /\ t.sh.cut_buffer = s.sh.cut_buffer
             /\ t.tty = s.tty /\ t.failed = s.failed
<1> DEFINE r == [s EXCEPT !.sh.line = <<>>, !.sh.cursor = 0]
<1>1. Is(r, <<>>, s.sh.nul, s.sh.size, 0, s.sh.cut_buffer,
         s.sh.keymap, s.sh.history, s.sh.subnego_buf, s.sh.winsize, s.sh.is_paging,
         s.tty, s.failed)
  BY Updates DEF IsState
<1> HIDE DEF r
<1>2. /\ IsState(r) /\ SameRest(r, s) /\ r.sh.line = <<>> /\ r.sh.size = s.sh.size
      /\ r.sh.cursor = 0 /\ r.sh.cut_buffer = s.sh.cut_buffer
      /\ r.tty = s.tty /\ r.failed = s.failed
  BY <1>1, Fields DEF SameRest
<1>3. shell_clear(s) = shell_terminate(r)
  BY DEF shell_clear, r
<1>4. QED
  BY <1>2, <1>3, TerminateIs DEF SameRest

(* The line of shell_insert(). *)
Inserted(s, str) ==
  SubSeq(s.sh.line, 1, s.sh.cursor) \o str
    \o SubSeq(s.sh.line, s.sh.cursor + 1, Len(s.sh.line))

(* shell_insert(). *)
LEMMA InsertIs ==
  ASSUME NEW s, IsState(s), NEW str
  PROVE  LET t == shell_insert(s, str)
             cur == s.sh.cursor
             new == Inserted(s, str)
             put == Put(s.tty, SubSeq(new, cur + 1, Len(new)))
         IN  /\ IsState(t) /\ SameRest(t, s)
             /\ t.sh.nul = (Len(new) < t.sh.size)
             /\ t.sh.line = new /\ t.sh.size = Expanded(s.sh.size, Len(new) + 1)
             /\ t.sh.cursor = cur + Len(str) /\ t.sh.cut_buffer = s.sh.cut_buffer
             /\ t.tty = BackTo(put, Len(new), cur + Len(str)) /\ t.failed = s.failed
<1> DEFINE cur == s.sh.cursor
           new == Inserted(s, str)
           tty == BackTo(Put(s.tty, SubSeq(new, cur + 1, Len(new))), Len(new), cur + Len(str))
           size == Expanded(s.sh.size, Len(new) + 1)
           to == cur + Len(str)
           r == [s EXCEPT !.sh.line = new, !.sh.size = size]
           q == shell_terminate(r)
           t == [q EXCEPT !.sh.cursor = to, !.tty = tty]
<1>1. r = [s EXCEPT !.sh.line = new, !.sh.size = Expanded(@, Len(new) + 1)]
  BY DEF IsState, Is
<1>2. shell_insert(s, str) = t
  <2> HIDE DEF r
  <2>1. QED
    BY <1>1 DEF shell_insert, Inserted
<1> HIDE DEF new, tty, size, to
<1>3. Is(r, new, s.sh.nul, size, s.sh.cursor, s.sh.cut_buffer,
         s.sh.keymap, s.sh.history, s.sh.subnego_buf, s.sh.winsize, s.sh.is_paging,
         s.tty, s.failed)
  BY Updates DEF IsState
<1> HIDE DEF r
<1>4. /\ IsState(r) /\ SameRest(r, s) /\ r.sh.line = new /\ r.sh.size = size
      /\ r.sh.cursor = s.sh.cursor /\ r.sh.cut_buffer = s.sh.cut_buffer
      /\ r.tty = s.tty /\ r.failed = s.failed
  BY <1>3, Fields DEF SameRest
<1>5. /\ IsState(q) /\ SameRest(q, s) /\ q.sh.line = new /\ q.sh.size = size
      /\ q.sh.nul = (Len(new) < size)
      /\ q.sh.cursor = s.sh.cursor /\ q.sh.cut_buffer = s.sh.cut_buffer
      /\ q.tty = s.tty /\ q.failed = s.failed
  BY <1>4, TerminateIs DEF SameRest
<1> HIDE DEF q
<1>6. Is(t, q.sh.line, q.sh.nul, q.sh.size, to, q.sh.cut_buffer,
         q.sh.keymap, q.sh.history, q.sh.subnego_buf, q.sh.winsize, q.sh.is_paging,
         tty, q.failed)
  BY <1>5, Updates DEF IsState
<1> HIDE DEF t
<1>7. /\ IsState(t) /\ SameRest(t, s) /\ t.sh.line = new /\ t.sh.size = size
      /\ t.sh.nul = (Len(new) < size)
      /\ t.sh.cursor = to /\ t.sh.cut_buffer = s.sh.cut_buffer
      /\ t.tty = tty /\ t.failed = s.failed
  BY <1>5, <1>6, Fields DEF SameRest
<1>8. QED
  BY <1>2, <1>7 DEF new, tty, size, to

(* The line of shell_delete_string(). *)
Deleted(s, start, end) ==
  SubSeq(s.sh.line, 1, start) \o SubSeq(s.sh.line, end + 1, Len(s.sh.line))

(* What it draws: the part that moves, and blanks up to the previous end. *)
Drawn(new, start, end) ==
  SubSeq(new, start + 1, Len(new)) \o [i \in 1 .. end - start |-> SPACE]

(* shell_delete_string(), its assert() satisfied. *)
LEMMA DeleteIs ==
  ASSUME NEW s, IsState(s), NEW start, NEW end,
         0 <= start /\ start <= end /\ end <= Len(s.sh.line)
  PROVE  LET t == shell_delete_string(s, start, end)
             new == Deleted(s, start, end)
             put == Put(BackTo(s.tty, s.sh.cursor, start), Drawn(new, start, end))
         IN  /\ IsState(t) /\ SameRest(t, s)
             /\ t.sh.nul = (Len(new) < s.sh.size)
             /\ t.sh.line = new /\ t.sh.size = s.sh.size
             /\ t.sh.cursor = start /\ t.sh.cut_buffer = s.sh.cut_buffer
             /\ t.tty = BackTo(put, Len(s.sh.line), start) /\ t.failed = s.failed
<1> DEFINE new == Deleted(s, start, end)
           drawn == Drawn(new, start, end)
           tty == BackTo(Put(BackTo(s.tty, s.sh.cursor, start), drawn), Len(s.sh.line), start)
<1>1. shell_delete_string(s, start, end) =
        Written(s, new, start, tty)
  BY DEF shell_delete_string, Deleted, Written, Drawn
<1> DEFINE t == shell_delete_string(s, start, end)
<1> HIDE DEF new, tty
<1>2. t = Written(s, new, start, tty)
  BY <1>1
<1> HIDE DEF t
<1>3. /\ IsState(t) /\ SameRest(t, s)
      /\ t.sh.nul = (Len(new) < s.sh.size)
      /\ t.sh.line = new /\ t.sh.size = s.sh.size
      /\ t.sh.cursor = start /\ t.sh.cut_buffer = s.sh.cut_buffer
      /\ t.tty = tty /\ t.failed = s.failed
  BY <1>2, WrittenIs
<1>4. QED
  BY <1>3 DEF t, new, tty

(* The cursor and the screen assigned. *)
Moved(s, c, y) == [s EXCEPT !.sh.cursor = c, !.tty = y]

(* Its fields. *)
LEMMA MovedIs ==
  ASSUME NEW s, IsState(s), NEW c, NEW y
  PROVE  LET t == Moved(s, c, y)
         IN  /\ IsState(t) /\ SameRest(t, s)
             /\ t.sh.nul = s.sh.nul /\ t.sh.line = s.sh.line /\ t.sh.size = s.sh.size
             /\ t.sh.cursor = c /\ t.sh.cut_buffer = s.sh.cut_buffer
             /\ t.tty = y /\ t.failed = s.failed
<1>1. Is(Moved(s, c, y), s.sh.line, s.sh.nul, s.sh.size, c, s.sh.cut_buffer,
         s.sh.keymap, s.sh.history, s.sh.subnego_buf, s.sh.winsize, s.sh.is_paging,
         y, s.failed)
  BY Updates DEF IsState, Moved
<1>2. QED
  BY <1>1, Fields DEF SameRest

(* shell_forward() within the line. *)
LEMMA ForwardIs ==
  ASSUME NEW s, IsState(s), NEW num, ~ s.sh.cursor + num > Len(s.sh.line)
  PROVE  LET t == shell_forward(s, num)
         IN  /\ IsState(t) /\ SameRest(t, s)
             /\ t.sh.nul = s.sh.nul /\ t.sh.line = s.sh.line /\ t.sh.size = s.sh.size
             /\ t.sh.cursor = s.sh.cursor + num /\ t.sh.cut_buffer = s.sh.cut_buffer
             /\ t.tty = Put(s.tty, SubSeq(s.sh.line, s.sh.cursor + 1, s.sh.cursor + num))
             /\ t.failed = s.failed
<1> DEFINE tty == Put(s.tty, SubSeq(s.sh.line, s.sh.cursor + 1, s.sh.cursor + num))
           to == s.sh.cursor + num
<1>1. [s EXCEPT !.sh.cursor = to, !.tty = tty] =
        [s EXCEPT !.sh.cursor = @ + num,
           !.tty = Put(@, SubSeq(s.sh.line, s.sh.cursor + 1, s.sh.cursor + num))]
  BY DEF IsState, Is
<1>2. shell_forward(s, num) = Moved(s, to, tty)
  <2> HIDE DEF tty, to
  <2>1. QED
    BY <1>1 DEF shell_forward, Moved
<1> DEFINE t == shell_forward(s, num)
<1> HIDE DEF tty, to
<1>3. t = Moved(s, to, tty)
  BY <1>2
<1> HIDE DEF t
<1>4. /\ IsState(t) /\ SameRest(t, s)
      /\ t.sh.nul = s.sh.nul /\ t.sh.line = s.sh.line /\ t.sh.size = s.sh.size
      /\ t.sh.cursor = to /\ t.sh.cut_buffer = s.sh.cut_buffer
      /\ t.tty = tty /\ t.failed = s.failed
  BY <1>3, MovedIs
<1>5. QED
  BY <1>4 DEF t, tty, to

(* shell_backward() within the line. *)
LEMMA BackwardIs ==
  ASSUME NEW s, IsState(s), NEW num, ~ s.sh.cursor - num < 0
  PROVE  LET t == shell_backward(s, num)
         IN  /\ IsState(t) /\ SameRest(t, s)
             /\ t.sh.nul = s.sh.nul /\ t.sh.line = s.sh.line /\ t.sh.size = s.sh.size
             /\ t.sh.cursor = s.sh.cursor - num /\ t.sh.cut_buffer = s.sh.cut_buffer
             /\ t.tty = BackTo(s.tty, num, 0) /\ t.failed = s.failed
<1> DEFINE tty == BackTo(s.tty, num, 0)
           to == s.sh.cursor - num
<1>1. [s EXCEPT !.sh.cursor = to, !.tty = tty] =
        [s EXCEPT !.sh.cursor = @ - num, !.tty = BackTo(@, num, 0)]
  BY DEF IsState, Is
<1>2. shell_backward(s, num) = Moved(s, to, tty)
  <2> HIDE DEF tty, to
  <2>1. QED
    BY <1>1 DEF shell_backward, Moved
<1> DEFINE t == shell_backward(s, num)
<1> HIDE DEF tty, to
<1>3. t = Moved(s, to, tty)
  BY <1>2
<1> HIDE DEF t
<1>4. /\ IsState(t) /\ SameRest(t, s)
      /\ t.sh.nul = s.sh.nul /\ t.sh.line = s.sh.line /\ t.sh.size = s.sh.size
      /\ t.sh.cursor = to /\ t.sh.cut_buffer = s.sh.cut_buffer
      /\ t.tty = tty /\ t.failed = s.failed
  BY <1>3, MovedIs
<1>5. QED
  BY <1>4 DEF t, tty, to

(* The screen assigned. *)
Redrawn(s, y) == [s EXCEPT !.tty = y]

(* Its fields. *)
LEMMA RedrawnIs ==
  ASSUME NEW s, IsState(s), NEW y
  PROVE  LET t == Redrawn(s, y)
         IN  IsState(t) /\ t.sh = s.sh /\ t.failed = s.failed /\ t.tty = y
<1>1. Is(Redrawn(s, y), s.sh.line, s.sh.nul, s.sh.size, s.sh.cursor, s.sh.cut_buffer,
         s.sh.keymap, s.sh.history, s.sh.subnego_buf, s.sh.winsize, s.sh.is_paging,
         y, s.failed)
  BY Updates DEF IsState, Redrawn
<1>2. Redrawn(s, y).sh = s.sh
  BY DEF IsState, Is, Redrawn
<1>3. QED
  BY <1>1, <1>2, Fields

(* shell_refresh() only redraws. *)
LEMMA RefreshIs ==
  ASSUME NEW s, IsState(s)
  PROVE  LET t == shell_refresh(s)
         IN  /\ IsState(t) /\ t.sh = s.sh /\ t.failed = s.failed
             /\ t.tty = BackTo(Put(shell_prompt(s.tty), s.sh.line),
                               Len(s.sh.line), s.sh.cursor)
<1> DEFINE tty == BackTo(Put(shell_prompt(s.tty), s.sh.line), Len(s.sh.line), s.sh.cursor)
<1>1. shell_refresh(s) = Redrawn(s, tty)
  BY DEF shell_refresh, Redrawn
<1> HIDE DEF tty
<1>2. QED
  BY <1>1, RedrawnIs DEF tty

(* shell_format(), but for the screen. *)
LEMMA FormatIs ==
  ASSUME NEW s, IsState(s)
  PROVE  LET t == shell_format(s)
             new == Copied(s.sh.line)[Len(s.sh.line)]
         IN  /\ IsState(t) /\ SameRest(t, s)
             /\ t.sh.nul = (Len(new) < s.sh.size)
             /\ t.sh.line = new /\ t.sh.size = s.sh.size
             /\ t.sh.cursor = Len(Copied(s.sh.line)[s.sh.cursor])
             /\ t.sh.cut_buffer = s.sh.cut_buffer /\ t.failed = s.failed
<1> DEFINE new == Copied(s.sh.line)[Len(s.sh.line)]
           cur == Len(Copied(s.sh.line)[s.sh.cursor])
           tty == BackTo(Put(BackTo(s.tty, s.sh.cursor, 0),
                             new \o [i \in 1 .. Len(s.sh.line) - Len(new) |-> SPACE]),
                         Len(s.sh.line), cur)
<1>1. shell_format(s) = Written(s, new, cur, tty)
  BY DEF shell_format, Written
<1> DEFINE t == shell_format(s)
<1> HIDE DEF new, cur, tty
<1>2. t = Written(s, new, cur, tty)
  BY <1>1
<1> HIDE DEF t
<1>3. /\ IsState(t) /\ SameRest(t, s)
      /\ t.sh.nul = (Len(new) < s.sh.size)
      /\ t.sh.line = new /\ t.sh.size = s.sh.size
      /\ t.sh.cursor = cur /\ t.sh.cut_buffer = s.sh.cut_buffer
      /\ t.failed = s.failed
  BY <1>2, WrittenIs
<1>4. QED
  BY <1>3 DEF t, new, cur

(* The cut buffer assigned. *)
Holding(s, x) == [s EXCEPT !.sh.cut_buffer = x]

(* Its fields. *)
LEMMA HoldingIs ==
  ASSUME NEW s, IsState(s), NEW x
  PROVE  LET t == Holding(s, x)
         IN  /\ IsState(t) /\ SameRest(t, s)
             /\ t.sh.nul = s.sh.nul /\ t.sh.line = s.sh.line /\ t.sh.size = s.sh.size
             /\ t.sh.cursor = s.sh.cursor /\ t.sh.cut_buffer = x
             /\ t.tty = s.tty /\ t.failed = s.failed
<1>1. Is(Holding(s, x), s.sh.line, s.sh.nul, s.sh.size, s.sh.cursor, x,
         s.sh.keymap, s.sh.history, s.sh.subnego_buf, s.sh.winsize, s.sh.is_paging,
         s.tty, s.failed)
  BY Updates DEF IsState, Holding
<1>2. QED
  BY <1>1, Fields DEF SameRest

(* The key map assigned. *)
LEMMA MappedIs ==
  ASSUME NEW s, IsState(s), NEW x
  PROVE  LET t == Mapped(s, x)
         IN  /\ IsState(t) /\ t.sh.keymap = x
             /\ t.sh.nul = s.sh.nul /\ t.sh.line = s.sh.line /\ t.sh.size = s.sh.size
             /\ t.sh.cursor = s.sh.cursor /\ t.sh.cut_buffer = s.sh.cut_buffer
             /\ t.sh.history = s.sh.history /\ t.sh.subnego_buf = s.sh.subnego_buf
             /\ t.sh.winsize = s.sh.winsize /\ t.sh.is_paging = s.sh.is_paging
             /\ t.tty = s.tty /\ t.failed = s.failed
<1> DEFINE t == Mapped(s, x)
<1>1. Is(t, s.sh.line, s.sh.nul, s.sh.size, s.sh.cursor, s.sh.cut_buffer,
         x, s.sh.history, s.sh.subnego_buf, s.sh.winsize, s.sh.is_paging,
         s.tty, s.failed)
  BY Updates DEF IsState, Mapped
<1> HIDE DEF t
<1>2. QED
  BY <1>1, Fields DEF SameRest, t

-----------------------------------------------------------------------------
(* The terminal. What a column shows: a blank beyond the end of the text. *)
Cell(x, i) == IF i \in 1 .. Len(x) THEN x[i] ELSE SPACE

(* The larger and the smaller of two numbers. *)
LEMMA OfTwo ==
  ASSUME NEW a \in Int, NEW b \in Int
  PROVE  /\ Max({a, b}) = IF a <= b THEN b ELSE a
         /\ Min({a, b}) = IF a <= b THEN a ELSE b
<1>1. Max({a, b}) = IF a <= b THEN b ELSE a
  BY DEF Max
<1>2. Min({a, b}) = IF a <= b THEN a ELSE b
  BY DEF Min
<1>3. QED
  BY <1>1, <1>2

(* The length of a text without its trailing blanks. *)
Last(x) == Max({0} \cup {i \in DOMAIN x : x[i] # SPACE})

(* It is within the text, and at a character that is not blank. *)
LEMMA LastFacts ==
  ASSUME NEW x \in Seq(Printable)
  PROVE  /\ Last(x) \in 0 .. Len(x)
         /\ Last(x) > 0 => x[Last(x)] # SPACE
         /\ \A i \in 1 .. Len(x) : i > Last(x) => x[i] = SPACE
<1> DEFINE S == {0} \cup {i \in DOMAIN x : x[i] # SPACE}
<1>1. Len(x) \in Nat /\ DOMAIN x = 1 .. Len(x) /\ S \subseteq 0 .. Len(x) /\ S # {}
  OBVIOUS
<1>2. Last(x) = Max(S)
  BY DEF Last
<1>3. Last(x) \in S /\ \A y \in S : y <= Last(x)
  <2> HIDE DEF S
  <2>1. QED
    BY <1>1, <1>2, MaxFacts
<1>4. QED
  BY <1>1, <1>3

(* Trim() keeps what the columns show. *)
LEMMA TrimFacts ==
  ASSUME NEW x \in Seq(Printable)
  PROVE  /\ Trim(x) \in Seq(Printable) /\ Len(Trim(x)) = Last(x)
         /\ \A i \in 1 .. Last(x) : Trim(x)[i] = x[i]
         /\ \A i \in Nat : Cell(Trim(x), i) = Cell(x, i)
<1>1. Trim(x) = SubSeq(x, 1, Last(x))
  BY DEF Trim, Last
<1>2. Last(x) \in 0 .. Len(x)
  BY LastFacts
<1>3. /\ Trim(x) \in Seq(Printable) /\ Len(Trim(x)) = Last(x)
      /\ \A i \in 1 .. Last(x) : Trim(x)[i] = x[i]
  BY <1>1, <1>2
<1>4. \A i \in Nat : Cell(Trim(x), i) = Cell(x, i)
  BY <1>2, <1>3, LastFacts DEF Cell
<1>5. QED
  BY <1>3, <1>4

(* Texts that show the same are trimmed to the same text. *)
LEMMA TrimEqual ==
  ASSUME NEW x \in Seq(Printable), NEW y \in Seq(Printable),
         \A i \in Nat \ {0} : Cell(x, i) = Cell(y, i)
  PROVE  Trim(x) = Trim(y)
<1>1. /\ Last(x) \in 0 .. Len(x) /\ Last(y) \in 0 .. Len(y)
      /\ Last(x) > 0 => x[Last(x)] # SPACE
      /\ Last(y) > 0 => y[Last(y)] # SPACE
      /\ \A i \in 1 .. Len(x) : i > Last(x) => x[i] = SPACE
      /\ \A i \in 1 .. Len(y) : i > Last(y) => y[i] = SPACE
  BY LastFacts
<1>2. ~ Last(x) > Last(y)
  <2>1. SUFFICES ASSUME Last(x) > Last(y) PROVE FALSE
    OBVIOUS
  <2>2. Cell(x, Last(x)) # SPACE
    BY <1>1, <2>1 DEF Cell
  <2>3. Cell(y, Last(x)) = SPACE
    BY <1>1, <2>1 DEF Cell
  <2>4. QED
    BY <1>1, <2>1, <2>2, <2>3
<1>3. ~ Last(y) > Last(x)
  <2>1. SUFFICES ASSUME Last(y) > Last(x) PROVE FALSE
    OBVIOUS
  <2>2. Cell(y, Last(y)) # SPACE
    BY <1>1, <2>1 DEF Cell
  <2>3. Cell(x, Last(y)) = SPACE
    BY <1>1, <2>1 DEF Cell
  <2>4. QED
    BY <1>1, <2>1, <2>2, <2>3
<1>4. Last(x) = Last(y)
  BY <1>1, <1>2, <1>3
<1>5. \A i \in 1 .. Last(x) : x[i] = y[i]
  <2>1. SUFFICES ASSUME NEW i \in 1 .. Last(x) PROVE x[i] = y[i]
    OBVIOUS
  <2>2. i \in Nat \ {0} /\ i \in 1 .. Len(x) /\ i \in 1 .. Len(y)
    BY <1>1, <1>4
  <2>3. Cell(x, i) = Cell(y, i)
    BY <2>2
  <2>4. QED
    BY <2>2, <2>3 DEF Cell
<1>6. /\ Trim(x) \in Seq(Printable) /\ Len(Trim(x)) = Last(x)
      /\ Trim(y) \in Seq(Printable) /\ Len(Trim(y)) = Last(y)
      /\ \A i \in 1 .. Last(x) : Trim(x)[i] = Trim(y)[i]
  BY <1>4, <1>5, TrimFacts
<1>7. QED
  BY <1>4, <1>6

(* A terminal with a text and a column. *)
Tty(t, x, c) == t = [text |-> x, col |-> c, lost |-> FALSE]

(* The terminal shows a line with the cursor at a column, or is overwritten.*)
Screen(t, line, c) == t = Lost \/ Tty(t, Trim(line), c)

(* The cells Put() writes. *)
Filled(x, c, str) ==
  [i \in 1 .. Max({Len(x), c + Len(str)}) |->
     IF i \in (c + 1) .. (c + Len(str)) THEN str[i - c]
     ELSE IF i <= Len(x) THEN x[i] ELSE SPACE]

(* They are a text, and columns that are not written keep what they show. *)
LEMMA FilledFacts ==
  ASSUME NEW x \in Seq(Printable), NEW c \in Nat, NEW str \in Seq(Printable)
  PROVE  /\ Filled(x, c, str) \in Seq(Printable)
         /\ \A i \in Nat \ {0} : Cell(Filled(x, c, str), i) =
              IF i \in (c + 1) .. (c + Len(str)) THEN str[i - c] ELSE Cell(x, i)
<1> DEFINE w == Max({Len(x), c + Len(str)})
<1>1. w \in Nat /\ Len(x) <= w /\ c + Len(str) <= w
  BY OfTwo
<1>2. Filled(x, c, str) =
        [i \in 1 .. w |-> IF i \in (c + 1) .. (c + Len(str)) THEN str[i - c]
                          ELSE IF i <= Len(x) THEN x[i] ELSE SPACE]
  BY DEF Filled
<1> HIDE DEF w
<1>3. Filled(x, c, str) \in Seq(Printable) /\ Len(Filled(x, c, str)) = w
  <2>1. \A i \in 1 .. w : (IF i \in (c + 1) .. (c + Len(str)) THEN str[i - c]
                           ELSE IF i <= Len(x) THEN x[i] ELSE SPACE) \in Printable
    BY <1>1, ShellAssumption
  <2>2. QED
    BY <1>1, <1>2, <2>1
<1>4. \A i \in 1 .. w : Filled(x, c, str)[i] =
              IF i \in (c + 1) .. (c + Len(str)) THEN str[i - c]
              ELSE IF i <= Len(x) THEN x[i] ELSE SPACE
  BY <1>2
<1>5. QED
  BY <1>1, <1>3, <1>4 DEF Cell

(* Assignments to the text and the column. *)
LEMMA TerminalIs ==
  ASSUME NEW t, NEW x, NEW c, NEW y, NEW d, Tty(t, x, c)
  PROVE  /\ t.lost = FALSE /\ t.text = x /\ t.col = c
         /\ Tty([t EXCEPT !.col = d], x, d)
         /\ Tty([t EXCEPT !.text = y, !.col = d], y, d)
<1>1. t.lost = FALSE /\ t.text = x /\ t.col = c
  BY DEF Tty
<1> DEFINE Of(r, xx, cc, f) == r = [text |-> xx, col |-> cc, lost |-> f]
<1>2. ASSUME NEW r, NEW xx, NEW cc, NEW f, NEW z, Of(r, xx, cc, f)
      PROVE  Of([r EXCEPT !.text = z], z, cc, f) /\ Of([r EXCEPT !.col = z], xx, z, f)
  <2>1. Of([r EXCEPT !.text = z], z, cc, f)
    BY <1>2
  <2>2. Of([r EXCEPT !.col = z], xx, z, f)
    BY <1>2
  <2>3. QED
    BY <2>1, <2>2
<1>3. Of(t, x, c, FALSE)
  BY DEF Tty
<1> HIDE DEF Of
<1>4. Of([t EXCEPT !.col = d], x, d, FALSE)
  BY <1>2, <1>3, Zenon
<1>5. Of([t EXCEPT !.text = y, !.col = d], y, d, FALSE)
  BY <1>2, <1>3
<1>6. QED
  BY <1>1, <1>4, <1>5 DEF Tty, Of

(* Put() of a text at the cursor shows any line that agrees with the text   *)
(* in the columns written, and with the line shown before in the others.    *)
LEMMA PutScreen ==
  ASSUME NEW t, NEW line \in Seq(Printable), NEW c \in Nat, NEW str \in Seq(Printable),
         NEW new \in Seq(Printable), Screen(t, line, c),
         \A i \in Nat \ {0} : Cell(new, i) =
           IF i \in (c + 1) .. (c + Len(str)) THEN str[i - c] ELSE Cell(line, i)
  PROVE  Screen(Put(t, str), new, c + Len(str))
<1>1. CASE t = Lost
  BY <1>1 DEF Screen, Put, Lost
<1>2. CASE Tty(t, Trim(line), c)
  <2> DEFINE x == Trim(line)
             y == Filled(x, c, str)
  <2>1. x \in Seq(Printable) /\ \A i \in Nat : Cell(x, i) = Cell(line, i)
    BY TrimFacts
  <2> HIDE DEF x
  <2>2. t.lost = FALSE /\ t.text = x /\ t.col = c
    BY <1>2, TerminalIs DEF x
  <2>3. Put(t, str) = [t EXCEPT !.text = Trim(y), !.col = t.col + Len(str)]
    BY <2>2 DEF Put, Filled
  <2>4. y \in Seq(Printable) /\ \A i \in Nat \ {0} : Cell(y, i) = Cell(new, i)
    <3>1. /\ y \in Seq(Printable)
          /\ \A i \in Nat \ {0} : Cell(y, i) =
               IF i \in (c + 1) .. (c + Len(str)) THEN str[i - c] ELSE Cell(x, i)
      BY <2>1, FilledFacts
    <3> HIDE DEF y
    <3>2. ASSUME NEW i \in Nat \ {0} PROVE Cell(y, i) = Cell(new, i)
      BY <2>1, <3>1
    <3>3. QED
      BY <3>1, <3>2
  <2> HIDE DEF y
  <2>5. Trim(y) = Trim(new)
    BY <2>4, TrimEqual
  <2>6. Tty([t EXCEPT !.text = Trim(y), !.col = t.col + Len(str)], Trim(y), c + Len(str))
    BY <1>2, <2>2, TerminalIs
  <2>7. QED
    BY <2>3, <2>5, <2>6 DEF Screen
<1>3. QED
  BY <1>1, <1>2 DEF Screen

(* BackTo() moves the cursor back. *)
LEMMA BackScreen ==
  ASSUME NEW t, NEW line, NEW c \in Nat, NEW from \in Int, NEW to \in Int, Screen(t, line, c)
  PROVE  Screen(BackTo(t, from, to), line, IF from <= to THEN c ELSE c - (from - to))
<1> DEFINE d == Max({0, from - to})
<1>1. d = IF 0 <= from - to THEN from - to ELSE 0
  BY OfTwo
<1>2. (IF from <= to THEN c ELSE c - (from - to)) = c - d
  BY <1>1
<1>3. BackTo(t, from, to) = IF t.lost THEN t ELSE [t EXCEPT !.col = t.col - d]
  BY DEF BackTo
<1> HIDE DEF d
<1>4. CASE t = Lost
  BY <1>3, <1>4 DEF Screen, Lost
<1>5. CASE Tty(t, Trim(line), c)
  <2>1. t.lost = FALSE /\ t.col = c
    BY <1>5, TerminalIs
  <2>2. Tty([t EXCEPT !.col = t.col - d], Trim(line), c - d)
    BY <1>5, <2>1, TerminalIs
  <2>3. QED
    BY <1>2, <1>3, <2>1, <2>2 DEF Screen
<1>6. QED
  BY <1>4, <1>5 DEF Screen

(* The empty screen shows the empty line. *)
LEMMA BlankScreen == Screen(Blank, <<>>, 0)
<1>1. <<>> \in Seq(Printable) /\ Len(<<>>) = 0
  OBVIOUS
<1>2. Trim(<<>>) = <<>>
  <2>1. ASSUME NEW e \in Seq(Printable), Len(e) = 0
        PROVE  Trim(e) \in Seq(Printable) /\ Len(Trim(e)) = 0
    <3>1. Last(e) \in 0 .. 0
      BY <2>1, LastFacts
    <3>2. Last(e) = 0
      BY <3>1
    <3>3. QED
      BY <3>2, TrimFacts
  <2>2. ASSUME NEW e \in Seq(Printable), Len(e) = 0 PROVE e = <<>>
    BY <2>2
  <2>3. QED
    BY <1>1, <2>1, <2>2
<1>3. QED
  BY <1>2 DEF Screen, Blank, Tty

(* shell_refresh() shows the line, whatever of it was shown before. *)
LEMMA RefreshScreen ==
  ASSUME NEW t, NEW line \in Seq(Printable), NEW c \in 0 .. Len(line), NEW d,
         Screen(t, line, d) \/ t = Blank
  PROVE  Screen(BackTo(Put(shell_prompt(t), line), Len(line), c), line, c)
<1> DEFINE p == shell_prompt(t)
<1>1. PICK old \in {line, <<>>} : Screen(p, old, 0)
  <2>1. CASE t = Blank
    <3>1. p = Blank
      BY <2>1 DEF shell_prompt, Blank
    <3>2. QED
      BY <3>1, BlankScreen
  <2>2. CASE t = Lost
    <3>1. p = Blank
      BY <2>2 DEF shell_prompt, Lost
    <3>2. QED
      BY <3>1, BlankScreen
  <2>3. CASE Tty(t, Trim(line), d)
    <3>1. Tty(p, Trim(line), 0)
      BY <2>3, TerminalIs DEF shell_prompt
    <3>2. QED
      BY <3>1 DEF Screen
  <2>4. QED
    BY <2>1, <2>2, <2>3 DEF Screen
<1> HIDE DEF p
<1>2. old \in Seq(Printable) /\ Len(old) <= Len(line) /\ Len(line) \in Nat
  <2>1. Len(line) \in Nat /\ <<>> \in Seq(Printable) /\ Len(<<>>) = 0
    OBVIOUS
  <2>2. old = line \/ old = <<>>
    OBVIOUS
  <2>3. CASE old = line
    BY <2>1, <2>3
  <2>4. CASE old = <<>>
    <3>1. Len(old) = 0 /\ old \in Seq(Printable)
      BY <2>1, <2>4
    <3>2. QED
      BY <2>1, <3>1
  <2>5. QED
    BY <2>2, <2>3, <2>4
<1>3. \A i \in Nat \ {0} : Cell(line, i) =
        IF i \in (0 + 1) .. (0 + Len(line)) THEN line[i - 0] ELSE Cell(old, i)
  BY <1>2 DEF Cell
<1>4. Screen(Put(p, line), line, 0 + Len(line))
  BY <1>1, <1>2, <1>3, PutScreen
<1>5. Screen(Put(p, line), line, Len(line))
  BY <1>2, <1>4
<1>6. Screen(BackTo(Put(p, line), Len(line), c), line,
             IF Len(line) <= c THEN Len(line) ELSE Len(line) - (Len(line) - c))
  BY <1>2, <1>5, BackScreen
<1>7. (IF Len(line) <= c THEN Len(line) ELSE Len(line) - (Len(line) - c)) = c
  BY <1>2
<1>8. QED
  BY <1>6, <1>7 DEF p

-----------------------------------------------------------------------------
(* A recursion on a number up to n, its values in V. *)
Recursive(n, V, step) == step \in [1 .. n -> [V -> V]]

(* It has a solution. *)
Solved(n, V, base, step) ==
  \E f \in [0 .. n -> V] : f[0] = base /\ \A k \in 1 .. n : f[k] = step[k][f[k - 1]]

(* A function defined by recursion on a number exists. *)
LEMMA Recursion ==
  ASSUME NEW n \in Nat, NEW V, NEW base \in V, NEW step, Recursive(n, V, step)
  PROVE  Solved(n, V, base, step)
<1> USE DEF Recursive, Solved
<1> DEFINE Good(m, f) == f[0] = base /\ \A k \in 1 .. m : f[k] = step[k][f[k - 1]]
           P == {m \in Nat : m <= n => \E f \in [0 .. m -> V] : Good(m, f)}
<1>1. 0 \in P
  <2>1. [k \in 0 .. 0 |-> base] \in [0 .. 0 -> V] /\ Good(0, [k \in 0 .. 0 |-> base])
    OBVIOUS
  <2>2. QED
    BY <2>1
<1>2. ASSUME NEW m \in Nat, m \in P PROVE m + 1 \in P
  <2>1. SUFFICES ASSUME m + 1 <= n PROVE \E f \in [0 .. m + 1 -> V] : Good(m + 1, f)
    OBVIOUS
  <2>2. PICK f \in [0 .. m -> V] : Good(m, f)
    BY <1>2, <2>1
  <2> DEFINE g == [k \in 0 .. m + 1 |-> IF k = m + 1 THEN step[m + 1][f[m]] ELSE f[k]]
  <2>3. step[m + 1][f[m]] \in V
    <3>1. m + 1 \in 1 .. n /\ f[m] \in V
      BY <2>1
    <3>2. QED
      BY <3>1
  <2>4. g \in [0 .. m + 1 -> V]
    BY <2>3
  <2>5. g[0] = base
    BY <2>2
  <2>6. ASSUME NEW k \in 1 .. m + 1 PROVE g[k] = step[k][g[k - 1]]
    <3>1. k - 1 \in 0 .. m /\ k - 1 # m + 1 /\ g[k - 1] = f[k - 1]
      OBVIOUS
    <3>2. CASE k = m + 1
      BY <3>1, <3>2
    <3>3. CASE k # m + 1
      <4>1. k \in 1 .. m /\ g[k] = f[k]
        BY <3>3
      <4>2. QED
        BY <2>2, <3>1, <4>1
    <3>4. QED
      BY <3>2, <3>3
  <2>7. QED
    BY <2>4, <2>5, <2>6
<1>3. \A m \in Nat : m \in P
  <2> HIDE DEF P
  <2>1. QED
    BY <1>1, <1>2, AllNumbers
<1>4. n \in P
  BY <1>3
<1>5. QED
  BY <1>4

(* The sizes of shell_expand(): each is twice the one before. *)
LEMMA DoubledIs ==
  ASSUME NEW size \in Nat, NEW n \in Nat
  PROVE  /\ Doubled(size, n) \in [0 .. n -> Nat]
         /\ Doubled(size, n)[0] = size
         /\ \A k \in 1 .. n : Doubled(size, n)[k] = 2 * Doubled(size, n)[k - 1]
<1> DEFINE step == [k \in 1 .. n |-> [v \in Nat |-> 2 * v]]
           Is2(f) == f = [k \in 0 .. n |-> IF k = 0 THEN size ELSE 2 * f[k - 1]]
<1>1. step \in [1 .. n -> [Nat -> Nat]]
  OBVIOUS
<1>2. PICK f \in [0 .. n -> Nat] : f[0] = size /\ \A k \in 1 .. n : f[k] = step[k][f[k - 1]]
  <2> HIDE DEF step
  <2>1. Recursive(n, Nat, step)
    BY <1>1 DEF Recursive
  <2>2. Solved(n, Nat, size, step)
    BY <2>1, Recursion
  <2>3. QED
    BY <2>2 DEF Solved
<1>3. \A k \in 1 .. n : f[k] = 2 * f[k - 1]
  <2>1. SUFFICES ASSUME NEW k \in 1 .. n PROVE f[k] = 2 * f[k - 1]
    OBVIOUS
  <2>2. f[k - 1] \in Nat
    OBVIOUS
  <2>3. \A v \in Nat : step[k][v] = 2 * v
    OBVIOUS
  <2> HIDE DEF step
  <2>4. f[k] = step[k][f[k - 1]]
    BY <1>2
  <2>5. QED
    BY <2>2, <2>3, <2>4
<1>4. Is2(f)
  <2>1. f = [k \in 0 .. n |-> f[k]]
    OBVIOUS
  <2>2. ASSUME NEW k \in 0 .. n PROVE f[k] = IF k = 0 THEN size ELSE 2 * f[k - 1]
    BY <1>2, <1>3
  <2>3. QED
    BY <2>1, <2>2
<1>5. Doubled(size, n) = CHOOSE g : Is2(g)
  BY DEF Doubled
<1>6. Is2(Doubled(size, n))
  <2> HIDE DEF Is2
  <2>1. QED
    BY <1>4, <1>5
<1> DEFINE d == Doubled(size, n)
<1> HIDE DEF step
<1>7. /\ DOMAIN d = 0 .. n /\ d = [k \in 0 .. n |-> d[k]]
      /\ d[0] = size /\ \A k \in 1 .. n : d[k] = 2 * d[k - 1]
  <2> HIDE DEF d
  <2>1. d = [k \in 0 .. n |-> IF k = 0 THEN size ELSE 2 * d[k - 1]]
    BY <1>6 DEF d
  <2>2. \A k \in 0 .. n : d[k] = IF k = 0 THEN size ELSE 2 * d[k - 1]
    BY <2>1
  <2>3. DOMAIN d = 0 .. n /\ d = [k \in 0 .. n |-> d[k]]
    BY <2>1
  <2>4. d[0] = size
    BY <2>2
  <2>5. ASSUME NEW k \in 1 .. n PROVE d[k] = 2 * d[k - 1]
    <3>1. k \in 0 .. n /\ k # 0
      OBVIOUS
    <3>2. QED
      BY <2>2, <3>1, Zenon
  <2>6. QED
    BY <2>3, <2>4, <2>5
<1> DEFINE P == {k \in Nat : k <= n => d[k] \in Nat}
<1>8. \A k \in Nat : k \in P
  <2> HIDE DEF d
  <2>1. 0 \in P
    BY <1>7
  <2>2. \A k \in Nat : k \in P => k + 1 \in P
    <3>1. SUFFICES ASSUME NEW k \in Nat, k \in P, k + 1 <= n PROVE d[k + 1] \in Nat
      OBVIOUS
    <3>2. d[k] \in Nat /\ k + 1 \in 1 .. n
      BY <3>1
    <3>3. d[k + 1] = 2 * d[k]
      <4>1. d[k + 1] = 2 * d[(k + 1) - 1] /\ (k + 1) - 1 = k
        BY <1>7, <3>2
      <4>2. QED
        BY <4>1
    <3>4. QED
      BY <3>2, <3>3
  <2> HIDE DEF P
  <2>3. QED
    BY <2>1, <2>2, AllNumbers
<1>9. d \in [0 .. n -> Nat]
  <2> HIDE DEF d
  <2>1. \A k \in 0 .. n : d[k] \in Nat
    BY <1>8
  <2>2. QED
    BY <1>7, <2>1
<1>10. QED
  BY <1>7, <1>9

(* shell_insert() makes room for the line and its terminator. *)
LEMMA ExpandedFacts ==
  ASSUME NEW size \in Nat, size > 0, NEW need \in Nat
  PROVE  Expanded(size, need) \in Nat /\ Expanded(size, need) >= need
<1> DEFINE d == Doubled(size, need)
           S == {x \in {Doubled(size, need)[k] : k \in 0 .. need} : x >= need}
           P == {k \in Nat : k <= need => d[k] >= size + k}
<1>1. /\ d \in [0 .. need -> Nat] /\ d[0] = size
      /\ \A k \in 1 .. need : d[k] = 2 * d[k - 1]
  BY DoubledIs
<1>2. \A k \in Nat : k \in P
  <2> HIDE DEF d
  <2>1. 0 \in P
    BY <1>1
  <2>2. \A k \in Nat : k \in P => k + 1 \in P
    <3>1. SUFFICES ASSUME NEW k \in Nat, k \in P, k + 1 <= need
                   PROVE  d[k + 1] >= size + (k + 1)
      OBVIOUS
    <3>2. k \in 0 .. need /\ k + 1 \in 1 .. need /\ d[k] >= size + k
      BY <3>1
    <3>3. d[k] \in Nat
      BY <1>1, <3>2
    <3>4. d[k + 1] = 2 * d[k]
      BY <1>1, <3>2
    <3>5. QED
      BY <3>2, <3>3, <3>4
  <2> HIDE DEF P
  <2>3. QED
    BY <2>1, <2>2, AllNumbers
<1>3. S \subseteq Nat /\ S # {}
  <2> HIDE DEF d
  <2>1. S = {x \in {d[k] : k \in 0 .. need} : x >= need}
    BY DEF d
  <2>2. need \in P /\ need \in 0 .. need
    BY <1>2
  <2>3. d[need] \in Nat /\ d[need] >= size + need
    BY <1>1, <2>2
  <2>4. d[need] \in S
    <3>1. d[need] >= need
      BY <2>3
    <3>2. QED
      BY <2>1, <2>2, <3>1
  <2>5. S \subseteq Nat
    BY <1>1, <2>1
  <2>6. QED
    BY <2>4, <2>5
<1>4. Expanded(size, need) = Min(S)
  BY DEF Expanded
<1>5. Min(S) \in S
  <2> HIDE DEF S
  <2>1. QED
    BY <1>3, MinFacts
<1>6. QED
  BY <1>3, <1>4, <1>5

-----------------------------------------------------------------------------
(* A sound line: what the properties say of it, and of what they need. *)
LineGood(s) ==
  /\ IsState(s)
  /\ s.sh.line \in Seq(Printable)
  /\ s.sh.cursor \in 0 .. Len(s.sh.line)
  /\ s.sh.size \in Nat /\ Len(s.sh.line) < s.sh.size
  /\ s.sh.nul = TRUE
  /\ s.sh.cut_buffer \in Seq(Printable) \cup {EMPTY}
  /\ s.failed = FALSE

(* A sound line that is on the screen. *)
Good(s) == LineGood(s) /\ Screen(s.tty, s.sh.line, s.sh.cursor)

(* Two texts joined. *)
LEMMA Joined ==
  ASSUME NEW x \in Seq(Printable), NEW y \in Seq(Printable)
  PROVE  /\ x \o y \in Seq(Printable) /\ Len(x \o y) = Len(x) + Len(y)
         /\ \A i \in 1 .. Len(x) : (x \o y)[i] = x[i]
         /\ \A i \in 1 .. Len(x) + Len(y) : i > Len(x) => (x \o y)[i] = y[i - Len(x)]
<1>1. x \o y \in Seq(Printable) /\ Len(x \o y) = Len(x) + Len(y)
  OBVIOUS
<1>2. \A i \in 1 .. Len(x) : (x \o y)[i] = x[i]
  OBVIOUS
<1>3. \A i \in 1 .. Len(x) + Len(y) : i > Len(x) => (x \o y)[i] = y[i - Len(x)]
  OBVIOUS
<1>4. QED
  BY <1>1, <1>2, <1>3

(* A part of a text. *)
LEMMA Part ==
  ASSUME NEW x \in Seq(Printable), NEW a \in 0 .. Len(x), NEW b \in a .. Len(x)
  PROVE  /\ SubSeq(x, a + 1, b) \in Seq(Printable) /\ Len(SubSeq(x, a + 1, b)) = b - a
         /\ \A i \in 1 .. b - a : SubSeq(x, a + 1, b)[i] = x[a + i]
<1>1. SubSeq(x, a + 1, b) \in Seq(Printable) /\ Len(SubSeq(x, a + 1, b)) = b - a
  OBVIOUS
<1>2. \A i \in 1 .. b - a : SubSeq(x, a + 1, b)[i] = x[a + i]
  OBVIOUS
<1>3. QED
  BY <1>1, <1>2

(* A text put in the place of a part of a line. *)
Splice(x, a, str, b) == SubSeq(x, 1, a) \o str \o SubSeq(x, b + 1, Len(x))

(* What is in it. *)
LEMMA Spliced ==
  ASSUME NEW x \in Seq(Printable), NEW str \in Seq(Printable),
         NEW a \in 0 .. Len(x), NEW b \in 0 .. Len(x)
  PROVE  /\ Splice(x, a, str, b) \in Seq(Printable)
         /\ Len(Splice(x, a, str, b)) = a + Len(str) + (Len(x) - b)
         /\ \A i \in 1 .. a : Splice(x, a, str, b)[i] = x[i]
         /\ \A i \in 1 .. Len(str) : Splice(x, a, str, b)[a + i] = str[i]
         /\ \A i \in 1 .. Len(x) - b : Splice(x, a, str, b)[a + Len(str) + i] = x[b + i]
<1> DEFINE l == SubSeq(x, 1, a)
           r == SubSeq(x, b + 1, Len(x))
           m == l \o str
           new == m \o r
<1>1. Len(x) \in Nat /\ Len(str) \in Nat
  OBVIOUS
<1>2. /\ l \in Seq(Printable) /\ Len(l) = a /\ \A i \in 1 .. a : l[i] = x[i]
  <2>1. l = SubSeq(x, 0 + 1, a) /\ 0 \in 0 .. Len(x) /\ a \in 0 .. Len(x) /\ a - 0 = a
    BY <1>1
  <2>2. \A i \in 1 .. a : 0 + i = i
    BY <1>1
  <2> HIDE DEF l
  <2>3. QED
    BY <2>1, <2>2, Part
<1>3. /\ r \in Seq(Printable) /\ Len(r) = Len(x) - b
      /\ \A i \in 1 .. Len(x) - b : r[i] = x[b + i]
  BY <1>1, Part
<1> HIDE DEF l, r
<1>4. /\ m \in Seq(Printable) /\ Len(m) = a + Len(str)
      /\ \A i \in 1 .. a : m[i] = l[i]
      /\ \A i \in 1 .. a + Len(str) : i > a => m[i] = str[i - a]
  BY <1>2, Joined
<1> HIDE DEF m
<1>5. /\ new \in Seq(Printable) /\ Len(new) = a + Len(str) + (Len(x) - b)
      /\ \A i \in 1 .. a + Len(str) : new[i] = m[i]
      /\ \A i \in 1 .. (a + Len(str)) + (Len(x) - b) :
           i > a + Len(str) => new[i] = r[i - (a + Len(str))]
  <2>1. /\ new \in Seq(Printable) /\ Len(new) = Len(m) + Len(r)
        /\ \A i \in 1 .. Len(m) : new[i] = m[i]
        /\ \A i \in 1 .. Len(m) + Len(r) : i > Len(m) => new[i] = r[i - Len(m)]
    BY <1>3, <1>4, Joined
  <2> HIDE DEF new
  <2>2. QED
    BY <1>3, <1>4, <2>1
<1> HIDE DEF new
<1>6. \A i \in 1 .. a : new[i] = x[i]
  BY <1>1, <1>2, <1>4, <1>5
<1>7. ASSUME NEW i \in 1 .. Len(str) PROVE new[a + i] = str[i]
  <2>1. a + i \in 1 .. a + Len(str) /\ a + i > a /\ (a + i) - a = i
    BY <1>1
  <2>2. QED
    BY <1>4, <1>5, <2>1
<1>8. ASSUME NEW i \in 1 .. Len(x) - b PROVE new[a + Len(str) + i] = x[b + i]
  <2>1. /\ a + Len(str) + i \in 1 .. (a + Len(str)) + (Len(x) - b)
        /\ a + Len(str) + i > a + Len(str) /\ (a + Len(str) + i) - (a + Len(str)) = i
    BY <1>1
  <2>2. new[a + Len(str) + i] = r[i]
    BY <1>5, <2>1
  <2>3. QED
    BY <1>3, <2>2
<1>9. new = Splice(x, a, str, b)
  BY DEF new, m, l, r, Splice
<1>10. QED
  BY <1>5, <1>6, <1>7, <1>8, <1>9

(* The redraw of an insertion, from the cursor to the end. *)
LEMMA InsertShown ==
  ASSUME NEW x \in Seq(Printable), NEW c \in 0 .. Len(x), NEW str \in Seq(Printable),
         NEW tty, Screen(tty, x, c), NEW new, new = Splice(x, c, str, c)
  PROVE  Screen(BackTo(Put(tty, SubSeq(new, c + 1, Len(new))), Len(new), c + Len(str)),
                new, c + Len(str))
<1> DEFINE drawn == SubSeq(new, c + 1, Len(new))
<1>1. Len(x) \in Nat /\ Len(str) \in Nat
  OBVIOUS
<1>2. /\ new \in Seq(Printable)
      /\ Len(new) = c + Len(str) + (Len(x) - c)
      /\ \A i \in 1 .. c : new[i] = x[i]
  BY <1>1, Spliced
<1>3. c \in 0 .. Len(new) /\ Len(new) \in c .. Len(new) /\ Len(x) <= Len(new) /\ Len(new) \in Nat
  BY <1>1, <1>2
<1>4. /\ drawn \in Seq(Printable) /\ Len(drawn) = Len(new) - c
      /\ \A i \in 1 .. Len(new) - c : drawn[i] = new[c + i]
  BY <1>2, <1>3, Part
<1> HIDE DEF drawn
<1>5. \A i \in Nat \ {0} : Cell(new, i) =
        IF i \in (c + 1) .. (c + Len(drawn)) THEN drawn[i - c] ELSE Cell(x, i)
  <2>1. SUFFICES ASSUME NEW i \in Nat \ {0}
                 PROVE  Cell(new, i) =
                   IF i \in (c + 1) .. (c + Len(drawn)) THEN drawn[i - c] ELSE Cell(x, i)
    OBVIOUS
  <2>2. CASE i \in (c + 1) .. (c + Len(drawn))
    <3>1. i - c \in 1 .. Len(new) - c /\ i \in 1 .. Len(new) /\ c + (i - c) = i
      BY <1>3, <1>4, <2>2
    <3>2. drawn[i - c] = new[c + (i - c)]
      BY <1>4, <3>1
    <3>3. QED
      BY <2>2, <3>1, <3>2 DEF Cell
  <2>3. CASE i <= c
    <3>1. i \in 1 .. c /\ i \in 1 .. Len(new) /\ i \in 1 .. Len(x)
             /\ i \notin (c + 1) .. (c + Len(drawn))
      BY <1>1, <1>3, <1>4, <2>3
    <3>2. QED
      BY <1>2, <3>1 DEF Cell
  <2>4. CASE i > c + Len(drawn)
    <3>1. i \notin 1 .. Len(new) /\ i \notin 1 .. Len(x) /\ i \notin (c + 1) .. (c + Len(drawn))
      BY <1>1, <1>3, <1>4, <2>4
    <3>2. QED
      BY <3>1 DEF Cell
  <2>5. QED
    BY <1>1, <1>3, <1>4, <2>2, <2>3, <2>4
<1>6. Screen(Put(tty, drawn), new, c + Len(drawn))
  <2>1. c \in Nat
    BY <1>1
  <2>2. QED
    BY <1>2, <1>4, <1>5, <2>1, PutScreen
<1> DEFINE y == BackTo(Put(tty, drawn), Len(new), c + Len(str))
           d == c + Len(drawn)
<1>7. d \in Nat /\ c + Len(str) \in Int /\ Len(new) \in Int
  BY <1>1, <1>3, <1>4
<1>8. (IF Len(new) <= c + Len(str) THEN d ELSE d - (Len(new) - (c + Len(str)))) = c + Len(str)
  BY <1>1, <1>2, <1>4
<1>9. Screen(y, new, IF Len(new) <= c + Len(str) THEN d ELSE d - (Len(new) - (c + Len(str))))
  <2>1. Screen(Put(tty, drawn), new, d)
    BY <1>6
  <2> HIDE DEF d
  <2>2. QED
    BY <1>7, <2>1, BackScreen
<1>10. QED
  BY <1>8, <1>9 DEF drawn

(* A sound line, by its parts. *)
LEMMA GoodParts ==
  ASSUME NEW s, Good(s)
  PROVE  /\ IsState(s) /\ s.sh.line \in Seq(Printable) /\ Len(s.sh.line) \in Nat
         /\ s.sh.cursor \in 0 .. Len(s.sh.line) /\ s.sh.cursor \in Nat
         /\ s.sh.size \in Nat /\ s.sh.size > 0 /\ Len(s.sh.line) < s.sh.size
         /\ s.sh.cut_buffer \in Seq(Printable) \cup {EMPTY}
         /\ s.failed = FALSE
         /\ Screen(s.tty, s.sh.line, s.sh.cursor)
BY DEF Good, LineGood

(* shell_insert() of a text keeps the line sound and shows it. *)
LEMMA InsertGood ==
  ASSUME NEW s, Good(s), NEW str \in Seq(Printable)
  PROVE  LET t == shell_insert(s, str)
         IN  /\ Good(t) /\ SameRest(t, s)
             /\ t.sh.line = Splice(s.sh.line, s.sh.cursor, str, s.sh.cursor)
<1> DEFINE t == shell_insert(s, str)
           x == s.sh.line
           c == s.sh.cursor
           new == Inserted(s, str)
<1>1. /\ x \in Seq(Printable) /\ Len(x) \in Nat /\ c \in 0 .. Len(x) /\ Len(str) \in Nat
      /\ s.sh.size \in Nat /\ s.sh.size > 0 /\ IsState(s)
      /\ s.sh.cut_buffer \in Seq(Printable) \cup {EMPTY} /\ s.failed = FALSE
      /\ Screen(s.tty, x, c)
  <2>1. Len(str) \in Nat
    OBVIOUS
  <2>2. QED
    BY <2>1, GoodParts, Zenon
<1>2. new = Splice(x, c, str, c)
  BY DEF Inserted, Splice
<1>3. /\ IsState(t) /\ SameRest(t, s)
      /\ t.sh.nul = (Len(new) < t.sh.size)
      /\ t.sh.line = new /\ t.sh.size = Expanded(s.sh.size, Len(new) + 1)
      /\ t.sh.cursor = c + Len(str) /\ t.sh.cut_buffer = s.sh.cut_buffer
      /\ t.tty = BackTo(Put(s.tty, SubSeq(new, c + 1, Len(new))), Len(new), c + Len(str))
      /\ t.failed = s.failed
  BY <1>1, InsertIs
<1> HIDE DEF t, new, x, c
<1>4. new \in Seq(Printable) /\ Len(new) = c + Len(str) + (Len(x) - c)
  BY <1>1, <1>2, Spliced
<1>5. Len(new) \in Nat /\ c + Len(str) \in 0 .. Len(new) /\ Len(new) + 1 \in Nat
  BY <1>1, <1>4
<1>6. t.sh.size \in Nat /\ t.sh.size >= Len(new) + 1
  BY <1>1, <1>3, <1>5, ExpandedFacts
<1>7. t.sh.nul = TRUE /\ Len(new) < t.sh.size
  <2>1. (Len(new) < t.sh.size) = TRUE
    BY <1>5, <1>6
  <2>2. QED
    BY <1>3, <2>1, Zenon
<1>8. LineGood(t)
  BY <1>1, <1>3, <1>4, <1>5, <1>6, <1>7 DEF LineGood
<1>9. Screen(t.tty, new, c + Len(str))
  BY <1>1, <1>2, <1>3, InsertShown
<1>10. QED
  BY <1>2, <1>3, <1>8, <1>9 DEF Good, t, x, c

(* The redraw of a deletion, from its start to the previous end. *)
LEMMA DeleteShown ==
  ASSUME NEW x \in Seq(Printable), NEW c \in Nat, NEW start \in 0 .. Len(x),
         NEW end \in start .. Len(x), start <= c,
         NEW tty, Screen(tty, x, c), NEW new, new = Splice(x, start, <<>>, end), NEW drawn,
         drawn = SubSeq(new, start + 1, Len(new)) \o [i \in 1 .. end - start |-> SPACE]
  PROVE  Screen(BackTo(Put(BackTo(tty, c, start), drawn), Len(x), start), new, start)
<1> DEFINE fill == [i \in 1 .. end - start |-> SPACE]
           moved == SubSeq(new, start + 1, Len(new))
           back == BackTo(tty, c, start)
<1>1. Len(x) \in Nat /\ <<>> \in Seq(Printable) /\ Len(<<>>) = 0 /\ end - start \in Nat
  OBVIOUS
<1>2. /\ new \in Seq(Printable)
      /\ Len(new) = start + (Len(x) - end)
      /\ \A i \in 1 .. start : new[i] = x[i]
  <2>1. \A e \in Seq(Printable) : Len(e) = 0 =>
          /\ Splice(x, start, e, end) \in Seq(Printable)
          /\ Len(Splice(x, start, e, end)) = start + (Len(x) - end)
          /\ \A i \in 1 .. start : Splice(x, start, e, end)[i] = x[i]
    <3>1. SUFFICES ASSUME NEW e \in Seq(Printable), Len(e) = 0
                   PROVE  /\ Splice(x, start, e, end) \in Seq(Printable)
                          /\ Len(Splice(x, start, e, end)) = start + (Len(x) - end)
                          /\ \A i \in 1 .. start : Splice(x, start, e, end)[i] = x[i]
      OBVIOUS
    <3>2. end \in 0 .. Len(x)
      BY <1>1
    <3>3. /\ Splice(x, start, e, end) \in Seq(Printable)
          /\ Len(Splice(x, start, e, end)) = start + Len(e) + (Len(x) - end)
          /\ \A i \in 1 .. start : Splice(x, start, e, end)[i] = x[i]
      BY <3>2, Spliced
    <3>4. start + Len(e) + (Len(x) - end) = start + (Len(x) - end)
      BY <1>1, <3>1
    <3>5. QED
      BY <3>3, <3>4
  <2>2. QED
    BY <1>1, <2>1
<1>3. /\ start \in 0 .. Len(new) /\ Len(new) \in start .. Len(new)
      /\ Len(new) <= Len(x) /\ Len(new) \in Nat
  BY <1>1, <1>2
<1>4. /\ fill \in Seq(Printable) /\ Len(fill) = end - start
      /\ \A i \in 1 .. end - start : fill[i] = SPACE
  BY <1>1, ShellAssumption
<1>5. /\ moved \in Seq(Printable) /\ Len(moved) = Len(new) - start
      /\ \A i \in 1 .. Len(new) - start : moved[i] = new[start + i]
  BY <1>2, <1>3, Part
<1>6. drawn = moved \o fill
  OBVIOUS
<1> HIDE DEF fill, moved
<1>7. /\ drawn \in Seq(Printable) /\ Len(drawn) = Len(moved) + Len(fill)
      /\ \A i \in 1 .. Len(moved) : drawn[i] = moved[i]
      /\ \A i \in 1 .. Len(moved) + Len(fill) : i > Len(moved) => drawn[i] = fill[i - Len(moved)]
  <2> DEFINE j == moved \o fill
  <2>1. /\ j \in Seq(Printable) /\ Len(j) = Len(moved) + Len(fill)
        /\ \A i \in 1 .. Len(moved) : j[i] = moved[i]
        /\ \A i \in 1 .. Len(moved) + Len(fill) : i > Len(moved) => j[i] = fill[i - Len(moved)]
    BY <1>4, <1>5, Joined
  <2>2. drawn = j
    BY <1>6
  <2> HIDE DEF j
  <2>3. QED
    BY <2>1, <2>2, Zenon
<1>8. Len(drawn) = Len(x) - start
  BY <1>1, <1>2, <1>4, <1>5, <1>7
<1>9. \A i \in 1 .. Len(new) - start : drawn[i] = new[start + i]
  BY <1>5, <1>7
<1>10. \A i \in 1 .. Len(drawn) : i > Len(new) - start => drawn[i] = SPACE
  <2>1. SUFFICES ASSUME NEW i \in 1 .. Len(drawn), i > Len(new) - start PROVE drawn[i] = SPACE
    OBVIOUS
  <2>2. i \in 1 .. Len(moved) + Len(fill) /\ i > Len(moved)
    BY <1>3, <1>5, <1>7, <2>1
  <2>3. i - Len(moved) \in 1 .. end - start
    BY <1>1, <1>3, <1>4, <1>5, <2>2
  <2>4. QED
    BY <1>4, <1>7, <2>2, <2>3
<1>11. Screen(back, x, start)
  <2>1. (IF c <= start THEN c ELSE c - (c - start)) = start
    BY <1>1
  <2>2. start \in Int /\ c \in Int
    BY <1>1
  <2>3. Screen(back, x, IF c <= start THEN c ELSE c - (c - start))
    BY <2>2, BackScreen
  <2>4. QED
    BY <2>1, <2>3
<1> HIDE DEF back
<1>12. \A i \in Nat \ {0} : Cell(new, i) =
        IF i \in (start + 1) .. (start + Len(drawn)) THEN drawn[i - start] ELSE Cell(x, i)
  <2>1. SUFFICES ASSUME NEW i \in Nat \ {0}
                 PROVE  Cell(new, i) =
                   IF i \in (start + 1) .. (start + Len(drawn)) THEN drawn[i - start]
                   ELSE Cell(x, i)
    OBVIOUS
  <2>2. CASE i > start /\ i <= Len(new)
    <3>1. /\ i - start \in 1 .. Len(new) - start /\ i \in 1 .. Len(new)
          /\ start + (i - start) = i /\ i \in (start + 1) .. (start + Len(drawn))
      BY <1>1, <1>3, <1>8, <2>2
    <3>2. drawn[i - start] = new[start + (i - start)]
      BY <1>9, <3>1
    <3>3. QED
      BY <3>1, <3>2 DEF Cell
  <2>3. CASE i > Len(new) /\ i <= Len(x)
    <3>1. /\ i - start \in 1 .. Len(drawn) /\ i - start > Len(new) - start
          /\ i \notin 1 .. Len(new) /\ i \in (start + 1) .. (start + Len(drawn))
      BY <1>1, <1>3, <1>8, <2>3
    <3>2. drawn[i - start] = SPACE
      BY <1>10, <3>1
    <3>3. QED
      BY <3>1, <3>2 DEF Cell
  <2>4. CASE i <= start
    <3>1. i \in 1 .. start /\ i \in 1 .. Len(new) /\ i \in 1 .. Len(x)
             /\ i \notin (start + 1) .. (start + Len(drawn))
      BY <1>1, <1>3, <1>8, <2>4
    <3>2. QED
      BY <1>2, <3>1 DEF Cell
  <2>5. CASE i > Len(x)
    <3>1. i \notin 1 .. Len(new) /\ i \notin 1 .. Len(x)
             /\ i \notin (start + 1) .. (start + Len(drawn))
      BY <1>1, <1>3, <1>8, <2>5
    <3>2. QED
      BY <3>1 DEF Cell
  <2>6. \/ i > start /\ i <= Len(new)
        \/ i > Len(new) /\ i <= Len(x)
        \/ i <= start
        \/ i > Len(x)
    BY <1>1, <1>3
  <2>7. QED
    BY <2>2, <2>3, <2>4, <2>5, <2>6
<1>13. Screen(Put(back, drawn), new, start + Len(drawn))
  <2>1. start \in Nat
    BY <1>1
  <2>2. QED
    BY <1>2, <1>7, <1>11, <1>12, <2>1, PutScreen
<1> DEFINE d == start + Len(drawn)
<1>14. (IF Len(x) <= start THEN d ELSE d - (Len(x) - start)) = start
  <2>1. d = Len(x) /\ start \in Nat /\ start <= Len(x)
    BY <1>1, <1>8
  <2> HIDE DEF d
  <2>2. QED
    BY <1>1, <2>1
<1>15. d \in Nat /\ Len(x) \in Int /\ start \in Int
  BY <1>1, <1>8
<1>16. Screen(BackTo(Put(back, drawn), Len(x), start), new,
              IF Len(x) <= start THEN d ELSE d - (Len(x) - start))
  <2> HIDE DEF d
  <2>1. Screen(Put(back, drawn), new, d)
    BY <1>13 DEF d
  <2>2. QED
    BY <1>15, <2>1, BackScreen
<1>17. QED
  BY <1>14, <1>16 DEF back

(* shell_delete_string() of a part of the line. *)
LEMMA DeleteGood ==
  ASSUME NEW s, Good(s), NEW start \in Nat, NEW end \in Nat,
         start <= end, end <= Len(s.sh.line), start <= s.sh.cursor
  PROVE  LET t == shell_delete_string(s, start, end)
         IN  /\ Good(t) /\ SameRest(t, s)
             /\ t.sh.cursor = start /\ t.sh.line = Splice(s.sh.line, start, <<>>, end)
             /\ t.sh.cut_buffer = s.sh.cut_buffer
<1> DEFINE t == shell_delete_string(s, start, end)
           x == s.sh.line
           c == s.sh.cursor
           new == Deleted(s, start, end)
           drawn == Drawn(new, start, end)
<1>1. /\ x \in Seq(Printable) /\ Len(x) \in Nat /\ c \in 0 .. Len(x) /\ c \in Nat
      /\ s.sh.size \in Nat /\ Len(x) < s.sh.size /\ IsState(s)
      /\ s.sh.cut_buffer \in Seq(Printable) \cup {EMPTY} /\ s.failed = FALSE
      /\ Screen(s.tty, x, c)
  BY GoodParts, Zenon
<1>2. new = Splice(x, start, <<>>, end)
  <2>1. start \in 0 .. Len(x) /\ start - 0 = start
    BY <1>1
  <2> HIDE DEF x
  <2>2. SubSeq(x, 1, start) \in Seq(Printable)
    BY <1>1, <2>1
  <2>3. \A e \in Seq(Printable) : e \o <<>> = e
    OBVIOUS
  <2>4. SubSeq(x, 1, start) \o <<>> = SubSeq(x, 1, start)
    BY <2>2, <2>3
  <2>5. QED
    BY <2>4, Zenon DEF Splice, Deleted, x
<1>3. /\ IsState(t) /\ SameRest(t, s)
      /\ t.sh.nul = (Len(new) < s.sh.size)
      /\ t.sh.line = new /\ t.sh.size = s.sh.size
      /\ t.sh.cursor = start /\ t.sh.cut_buffer = s.sh.cut_buffer
      /\ t.tty = BackTo(Put(BackTo(s.tty, c, start), drawn), Len(x), start)
      /\ t.failed = s.failed
  <2>1. 0 <= start /\ start <= end /\ end <= Len(s.sh.line)
    OBVIOUS
  <2>2. QED
    BY <1>1, <2>1, DeleteIs
<1>4. start <= c /\ end <= Len(x)
  OBVIOUS
<1> HIDE DEF t, new, x, c
<1>5. start \in 0 .. Len(x) /\ end \in start .. Len(x) /\ end \in 0 .. Len(x)
  BY <1>1, <1>4
<1>6. new \in Seq(Printable) /\ Len(new) = start + (Len(x) - end)
  <2>1. ASSUME NEW e \in Seq(Printable), Len(e) = 0, new = Splice(x, start, e, end)
        PROVE  new \in Seq(Printable) /\ Len(new) = start + (Len(x) - end)
    <3>1. new \in Seq(Printable) /\ Len(new) = start + Len(e) + (Len(x) - end)
      BY <1>1, <1>5, <2>1, Spliced
    <3>2. QED
      BY <1>1, <2>1, <3>1
  <2>2. <<>> \in Seq(Printable) /\ Len(<<>>) = 0
    OBVIOUS
  <2>3. QED
    BY <1>2, <2>1, <2>2
<1>7. Len(new) \in Nat /\ start \in 0 .. Len(new) /\ Len(new) < s.sh.size
  BY <1>1, <1>5, <1>6
<1>8. t.sh.nul = TRUE
  <2>1. (Len(new) < s.sh.size) = TRUE
    BY <1>7
  <2>2. QED
    BY <1>3, <2>1, Zenon
<1>9. LineGood(t)
  BY <1>1, <1>3, <1>6, <1>7, <1>8 DEF LineGood
<1>10. Screen(BackTo(Put(BackTo(s.tty, c, start), drawn), Len(x), start), new, start)
  BY <1>1, <1>2, <1>4, <1>5, DeleteShown DEF Drawn
<1>11. Screen(t.tty, new, start)
  BY <1>3, <1>10, Zenon
<1>12. QED
  BY <1>2, <1>3, <1>9, <1>11 DEF Good, t, x

(* The cut buffer is no part of the line. *)
LEMMA HoldingGood ==
  ASSUME NEW s, Good(s), NEW b \in Seq(Printable) \cup {EMPTY}
  PROVE  Good(Holding(s, b)) /\ SameRest(Holding(s, b), s)
<1> DEFINE t == Holding(s, b)
<1>1. IsState(s) /\ LineGood(s)
  BY DEF Good, LineGood
<1>2. /\ IsState(t) /\ SameRest(t, s)
      /\ t.sh.nul = s.sh.nul /\ t.sh.line = s.sh.line /\ t.sh.size = s.sh.size
      /\ t.sh.cursor = s.sh.cursor /\ t.sh.cut_buffer = b
      /\ t.tty = s.tty /\ t.failed = s.failed
  BY <1>1, HoldingIs
<1> HIDE DEF t
<1>3. LineGood(t)
  BY <1>1, <1>2 DEF LineGood
<1>4. Screen(t.tty, t.sh.line, t.sh.cursor)
  BY <1>2 DEF Good
<1>5. QED
  BY <1>2, <1>3, <1>4 DEF Good, t

(* shell_cut() deletes and keeps what it deletes. *)
LEMMA CutGood ==
  ASSUME NEW s, Good(s), NEW start \in Nat, NEW end \in Nat,
         start <= end, end <= Len(s.sh.line), start <= s.sh.cursor
  PROVE  LET t == shell_cut(s, start, end)
         IN  /\ Good(t) /\ SameRest(t, s)
             /\ start = end => t.sh.cut_buffer = EMPTY
             /\ start # end =>
                  /\ t.sh.cursor = start /\ t.sh.line = Splice(s.sh.line, start, <<>>, end)
                  /\ t.sh.cut_buffer = SubSeq(s.sh.line, start + 1, end)
<1> DEFINE b == SubSeq(s.sh.line, start + 1, end)
           r == Holding(s, b)
<1>1. /\ s.sh.line \in Seq(Printable) /\ Len(s.sh.line) \in Nat /\ IsState(s)
  BY GoodParts
<1>2. b \in Seq(Printable)
  <2>1. start \in 0 .. Len(s.sh.line) /\ end \in start .. Len(s.sh.line)
    BY <1>1
  <2>2. QED
    BY <1>1, <2>1, Part
<1>3. CASE start = end
  <2>1. shell_cut(s, start, end) = Holding(s, EMPTY)
    BY <1>3 DEF shell_cut, Holding
  <2>2. Good(Holding(s, EMPTY)) /\ SameRest(Holding(s, EMPTY), s)
    BY HoldingGood
  <2>3. Holding(s, EMPTY).sh.cut_buffer = EMPTY
    BY <1>1, HoldingIs
  <2>4. QED
    BY <1>3, <2>1, <2>2, <2>3
<1>4. CASE start # end
  <2>1. shell_cut(s, start, end) = shell_delete_string(r, start, end)
    BY <1>4 DEF shell_cut, Holding
  <2> HIDE DEF b
  <2>2. Good(r) /\ SameRest(r, s)
    BY <1>2, HoldingGood
  <2>3. r.sh.line = s.sh.line /\ r.sh.cursor = s.sh.cursor /\ r.sh.cut_buffer = b
    BY <1>1, HoldingIs
  <2> HIDE DEF r
  <2> DEFINE t == shell_delete_string(r, start, end)
  <2>4. /\ Good(t) /\ SameRest(t, r)
        /\ t.sh.cursor = start /\ t.sh.line = Splice(r.sh.line, start, <<>>, end)
        /\ t.sh.cut_buffer = r.sh.cut_buffer
    <3>1. end <= Len(r.sh.line) /\ start <= r.sh.cursor
      BY <2>3
    <3>2. QED
      BY <2>2, <3>1, DeleteGood
  <2> HIDE DEF t
  <2>5. SameRest(t, s)
    BY <2>2, <2>4 DEF SameRest
  <2>6. QED
    BY <1>4, <2>1, <2>3, <2>4, <2>5 DEF t, b
<1>5. QED
  BY <1>3, <1>4

(* Motion within the line: the line stays, the screen follows the cursor. *)
LEMMA ForwardGood ==
  ASSUME NEW s, Good(s), NEW num \in Nat
  PROVE  LET t == shell_forward(s, num)
         IN  /\ Good(t) /\ SameRest(t, s)
             /\ t.sh.line = s.sh.line /\ t.sh.cut_buffer = s.sh.cut_buffer
             /\ s.sh.cursor + num <= Len(s.sh.line) => t.sh.cursor = s.sh.cursor + num
<1> DEFINE t == shell_forward(s, num)
           x == s.sh.line
           c == s.sh.cursor
           drawn == SubSeq(x, c + 1, c + num)
<1>1. /\ x \in Seq(Printable) /\ Len(x) \in Nat /\ c \in 0 .. Len(x) /\ c \in Nat
      /\ s.sh.size \in Nat /\ Len(x) < s.sh.size /\ IsState(s)
      /\ s.sh.cut_buffer \in Seq(Printable) \cup {EMPTY} /\ s.failed = FALSE
      /\ Screen(s.tty, x, c) /\ s.sh.nul = TRUE
  <2>1. s.sh.nul = TRUE
    BY DEF Good, LineGood
  <2>2. QED
    BY <2>1, GoodParts, Zenon
<1>2. CASE c + num > Len(x)
  <2>1. t = s
    BY <1>2 DEF shell_forward
  <2>2. ~ c + num <= Len(x)
    BY <1>1, <1>2
  <2>3. QED
    BY <2>1, <2>2 DEF SameRest
<1>3. CASE ~ c + num > Len(x)
  <2>1. /\ IsState(t) /\ SameRest(t, s)
        /\ t.sh.nul = s.sh.nul /\ t.sh.line = x /\ t.sh.size = s.sh.size
        /\ t.sh.cursor = c + num /\ t.sh.cut_buffer = s.sh.cut_buffer
        /\ t.tty = Put(s.tty, drawn) /\ t.failed = s.failed
    BY <1>1, <1>3, ForwardIs
  <2> HIDE DEF t, x, c
  <2>2. c + num \in 0 .. Len(x) /\ c + num \in c .. Len(x) /\ (c + num) - c = num
    BY <1>1, <1>3
  <2>3. drawn \in Seq(Printable) /\ Len(drawn) = num /\ \A i \in 1 .. num : drawn[i] = x[c + i]
    BY <1>1, <2>2, Part
  <2> HIDE DEF drawn
  <2>4. \A i \in Nat \ {0} : Cell(x, i) =
          IF i \in (c + 1) .. (c + Len(drawn)) THEN drawn[i - c] ELSE Cell(x, i)
    <3>1. SUFFICES ASSUME NEW i \in (c + 1) .. (c + num) PROVE Cell(x, i) = drawn[i - c]
      BY <2>3
    <3>2. i - c \in 1 .. num /\ c + (i - c) = i /\ i \in 1 .. Len(x)
      BY <1>1, <2>2
    <3>3. drawn[i - c] = x[c + (i - c)]
      BY <2>3, <3>2
    <3>4. QED
      BY <3>2, <3>3 DEF Cell
  <2>5. Screen(Put(s.tty, drawn), x, c + Len(drawn))
    BY <1>1, <2>3, <2>4, PutScreen
  <2>6. Screen(t.tty, t.sh.line, t.sh.cursor)
    BY <2>1, <2>3, <2>5
  <2>7. LineGood(t)
    BY <1>1, <2>1, <2>2 DEF LineGood
  <2>8. QED
    BY <2>1, <2>6, <2>7 DEF Good, t, x, c
<1>4. QED
  BY <1>2, <1>3

(* Motion back. *)
LEMMA BackwardGood ==
  ASSUME NEW s, Good(s), NEW num \in Nat
  PROVE  LET t == shell_backward(s, num)
         IN  /\ Good(t) /\ SameRest(t, s)
             /\ t.sh.line = s.sh.line /\ t.sh.cut_buffer = s.sh.cut_buffer
             /\ num <= s.sh.cursor => t.sh.cursor = s.sh.cursor - num
<1> DEFINE t == shell_backward(s, num)
           x == s.sh.line
           c == s.sh.cursor
<1>1. /\ x \in Seq(Printable) /\ Len(x) \in Nat /\ c \in 0 .. Len(x) /\ c \in Nat
      /\ s.sh.size \in Nat /\ Len(x) < s.sh.size /\ IsState(s)
      /\ s.sh.cut_buffer \in Seq(Printable) \cup {EMPTY} /\ s.failed = FALSE
      /\ Screen(s.tty, x, c) /\ s.sh.nul = TRUE
  <2>1. s.sh.nul = TRUE
    BY DEF Good, LineGood
  <2>2. QED
    BY <2>1, GoodParts, Zenon
<1>2. CASE c - num < 0
  <2>1. t = s
    BY <1>2 DEF shell_backward
  <2>2. ~ num <= c
    BY <1>1, <1>2
  <2>3. QED
    BY <2>1, <2>2 DEF SameRest
<1>3. CASE ~ c - num < 0
  <2>1. /\ IsState(t) /\ SameRest(t, s)
        /\ t.sh.nul = s.sh.nul /\ t.sh.line = x /\ t.sh.size = s.sh.size
        /\ t.sh.cursor = c - num /\ t.sh.cut_buffer = s.sh.cut_buffer
        /\ t.tty = BackTo(s.tty, num, 0) /\ t.failed = s.failed
    BY <1>1, <1>3, BackwardIs
  <2> HIDE DEF t, x, c
  <2>2. c - num \in 0 .. Len(x)
    BY <1>1, <1>3
  <2>3. (IF num <= 0 THEN c ELSE c - (num - 0)) = c - num
    BY <1>1
  <2>4. Screen(BackTo(s.tty, num, 0), x, IF num <= 0 THEN c ELSE c - (num - 0))
    BY <1>1, BackScreen
  <2>5. Screen(t.tty, t.sh.line, t.sh.cursor)
    BY <2>1, <2>3, <2>4
  <2>6. LineGood(t)
    BY <1>1, <2>1, <2>2 DEF LineGood
  <2>7. QED
    BY <2>1, <2>5, <2>6 DEF Good, t, x, c
<1>4. QED
  BY <1>2, <1>3

(* Motion to a place in the line. *)
LEMMA MovetoGood ==
  ASSUME NEW s, Good(s), NEW index \in 0 .. Len(s.sh.line)
  PROVE  LET t == shell_moveto(s, index)
         IN  /\ Good(t) /\ SameRest(t, s)
             /\ t.sh.line = s.sh.line /\ t.sh.cut_buffer = s.sh.cut_buffer
             /\ t.sh.cursor = index
<1>1. Len(s.sh.line) \in Nat /\ s.sh.cursor \in 0 .. Len(s.sh.line) /\ s.sh.cursor \in Nat
  BY GoodParts
<1>2. CASE s.sh.cursor < index
  <2>1. shell_moveto(s, index) = shell_forward(s, index - s.sh.cursor)
    BY <1>2 DEF shell_moveto
  <2>2. /\ index - s.sh.cursor \in Nat
        /\ s.sh.cursor + (index - s.sh.cursor) <= Len(s.sh.line)
        /\ s.sh.cursor + (index - s.sh.cursor) = index
    BY <1>1, <1>2
  <2>3. QED
    BY <2>1, <2>2, ForwardGood
<1>3. CASE ~ s.sh.cursor < index
  <2>1. shell_moveto(s, index) = shell_backward(s, s.sh.cursor - index)
    BY <1>3 DEF shell_moveto
  <2>2. /\ s.sh.cursor - index \in Nat /\ s.sh.cursor - index <= s.sh.cursor
        /\ s.sh.cursor - (s.sh.cursor - index) = index
    BY <1>1, <1>3
  <2>3. QED
    BY <2>1, <2>2, BackwardGood
<1>4. QED
  BY <1>2, <1>3

(* shell_refresh() of a sound line puts it on an empty screen too. *)
LEMMA RefreshGood ==
  ASSUME NEW s, LineGood(s), Screen(s.tty, s.sh.line, s.sh.cursor) \/ s.tty = Blank
  PROVE  LET t == shell_refresh(s)
         IN  Good(t) /\ SameRest(t, s) /\ t.sh = s.sh
<1> DEFINE t == shell_refresh(s)
<1>1. IsState(s) /\ s.sh.line \in Seq(Printable) /\ s.sh.cursor \in 0 .. Len(s.sh.line)
  BY DEF LineGood
<1>2. /\ IsState(t) /\ t.sh = s.sh /\ t.failed = s.failed
      /\ t.tty = BackTo(Put(shell_prompt(s.tty), s.sh.line), Len(s.sh.line), s.sh.cursor)
  BY <1>1, RefreshIs
<1> HIDE DEF t
<1>3. LineGood(t)
  BY <1>2 DEF LineGood
<1>4. Screen(t.tty, t.sh.line, t.sh.cursor)
  BY <1>1, <1>2, RefreshScreen
<1>5. QED
  BY <1>2, <1>3, <1>4 DEF Good, SameRest, t

-----------------------------------------------------------------------------
(* What shell_format() has copied after each character is a text, never     *)
(* longer than what it has read, and never gets shorter.                    *)
LEMMA CopiedFacts ==
  ASSUME NEW x \in Seq(Printable)
  PROVE  /\ \A i \in 0 .. Len(x) : Copied(x)[i] \in Seq(Printable) /\ Len(Copied(x)[i]) <= i
         /\ \A i \in 0 .. Len(x) : Len(Copied(x)[i]) <= Len(Copied(x)[Len(x)])
<1> DEFINE n == Len(x)
           V == Seq(Printable)
           Keep(i) == x[i] # SPACE \/ (i > 1 /\ x[i - 1] # SPACE)
           One(k, v) == IF Keep(k) THEN Append(v, x[k]) ELSE v
           step == [k \in 1 .. n |-> [v \in V |-> One(k, v)]]
           Def(f) == f = [i \in 0 .. n |-> IF i = 0 THEN <<>> ELSE
                            IF Keep(i) THEN Append(f[i - 1], x[i]) ELSE f[i - 1]]
           d == Copied(x)
<1>1. n \in Nat /\ <<>> \in V /\ Len(<<>>) = 0
  OBVIOUS
<1>2. ASSUME NEW k \in 1 .. n, NEW v \in V
      PROVE  One(k, v) \in V /\ Len(v) <= Len(One(k, v)) /\ Len(One(k, v)) <= Len(v) + 1
  <2>1. x[k] \in Printable
    OBVIOUS
  <2>2. Append(v, x[k]) \in V /\ Len(Append(v, x[k])) = Len(v) + 1 /\ Len(v) \in Nat
    BY <2>1
  <2> HIDE DEF Keep
  <2>3. QED
    BY <2>2
<1> HIDE DEF n, V, One
<1>3. Recursive(n, V, step)
  BY <1>2 DEF Recursive
<1>4. Solved(n, V, <<>>, step)
  <2> HIDE DEF step
  <2>1. QED
    BY <1>1, <1>3, Recursion
<1>5. PICK f \in [0 .. n -> V] : f[0] = <<>> /\ \A k \in 1 .. n : f[k] = step[k][f[k - 1]]
  BY <1>4 DEF Solved
<1>6. ASSUME NEW k \in 1 .. n PROVE f[k] = One(k, f[k - 1])
  <2>1. f[k - 1] \in V
    BY <1>1
  <2>2. \A v \in V : step[k][v] = One(k, v)
    OBVIOUS
  <2> HIDE DEF step
  <2>3. f[k] = step[k][f[k - 1]]
    BY <1>5
  <2>4. QED
    BY <2>1, <2>2, <2>3
<1> HIDE DEF step
<1>7. Def(f)
  <2>1. f = [i \in 0 .. n |-> f[i]]
    OBVIOUS
  <2>2. ASSUME NEW i \in 0 .. n
        PROVE  f[i] = IF i = 0 THEN <<>> ELSE
                        IF Keep(i) THEN Append(f[i - 1], x[i]) ELSE f[i - 1]
    <3>1. CASE i = 0
      BY <1>5, <3>1
    <3>2. CASE i # 0
      <4>1. i \in 1 .. n
        BY <1>1, <3>2
      <4>2. f[i] = One(i, f[i - 1])
        BY <1>6, <4>1
      <4>3. QED
        BY <3>2, <4>2, Zenon DEF One
    <3>3. QED
      BY <3>1, <3>2
  <2> HIDE DEF Keep
  <2>3. QED
    BY <2>1, <2>2
<1>8. d = CHOOSE g : Def(g)
  BY DEF Copied, n
<1>9. Def(d)
  <2> HIDE DEF Def, d
  <2>1. QED
    BY <1>7, <1>8
<1> HIDE DEF d
<1>10. d[0] = <<>> /\ \A k \in 1 .. n : d[k] = One(k, d[k - 1])
  <2> HIDE DEF Keep
  <2>1. \A i \in 0 .. n : d[i] = IF i = 0 THEN <<>> ELSE
                        IF Keep(i) THEN Append(d[i - 1], x[i]) ELSE d[i - 1]
    BY <1>9
  <2>2. d[0] = <<>>
    BY <1>1, <2>1
  <2>3. ASSUME NEW k \in 1 .. n PROVE d[k] = One(k, d[k - 1])
    <3>1. k \in 0 .. n /\ k # 0
      BY <1>1
    <3>2. QED
      BY <2>1, <3>1, Zenon DEF One
  <2>4. QED
    BY <2>2, <2>3
<1> HIDE DEF Keep, Def
<1> DEFINE Below(k) == \A i \in 0 .. k : Len(d[i]) \in Nat /\ Len(d[i]) <= Len(d[k])
           P == {k \in Nat : k <= n => d[k] \in V /\ Len(d[k]) <= k /\ Below(k)}
<1>11. 0 \in P
  <2>1. d[0] \in V /\ Len(d[0]) = 0
    BY <1>1, <1>10
  <2>2. \A i \in 0 .. 0 : i = 0
    OBVIOUS
  <2>3. QED
    BY <2>1, <2>2
<1>12. ASSUME NEW k \in Nat, k \in P PROVE k + 1 \in P
  <2>1. SUFFICES ASSUME k + 1 <= n
                 PROVE  d[k + 1] \in V /\ Len(d[k + 1]) <= k + 1 /\ Below(k + 1)
    OBVIOUS
  <2>2. d[k] \in V /\ Len(d[k]) <= k /\ Below(k)
    <3> HIDE DEF Below
    <3>1. k <= n
      BY <1>1, <2>1
    <3>2. QED
      BY <1>12, <3>1
  <2>3. k + 1 \in 1 .. n /\ (k + 1) - 1 = k
    BY <1>1, <2>1
  <2>4. d[k + 1] = One(k + 1, d[k])
    BY <1>10, <2>3
  <2>5. /\ d[k + 1] \in V /\ Len(d[k]) <= Len(d[k + 1]) /\ Len(d[k + 1]) <= Len(d[k]) + 1
    BY <1>2, <2>2, <2>3, <2>4
  <2>6. Len(d[k]) \in Nat /\ Len(d[k + 1]) \in Nat
    BY <2>2, <2>5 DEF V
  <2>7. Len(d[k + 1]) <= k + 1
    BY <2>2, <2>5, <2>6
  <2>8. ASSUME NEW i \in 0 .. k + 1
        PROVE  Len(d[i]) \in Nat /\ Len(d[i]) <= Len(d[k + 1])
    <3>1. CASE i = k + 1
      BY <2>6, <3>1
    <3>2. CASE i # k + 1
      <4>1. i \in 0 .. k
        BY <3>2
      <4>2. Len(d[i]) \in Nat /\ Len(d[i]) <= Len(d[k])
        BY <2>2, <4>1
      <4>3. QED
        BY <2>5, <2>6, <4>2
    <3>3. QED
      BY <3>1, <3>2
  <2>9. QED
    BY <2>5, <2>7, <2>8
<1>13. \A k \in Nat : k \in P
  <2> HIDE DEF P
  <2>1. QED
    BY <1>11, <1>12, AllNumbers
<1>14. ASSUME NEW i \in 0 .. n PROVE d[i] \in V /\ Len(d[i]) <= i
  <2>1. i \in P /\ i <= n
    BY <1>1, <1>13
  <2> HIDE DEF Below
  <2>2. QED
    BY <2>1
<1>15. Below(n)
  <2>1. n \in P
    BY <1>1, <1>13
  <2> HIDE DEF Below
  <2>2. QED
    BY <1>1, <2>1
<1>16. QED
  BY <1>14, <1>15 DEF d, n, V

(* shell_format() keeps the line sound. *)
LEMMA FormatGood ==
  ASSUME NEW s, LineGood(s)
  PROVE  LET t == shell_format(s)
         IN  LineGood(t) /\ SameRest(t, s)
<1> DEFINE t == shell_format(s)
           x == s.sh.line
           new == Copied(x)[Len(x)]
           cur == Len(Copied(x)[s.sh.cursor])
<1>1. /\ IsState(s) /\ x \in Seq(Printable) /\ s.sh.cursor \in 0 .. Len(x)
      /\ s.sh.size \in Nat /\ Len(x) < s.sh.size /\ Len(x) \in Nat
      /\ s.sh.cut_buffer \in Seq(Printable) \cup {EMPTY} /\ s.failed = FALSE
  BY DEF LineGood
<1>2. /\ IsState(t) /\ SameRest(t, s)
      /\ t.sh.nul = (Len(new) < s.sh.size)
      /\ t.sh.line = new /\ t.sh.size = s.sh.size
      /\ t.sh.cursor = cur
      /\ t.sh.cut_buffer = s.sh.cut_buffer /\ t.failed = s.failed
  BY <1>1, FormatIs
<1> HIDE DEF t, x
<1>3. new \in Seq(Printable) /\ Len(new) <= Len(x) /\ cur <= Len(new) /\ cur \in Nat
  <2>1. Len(x) \in 0 .. Len(x)
    BY <1>1
  <2>2. new \in Seq(Printable) /\ Len(new) <= Len(x)
    BY <1>1, <2>1, CopiedFacts
  <2>3. Copied(x)[s.sh.cursor] \in Seq(Printable) /\ cur <= Len(new)
    BY <1>1, CopiedFacts
  <2>4. QED
    BY <2>2, <2>3
<1> HIDE DEF new, cur
<1>4. Len(new) \in Nat /\ cur \in 0 .. Len(new) /\ Len(new) < s.sh.size
  BY <1>1, <1>3
<1>5. t.sh.nul = TRUE
  <2>1. (Len(new) < s.sh.size) = TRUE
    BY <1>4
  <2>2. QED
    BY <1>2, <2>1, Zenon
<1>6. LineGood(t)
  BY <1>1, <1>2, <1>3, <1>4, <1>5 DEF LineGood
<1>7. QED
  BY <1>2, <1>6 DEF t

-----------------------------------------------------------------------------
(* The greatest and the least of a set, by what they are. *)
LEMMA MaxIs ==
  ASSUME NEW n \in Nat, NEW S, S \subseteq 0 .. n, NEW m \in S, \A y \in S : y <= m
  PROVE  Max(S) = m
<1> DEFINE k == Max(S)
<1>1. k \in S /\ \A y \in S : y <= k
  BY MaxFacts
<1> HIDE DEF k
<1>2. k <= m /\ m <= k
  BY <1>1, Zenon
<1>3. k \in Int /\ m \in Int
  BY <1>1
<1>4. QED
  BY <1>2, <1>3 DEF k

(* And the least. *)
LEMMA MinIs ==
  ASSUME NEW S, S \subseteq Nat, NEW m \in S, \A y \in S : m <= y
  PROVE  Min(S) = m
<1> DEFINE k == Min(S)
<1>1. k \in S /\ \A y \in S : k <= y
  BY MinFacts
<1> HIDE DEF k
<1>2. k <= m /\ m <= k
  BY <1>1, Zenon
<1>3. k \in Int /\ m \in Int
  BY <1>1
<1>4. QED
  BY <1>2, <1>3 DEF k

(* A token ends before the next delimiter, or with the line. *)
LEMMA TokenFacts ==
  ASSUME NEW x \in Seq(Printable), NEW D, NEW o \in 0 .. Len(x)
  PROVE  LET end == o + Token(x, D, o)
         IN  /\ Token(x, D, o) \in Nat /\ end \in o .. Len(x)
             /\ \A i \in (o + 1) .. end : x[i] \notin D
             /\ end < Len(x) => x[end + 1] \in D
<1> DEFINE stops == {i \in (o + 1) .. Len(x) : x[i] \in D}
           k == Token(x, D, o)
<1>1. Len(x) \in Nat /\ stops \subseteq Nat
  OBVIOUS
<1>2. k = IF stops = {} THEN Len(x) - o ELSE Min(stops) - 1 - o
  BY DEF Token
<1>3. CASE stops = {}
  <2>1. \A i \in (o + 1) .. Len(x) : x[i] \notin D
    BY <1>3
  <2>2. k = Len(x) - o
    BY <1>2, <1>3
  <2> HIDE DEF k, stops
  <2>3. k \in Nat /\ o + k = Len(x)
    BY <1>1, <2>2
  <2>4. QED
    BY <1>1, <2>1, <2>3 DEF k
<1>4. CASE stops # {}
  <2> DEFINE m == Min(stops)
  <2>1. m \in stops /\ \A i \in stops : m <= i
    <3> HIDE DEF stops
    <3>1. QED
      BY <1>1, <1>4, MinFacts
  <2>2. k = m - 1 - o
    BY <1>2, <1>4
  <2>3. m \in (o + 1) .. Len(x) /\ x[m] \in D
    BY <2>1
  <2>4. \A i \in (o + 1) .. Len(x) : x[i] \in D => m <= i
    BY <2>1
  <2> HIDE DEF k, stops, m
  <2>5. k \in Nat /\ (o + k) + 1 = m /\ o + k \in o .. Len(x)
    BY <1>1, <2>2, <2>3
  <2>6. ASSUME NEW i \in (o + 1) .. (o + k) PROVE x[i] \notin D
    <3>1. i \in (o + 1) .. Len(x) /\ ~ m <= i
      BY <1>1, <2>3, <2>5
    <3>2. QED
      BY <2>4, <3>1
  <2>7. QED
    BY <2>3, <2>5, <2>6 DEF k
<1>5. QED
  BY <1>3, <1>4

(* The words strsep() finds begin where a word begins. *)
LEMMA WordsAre ==
  ASSUME NEW x \in Seq(Printable), NEW D
  PROVE  Words(x, D) = WordStarts(x, D)
<1>1. Len(x) \in Nat /\ DOMAIN x = 1 .. Len(x)
  OBVIOUS
<1>2. ASSUME NEW o \in 0 .. Len(x)
      PROVE  Token(x, D, o) # 0 <=> o < Len(x) /\ x[o + 1] \notin D
  <2> DEFINE end == o + Token(x, D, o)
  <2>1. /\ Token(x, D, o) \in Nat /\ end \in o .. Len(x)
        /\ \A i \in (o + 1) .. end : x[i] \notin D
        /\ end < Len(x) => x[end + 1] \in D
    BY TokenFacts
  <2>2. CASE Token(x, D, o) = 0
    <3>1. end = o
      BY <2>2
    <3>2. QED
      BY <1>1, <2>1, <2>2, <3>1
  <2>3. CASE Token(x, D, o) # 0
    <3>1. o + 1 \in (o + 1) .. end /\ o < Len(x)
      BY <1>1, <2>1, <2>3
    <3>2. QED
      BY <2>1, <2>3, <3>1
  <2>4. QED
    BY <2>2, <2>3
<1>3. ASSUME NEW o \in Words(x, D) PROVE o \in WordStarts(x, D)
  <2>1. (o = 0 \/ (o \in 1 .. Len(x) /\ x[o] \in D)) /\ Token(x, D, o) # 0
    BY <1>1 DEF Words, Offsets
  <2>2. o \in 0 .. Len(x)
    BY <1>1, <2>1
  <2>3. o < Len(x) /\ x[o + 1] \notin D
    BY <1>2, <2>1, <2>2
  <2>4. o \in 0 .. Len(x) - 1
    BY <1>1, <2>2, <2>3
  <2>5. QED
    BY <2>1, <2>3, <2>4 DEF WordStarts
<1>4. ASSUME NEW o \in WordStarts(x, D) PROVE o \in Words(x, D)
  <2>1. o \in 0 .. Len(x) - 1 /\ x[o + 1] \notin D /\ (o = 0 \/ x[o] \in D)
    BY DEF WordStarts
  <2>2. o \in 0 .. Len(x) /\ o < Len(x) /\ (o # 0 => o \in 1 .. Len(x))
    BY <1>1, <2>1
  <2>3. Token(x, D, o) # 0
    BY <1>2, <2>1, <2>2
  <2>4. QED
    BY <1>1, <2>1, <2>2, <2>3 DEF Words, Offsets
<1>5. QED
  BY <1>3, <1>4

(* A word begins within the line, at its begin or after a delimiter. *)
LEMMA WordBounds ==
  ASSUME NEW x \in Seq(Printable), NEW D, NEW o \in Words(x, D)
  PROVE  /\ o \in 0 .. Len(x) /\ o < Len(x)
         /\ o # 0 => x[o] \in D
BY WordsAre DEF WordStarts

(* The last word that begins at the point or before. *)
LEMMA SeekFacts ==
  ASSUME NEW x \in Seq(Printable), NEW D, NEW p \in 0 .. Len(x)
  PROVE  LET w == Seek(x, D, p)
         IN  /\ w \in 0 .. p
             /\ w = 0 \/ w \in Words(x, D)
             /\ \A o \in Words(x, D) : o <= p => o <= w
<1> DEFINE S == {0} \cup {o \in Words(x, D) : o <= p}
           w == Seek(x, D, p)
<1>1. Len(x) \in Nat /\ p \in Nat
  OBVIOUS
<1>2. S \subseteq 0 .. p /\ S # {}
  BY <1>1, WordBounds
<1>3. w = Max(S)
  BY DEF Seek
<1>4. w \in S /\ \A o \in S : o <= w
  <2> HIDE DEF S, w
  <2>1. QED
    BY <1>1, <1>2, <1>3, MaxFacts
<1>5. \A o \in Words(x, D) : o <= p => o <= w
  BY <1>4
<1>6. QED
  BY <1>2, <1>4, <1>5

(* The token that holds the point. *)
LEMMA HolderFacts ==
  ASSUME NEW x \in Seq(Printable), NEW D, NEW p \in 0 .. Len(x)
  PROVE  LET h == Holder(x, D, p)
             end == h + Token(x, D, h)
         IN  /\ h \in 0 .. p /\ end \in p .. Len(x) /\ Token(x, D, h) \in Nat
             /\ h = 0 \/ x[h] \in D
             /\ \A i \in (h + 1) .. end : x[i] \notin D
             /\ end < Len(x) => x[end + 1] \in D
<1> DEFINE S == {o \in Offsets(x, D) : o <= p /\ p <= o + Token(x, D, o)}
           T == {o \in Offsets(x, D) : o <= p}
           m == Max(T)
           h == Holder(x, D, p)
<1>1. Len(x) \in Nat /\ p \in Nat /\ DOMAIN x = 1 .. Len(x)
  OBVIOUS
<1>2. \A o : o \in Offsets(x, D) <=> o = 0 \/ (o \in 1 .. Len(x) /\ x[o] \in D)
  BY <1>1 DEF Offsets
<1>3. T \subseteq 0 .. p /\ 0 \in T
  BY <1>1, <1>2
<1>4. m \in T /\ \A o \in T : o <= m
  <2> HIDE DEF T
  <2>1. QED
    BY <1>1, <1>3, MaxFacts
<1>5. m \in 0 .. p /\ m \in Offsets(x, D) /\ \A o \in Offsets(x, D) : o <= p => o <= m
  BY <1>3, <1>4
<1> HIDE DEF m, T
<1>6. p <= m + Token(x, D, m)
  <2>1. m \in 0 .. Len(x)
    BY <1>1, <1>5
  <2> DEFINE end == m + Token(x, D, m)
  <2>2. end \in m .. Len(x) /\ (end < Len(x) => x[end + 1] \in D)
    BY <2>1, TokenFacts
  <2> HIDE DEF end
  <2>3. SUFFICES ASSUME end < p PROVE FALSE
    BY <1>1, <2>1, <2>2 DEF end
  <2>4. end + 1 \in 1 .. Len(x) /\ x[end + 1] \in D /\ end + 1 <= p /\ ~ end + 1 <= m
    BY <1>1, <1>5, <2>1, <2>2, <2>3
  <2>5. end + 1 \in Offsets(x, D)
    BY <1>2, <2>4
  <2>6. QED
    BY <1>5, <2>4, <2>5
<1>7. S \subseteq Nat /\ S # {}
  <2>1. m \in S
    BY <1>1, <1>5, <1>6
  <2>2. S \subseteq Nat
    BY <1>1, <1>2
  <2>3. QED
    BY <2>1, <2>2
<1>8. h = Min(S)
  BY DEF Holder
<1>9. h \in S
  <2> HIDE DEF S, h
  <2>1. QED
    BY <1>7, <1>8, MinFacts
<1>10. h \in Offsets(x, D) /\ h <= p /\ p <= h + Token(x, D, h)
  BY <1>9
<1> HIDE DEF h, S
<1>11. (h = 0 \/ (h \in 1 .. Len(x) /\ x[h] \in D)) /\ h \in 0 .. Len(x) /\ h \in 0 .. p
  BY <1>1, <1>2, <1>10
<1>12. LET end == h + Token(x, D, h)
       IN  /\ Token(x, D, h) \in Nat /\ end \in h .. Len(x)
           /\ \A i \in (h + 1) .. end : x[i] \notin D
           /\ end < Len(x) => x[end + 1] \in D
  BY <1>11, TokenFacts
<1>13. QED
  BY <1>1, <1>10, <1>11, <1>12 DEF h

(* A step back over a word goes to the last word that begins before. *)
LEMMA BackIs ==
  ASSUME NEW x \in Seq(Printable), NEW p \in 0 .. Len(x)
  PROVE  LET D == SubDelimiters
             S == {0} \cup {o \in Words(x, D) : o < p}
         IN  WordBackward(x, p) = Max(S) /\ Max(S) \in 0 .. p
<1> DEFINE D == SubDelimiters
           W == Words(x, D)
           S == {0} \cup {o \in W : o < p}
           w == Seek(x, D, p)
           e == w + Token(x, D, w)
           head == WordHead(x, D, p)
           b == WordBackward(x, p)
<1>1. Len(x) \in Nat /\ p \in Nat
  OBVIOUS
<1>2. S \subseteq 0 .. p /\ 0 \in S
  BY <1>1, WordBounds
<1>3. w \in 0 .. p /\ (w = 0 \/ w \in W) /\ \A o \in W : o <= p => o <= w
  BY SeekFacts
<1>4. head = IF e < p THEN p ELSE w
  BY DEF WordHead
<1>5. b = IF head = p THEN shell_subword_prev_head(x, p) ELSE head
  BY DEF WordBackward
<1>6. CASE head # p
  <2> HIDE DEF b, head, S, W
  <2>1. b = w /\ w # p
    BY <1>4, <1>5, <1>6
  <2> HIDE DEF w, e
  <2>2. w < p /\ w \in Nat
    BY <1>1, <1>3, <2>1
  <2>3. w \in S
    BY <1>3, <2>2 DEF S
  <2>4. \A o \in S : o <= w
    <3>1. SUFFICES ASSUME NEW o \in S PROVE o <= w
      OBVIOUS
    <3>2. CASE o = 0
      BY <2>2, <3>2
    <3>3. CASE o \in W /\ o < p
      <4>1. o <= p
        BY <1>1, <1>2, <3>3
      <4>2. QED
        BY <1>3, <3>3, <4>1
    <3>4. QED
      BY <3>2, <3>3 DEF S
  <2>5. Max(S) = w
    BY <1>1, <1>2, <2>3, <2>4, MaxIs
  <2>6. QED
    BY <1>3, <2>1, <2>5 DEF S, W, b
<1>7. CASE head = p
  <2> DEFINE h == Holder(x, D, p)
             end == h + Token(x, D, h)
             T == {0} \cup {o \in W : o < h}
  <2>1. /\ h \in 0 .. p /\ end \in p .. Len(x) /\ Token(x, D, h) \in Nat
        /\ \A i \in (h + 1) .. end : x[i] \notin D
    BY HolderFacts
  <2>2. b = Max(T)
    BY <1>5, <1>7 DEF shell_subword_prev_head
  <2>3. ASSUME NEW o \in W, o <= p PROVE o <= h
    <3>1. o \in 0 .. Len(x) /\ (o # 0 => x[o] \in D)
      BY WordBounds
    <3> HIDE DEF h, end, W
    <3>2. CASE o > h
      <4>1. o \in (h + 1) .. end /\ o # 0
        BY <1>1, <2>1, <2>3, <3>1, <3>2
      <4>2. QED
        BY <2>1, <3>1, <4>1
    <3>3. QED
      BY <1>1, <2>1, <3>1, <3>2
  <2>4. ASSUME NEW o \in W, o < p PROVE o # h
    <3>1. SUFFICES ASSUME o = h PROVE FALSE
      OBVIOUS
    <3>2. h \in W /\ h < p
      BY <2>4, <3>1
    <3>3. w = h
      <4> HIDE DEF h, w, W
      <4>1. h <= w
        BY <1>1, <1>3, <2>1, <3>2
      <4>2. w <= h
        BY <1>1, <1>3, <2>1, <2>3
      <4>3. QED
        BY <1>1, <1>3, <2>1, <4>1, <4>2
    <3>4. e = end
      BY <3>3
    <3> HIDE DEF e, end, w, h, W, head
    <3>5. ~ e < p
      BY <1>1, <2>1, <3>4
    <3>6. head = h
      BY <1>4, <3>3, <3>5
    <3>7. QED
      BY <1>1, <1>7, <2>1, <3>2, <3>6
  <2>5. T = S
    <3>1. \A o \in W : o \in Nat
      BY WordBounds
    <3> HIDE DEF h, W, end
    <3>2. ASSUME NEW o \in W PROVE o < h <=> o < p
      <4>1. CASE o < h
        BY <1>1, <2>1, <3>1, <4>1
      <4>2. CASE o < p
        <5>1. o <= p
          BY <1>1, <3>1, <4>2
        <5>2. o <= h /\ o # h
          BY <2>3, <2>4, <4>2, <5>1
        <5>3. QED
          BY <1>1, <2>1, <3>1, <4>2, <5>2
      <4>3. QED
        BY <4>1, <4>2
    <3>3. QED
      BY <3>2
  <2>6. Max(S) \in S
    <3> HIDE DEF S
    <3>1. QED
      BY <1>1, <1>2, MaxFacts
  <2> HIDE DEF S, T, b
  <2>7. QED
    BY <1>2, <2>2, <2>5, <2>6 DEF S, W, b
<1>8. QED
  BY <1>6, <1>7

(* Where the end of the word is. *)
LEMMA WordEndIs ==
  ASSUME NEW x \in Seq(Printable), NEW p \in 0 .. Len(x)
  PROVE  shell_word_end(x, p) \in 0 .. Len(x)
<1> DEFINE w == Seek(x, Delimiters, p)
           end == w + Token(x, Delimiters, w)
<1>1. Len(x) \in Nat /\ p \in Nat
  OBVIOUS
<1>2. w \in 0 .. p
  BY SeekFacts
<1>3. w \in 0 .. Len(x)
  <2> HIDE DEF w
  <2>1. QED
    BY <1>1, <1>2
<1>4. end \in w .. Len(x)
  BY <1>3, TokenFacts
<1>5. shell_word_end(x, p) = Max({end, p})
  BY DEF shell_word_end
<1> HIDE DEF end, w
<1>6. end \in Int /\ p \in Int
  BY <1>1, <1>3, <1>4
<1>7. Max({end, p}) = IF end <= p THEN p ELSE end
  BY <1>6, OfTwo
<1>8. QED
  BY <1>1, <1>3, <1>4, <1>5, <1>7

(* Forward, to the next word when single blanks separate the words. *)
LEMMA NextIs ==
  ASSUME NEW x \in Seq(Printable), NEW p \in 0 .. Len(x)
  PROVE  /\ shell_word_next_head(x, p) \in 0 .. Len(x)
         /\ (\A i \in 1 .. Len(x) - 1 : x[i] # SPACE \/ x[i + 1] # SPACE) =>
              shell_word_next_head(x, p) =
                Min({Len(x)} \cup {o \in Words(x, Delimiters) : o > p})
<1> DEFINE D == Delimiters
           W == Words(x, D)
           S == {Len(x)} \cup {o \in W : o > p}
           h == Holder(x, D, p)
           end == h + Token(x, D, h)
           n == shell_word_next_head(x, p)
<1>1. Len(x) \in Nat /\ p \in Nat
  OBVIOUS
<1>2. \A o \in W : o \in 0 .. Len(x) /\ o < Len(x) /\ (o # 0 => x[o] \in D)
  BY WordBounds
<1>3. /\ h \in 0 .. p /\ end \in p .. Len(x)
      /\ \A i \in (h + 1) .. end : x[i] \notin D
      /\ end < Len(x) => x[end + 1] \in D
  BY HolderFacts
<1>4. n = IF end + 1 \in W THEN end + 1 ELSE Len(x)
  BY DEF shell_word_next_head
<1>5. ASSUME NEW o \in W PROVE o \in WordStarts(x, D)
  BY WordsAre
<1>6. ASSUME NEW o \in WordStarts(x, D) PROVE o \in W
  BY WordsAre
<1>7. D = {SPACE}
  BY DEF Delimiters
<1> HIDE DEF W, h, end, n
<1>8. n \in 0 .. Len(x)
  BY <1>1, <1>2, <1>4
<1>9. S \subseteq Nat
  BY <1>1, <1>2
<1>10. ASSUME NEW o \in W, o > p PROVE o >= end + 1
  <2>1. SUFFICES ASSUME o <= end PROVE FALSE
    BY <1>1, <1>2, <1>3
  <2>2. o \in (h + 1) .. end /\ o # 0
    BY <1>1, <1>2, <1>3, <1>10, <2>1
  <2>3. QED
    BY <1>2, <1>3, <2>2
<1>11. ASSUME \A i \in 1 .. Len(x) - 1 : x[i] # SPACE \/ x[i + 1] # SPACE
       PROVE  n = Min(S)
  <2>1. CASE end + 1 \in W
    <3>1. end + 1 \in S
      BY <1>1, <1>3, <2>1
    <3>2. \A y \in S : end + 1 <= y
      BY <1>1, <1>2, <1>3, <1>10, <2>1
    <3> HIDE DEF S
    <3>3. QED
      BY <1>4, <1>9, <2>1, <3>1, <3>2, MinIs
  <2>2. CASE end + 1 \notin W
    <3>1. ASSUME NEW o \in W, o > p PROVE FALSE
      <4>1. o >= end + 1 /\ o # end + 1
        BY <1>10, <2>2, <3>1
      <4>2. end + 1 \in 1 .. Len(x) - 1 /\ x[end + 1] \in D
        BY <1>1, <1>2, <1>3, <3>1, <4>1
      <4>3. x[(end + 1) + 1] \notin D
        BY <1>7, <1>11, <4>2
      <4>4. end + 1 \in 0 .. Len(x) - 1
        BY <1>1, <4>2
      <4>5. end + 1 \in WordStarts(x, D)
        BY <4>2, <4>3, <4>4 DEF WordStarts
      <4>6. QED
        BY <1>6, <2>2, <4>5
    <3>2. S = {Len(x)}
      BY <3>1
    <3>3. Len(x) \in S /\ \A y \in S : Len(x) <= y
      BY <1>1, <3>2
    <3> HIDE DEF S
    <3>4. QED
      BY <1>4, <1>9, <2>2, <3>3, MinIs
  <2>3. QED
    BY <2>1, <2>2
<1>12. QED
  BY <1>8, <1>11 DEF n, W

-----------------------------------------------------------------------------
(* A line without a part of it. *)
LEMMA Removed ==
  ASSUME NEW x \in Seq(Printable), NEW a \in 0 .. Len(x), NEW b \in a .. Len(x)
  PROVE  /\ Splice(x, a, <<>>, b) \in Seq(Printable)
         /\ Len(Splice(x, a, <<>>, b)) = a + (Len(x) - b)
         /\ \A i \in 1 .. a : Splice(x, a, <<>>, b)[i] = x[i]
         /\ \A i \in 1 .. Len(x) - b : Splice(x, a, <<>>, b)[a + i] = x[b + i]
<1>1. Len(x) \in Nat /\ <<>> \in Seq(Printable) /\ Len(<<>>) = 0 /\ b \in 0 .. Len(x)
  OBVIOUS
<1>2. ASSUME NEW e \in Seq(Printable), Len(e) = 0
      PROVE  /\ Splice(x, a, e, b) \in Seq(Printable)
             /\ Len(Splice(x, a, e, b)) = a + (Len(x) - b)
             /\ \A i \in 1 .. a : Splice(x, a, e, b)[i] = x[i]
             /\ \A i \in 1 .. Len(x) - b : Splice(x, a, e, b)[a + i] = x[b + i]
  <2> DEFINE y == Splice(x, a, e, b)
  <2>1. /\ y \in Seq(Printable)
        /\ Len(y) = a + Len(e) + (Len(x) - b)
        /\ \A i \in 1 .. a : y[i] = x[i]
        /\ \A i \in 1 .. Len(x) - b : y[a + Len(e) + i] = x[b + i]
    <3>1. b \in 0 .. Len(x)
      BY <1>1
    <3>2. QED
      BY <3>1, Spliced
  <2> HIDE DEF y
  <2>2. a + Len(e) + (Len(x) - b) = a + (Len(x) - b) /\ a + Len(e) = a
    BY <1>1, <1>2
  <2>3. QED
    BY <2>1, <2>2 DEF y
<1>3. QED
  BY <1>1, <1>2

(* The part put back in its place restores the line. *)
LEMMA Restored ==
  ASSUME NEW x \in Seq(Printable), NEW a \in 0 .. Len(x), NEW b \in a .. Len(x)
  PROVE  Splice(Splice(x, a, <<>>, b), a, SubSeq(x, a + 1, b), a) = x
<1> DEFINE y == Splice(x, a, <<>>, b)
           c == SubSeq(x, a + 1, b)
           z == Splice(y, a, c, a)
<1>1. Len(x) \in Nat
  OBVIOUS
<1>2. /\ y \in Seq(Printable) /\ Len(y) = a + (Len(x) - b)
      /\ \A i \in 1 .. a : y[i] = x[i]
      /\ \A i \in 1 .. Len(x) - b : y[a + i] = x[b + i]
  BY Removed
<1>3. c \in Seq(Printable) /\ Len(c) = b - a /\ \A i \in 1 .. b - a : c[i] = x[a + i]
  BY Part
<1> HIDE DEF y, c
<1>4. a \in 0 .. Len(y) /\ Len(y) \in Nat
  BY <1>1, <1>2
<1>5. /\ z \in Seq(Printable)
      /\ Len(z) = a + Len(c) + (Len(y) - a)
      /\ \A i \in 1 .. a : z[i] = y[i]
      /\ \A i \in 1 .. Len(c) : z[a + i] = c[i]
      /\ \A i \in 1 .. Len(y) - a : z[a + Len(c) + i] = y[a + i]
  BY <1>2, <1>3, <1>4, Spliced
<1> HIDE DEF z
<1>6. Len(z) = Len(x)
  BY <1>1, <1>2, <1>3, <1>5
<1>7. ASSUME NEW i \in 1 .. Len(x) PROVE z[i] = x[i]
  <2>1. CASE i <= a
    <3>1. i \in 1 .. a
      BY <1>1, <2>1
    <3>2. QED
      BY <1>2, <1>5, <3>1
  <2>2. CASE i > a /\ i <= b
    <3>1. i - a \in 1 .. b - a /\ a + (i - a) = i
      BY <1>1, <2>2
    <3>2. z[a + (i - a)] = c[i - a] /\ c[i - a] = x[a + (i - a)]
      BY <1>3, <1>5, <3>1
    <3>3. QED
      BY <3>1, <3>2
  <2>3. CASE i > b
    <3>1. i - b \in 1 .. Len(x) - b /\ i - b \in 1 .. Len(y) - a
          /\ a + Len(c) + (i - b) = i /\ b + (i - b) = i
      BY <1>1, <1>2, <1>3, <2>3
    <3>2. z[a + Len(c) + (i - b)] = y[a + (i - b)] /\ y[a + (i - b)] = x[b + (i - b)]
      BY <1>2, <1>5, <3>1
    <3>3. QED
      BY <3>1, <3>2
  <2>4. QED
    BY <1>1, <2>1, <2>2, <2>3
<1>8. z = x
  BY <1>5, <1>6, <1>7
<1>9. QED
  BY <1>8 DEF y, c, z

(* A cut that keeps a text, and a yank after it. *)
LEMMA YankAfterCut ==
  ASSUME NEW s, Good(s), NEW start \in Nat, NEW end \in Nat,
         start <= end, end <= Len(s.sh.line), start <= s.sh.cursor
  PROVE  LET cut == shell_cut(s, start, end)
         IN  cut.sh.cut_buffer # EMPTY => Yank(cut).sh.line = s.sh.line
<1> DEFINE cut == shell_cut(s, start, end)
           x == s.sh.line
           b == SubSeq(x, start + 1, end)
<1>1. x \in Seq(Printable) /\ Len(x) \in Nat
  BY GoodParts
<1>2. /\ Good(cut) /\ SameRest(cut, s)
      /\ start = end => cut.sh.cut_buffer = EMPTY
      /\ start # end =>
           /\ cut.sh.cursor = start /\ cut.sh.line = Splice(x, start, <<>>, end)
           /\ cut.sh.cut_buffer = b
  BY CutGood
<1> HIDE DEF cut, x
<1>3. SUFFICES ASSUME cut.sh.cut_buffer # EMPTY PROVE Yank(cut).sh.line = x
  BY DEF cut, x
<1>4. cut.sh.cursor = start /\ cut.sh.line = Splice(x, start, <<>>, end) /\ cut.sh.cut_buffer = b
  BY <1>2, <1>3
<1>5. start \in 0 .. Len(x) /\ end \in start .. Len(x)
  BY <1>1 DEF x
<1>6. b \in Seq(Printable)
  BY <1>1, <1>5, Part
<1> HIDE DEF b
<1>7. Yank(cut).sh.line = Splice(cut.sh.line, cut.sh.cursor, b, cut.sh.cursor)
  BY <1>2, <1>4, <1>6, InsertGood DEF Yank
<1>8. Splice(Splice(x, start, <<>>, end), start, b, start) = x
  BY <1>1, <1>5, Restored DEF b
<1>9. QED
  BY <1>4, <1>7, <1>8

(* The three keys that cut: where, and what a yank then does. *)
LEMMA KillLineGood ==
  ASSUME NEW s, Good(s)
  PROVE  LET cut == KillLine(s)
         IN  /\ Good(cut) /\ SameRest(cut, s)
             /\ cut.sh.cut_buffer # EMPTY => Yank(cut).sh.line = s.sh.line
<1>1. /\ s.sh.cursor \in Nat /\ Len(s.sh.line) \in Nat /\ s.sh.cursor <= Len(s.sh.line)
      /\ Len(s.sh.line) <= Len(s.sh.line) /\ s.sh.cursor <= s.sh.cursor
  <2>1. s.sh.cursor \in 0 .. Len(s.sh.line) /\ s.sh.cursor \in Nat /\ Len(s.sh.line) \in Nat
    BY GoodParts, Zenon
  <2>2. QED
    BY <2>1
<1>2. KillLine(s) = shell_cut(s, s.sh.cursor, Len(s.sh.line))
  BY DEF KillLine
<1>3. Good(KillLine(s)) /\ SameRest(KillLine(s), s)
  BY <1>1, <1>2, CutGood
<1>4. KillLine(s).sh.cut_buffer # EMPTY => Yank(KillLine(s)).sh.line = s.sh.line
  BY <1>1, <1>2, YankAfterCut
<1>5. QED
  BY <1>3, <1>4

(* shell_keyfunc_kill_all(). *)
LEMMA KillAllGood ==
  ASSUME NEW s, Good(s)
  PROVE  LET cut == KillAll(s)
         IN  /\ Good(cut) /\ SameRest(cut, s)
             /\ cut.sh.cut_buffer # EMPTY => Yank(cut).sh.line = s.sh.line
<1> DEFINE b == shell_backward(s, s.sh.cursor)
           n == Len(s.sh.line)
<1>1. s.sh.cursor \in Nat /\ Len(s.sh.line) \in Nat /\ s.sh.cursor <= s.sh.cursor
  <2>1. s.sh.cursor \in Nat /\ Len(s.sh.line) \in Nat
    BY GoodParts, Zenon
  <2>2. QED
    BY <2>1
<1>2. Good(b) /\ SameRest(b, s) /\ b.sh.line = s.sh.line
  BY <1>1, BackwardGood
<1>3. KillAll(s) = shell_cut(b, 0, n)
  BY DEF KillAll
<1> HIDE DEF b
<1>4. 0 \in Nat /\ n \in Nat /\ 0 <= n /\ n <= Len(b.sh.line) /\ 0 <= b.sh.cursor
  <2>1. b.sh.cursor \in Nat
    BY <1>2, GoodParts, Zenon
  <2>2. QED
    BY <1>1, <1>2, <2>1
<1> HIDE DEF n
<1>5. Good(KillAll(s)) /\ SameRest(KillAll(s), b)
  BY <1>2, <1>3, <1>4, CutGood
<1>6. KillAll(s).sh.cut_buffer # EMPTY => Yank(KillAll(s)).sh.line = b.sh.line
  BY <1>2, <1>3, <1>4, YankAfterCut
<1>7. SameRest(KillAll(s), s)
  BY <1>2, <1>5 DEF SameRest
<1>8. QED
  BY <1>2, <1>5, <1>6, <1>7

(* shell_delete_word_backward(). *)
LEMMA DeleteWordGood ==
  ASSUME NEW s, Good(s)
  PROVE  LET cut == shell_delete_word_backward(s)
         IN  /\ Good(cut) /\ SameRest(cut, s)
             /\ cut.sh.cut_buffer # EMPTY => Yank(cut).sh.line = s.sh.line
<1> DEFINE a == WordBackward(s.sh.line, s.sh.cursor)
           c == s.sh.cursor
           cut == shell_delete_word_backward(s)
<1>1. /\ s.sh.line \in Seq(Printable) /\ Len(s.sh.line) \in Nat
      /\ c \in Nat /\ c \in 0 .. Len(s.sh.line)
  BY GoodParts
<1>2. a \in 0 .. c
  BY <1>1, BackIs
<1>3. cut = shell_cut(s, a, c)
  BY DEF shell_delete_word_backward
<1> HIDE DEF a, cut
<1>4. a \in Nat /\ a <= c /\ c <= Len(s.sh.line)
  BY <1>1, <1>2
<1>5. Good(cut) /\ SameRest(cut, s)
  BY <1>1, <1>3, <1>4, CutGood
<1>6. cut.sh.cut_buffer # EMPTY => Yank(cut).sh.line = s.sh.line
  BY <1>1, <1>3, <1>4, YankAfterCut
<1>7. QED
  BY <1>5, <1>6 DEF cut

-----------------------------------------------------------------------------
(* The fields the line and the screen are judged by. *)
SameLine(t, s) ==
  /\ t.sh.line = s.sh.line /\ t.sh.nul = s.sh.nul /\ t.sh.size = s.sh.size
  /\ t.sh.cursor = s.sh.cursor /\ t.sh.cut_buffer = s.sh.cut_buffer
  /\ t.failed = s.failed

(* Another state with them. *)
LEMMA SameGood ==
  ASSUME NEW s, NEW t, IsState(t), SameLine(t, s)
  PROVE  /\ LineGood(s) => LineGood(t)
         /\ Good(s) /\ t.tty = s.tty => Good(t)
<1>1. LineGood(s) => LineGood(t)
  BY DEF SameLine, LineGood
<1>2. Good(s) /\ t.tty = s.tty => Good(t)
  BY <1>1 DEF Good, SameLine
<1>3. QED
  BY <1>1, <1>2

(* The line up to a comment. *)
LEMMA UncommentedGood ==
  ASSUME NEW s, LineGood(s)
  PROVE  LineGood(Uncommented(s)) /\ SameRest(Uncommented(s), s)
<1> DEFINE x == s.sh.line
           comment == {i \in DOMAIN x : x[i] \in Comments}
           end == IF comment = {} THEN Len(x) ELSE Min(comment) - 1
           new == SubSeq(x, 1, end)
           cur == Min({s.sh.cursor, end})
           r == [s EXCEPT !.sh.line = new, !.sh.cursor = cur]
           t == Uncommented(s)
<1>1. /\ IsState(s) /\ x \in Seq(Printable) /\ s.sh.cursor \in 0 .. Len(x)
      /\ s.sh.size \in Nat /\ Len(x) < s.sh.size /\ Len(x) \in Nat
      /\ s.sh.cut_buffer \in Seq(Printable) \cup {EMPTY} /\ s.failed = FALSE
  BY DEF LineGood
<1>2. end \in 0 .. Len(x)
  <2> HIDE DEF x
  <2>1. comment \subseteq 1 .. Len(x) /\ comment \subseteq Nat
    BY <1>1
  <2>2. CASE comment = {}
    BY <1>1, <2>2
  <2>3. CASE comment # {}
    <3> DEFINE m == Min(comment)
    <3>1. m \in comment
      <4> HIDE DEF comment
      <4>1. QED
        BY <2>1, <2>3, MinFacts
    <3>2. end = m - 1
      BY <2>3
    <3> HIDE DEF m, end, comment
    <3>3. QED
      BY <1>1, <2>1, <3>1, <3>2
  <2>4. QED
    BY <2>2, <2>3
<1>3. r = [s EXCEPT !.sh.line = SubSeq(@, 1, end), !.sh.cursor = Min({@, end})]
  <2> HIDE DEF end
  <2>1. QED
    BY <1>1 DEF IsState, Is
<1>4. t = shell_terminate(r)
  <2> HIDE DEF r
  <2>1. QED
    BY <1>3 DEF Uncommented
<1> HIDE DEF t, x, end
<1>5. new \in Seq(Printable) /\ Len(new) = end
  <2>1. end - 0 = end /\ 0 + 1 = 1 /\ 0 \in 0 .. Len(x)
    BY <1>1, <1>2
  <2>2. QED
    BY <1>1, <1>2, <2>1
<1>6. cur \in 0 .. end
  <2>1. cur = IF s.sh.cursor <= end THEN s.sh.cursor ELSE end
    <3>1. s.sh.cursor \in Int /\ end \in Int
      BY <1>1, <1>2
    <3>2. QED
      BY <3>1, OfTwo
  <2> HIDE DEF cur
  <2>2. QED
    BY <1>1, <1>2, <2>1
<1> HIDE DEF new, cur
<1>7. Is(r, new, s.sh.nul, s.sh.size, cur, s.sh.cut_buffer,
         s.sh.keymap, s.sh.history, s.sh.subnego_buf, s.sh.winsize, s.sh.is_paging,
         s.tty, s.failed)
  <2>1. IsState(s)
    BY <1>1
  <2>2. QED
    BY <2>1, Updates DEF IsState
<1> HIDE DEF r
<1>8. /\ IsState(r) /\ SameRest(r, s) /\ r.sh.line = new /\ r.sh.size = s.sh.size
      /\ r.sh.cursor = cur /\ r.sh.cut_buffer = s.sh.cut_buffer
      /\ r.tty = s.tty /\ r.failed = s.failed
  BY <1>7, Fields DEF SameRest
<1>9. /\ IsState(t) /\ SameRest(t, s) /\ t.sh.nul = (Len(new) < s.sh.size)
      /\ t.sh.line = new /\ t.sh.size = s.sh.size
      /\ t.sh.cursor = cur /\ t.sh.cut_buffer = s.sh.cut_buffer /\ t.failed = s.failed
  BY <1>4, <1>8, TerminateIs DEF SameRest
<1>10. cur \in 0 .. Len(new) /\ Len(new) < s.sh.size
  BY <1>1, <1>2, <1>5, <1>6
<1>11. t.sh.nul = TRUE
  <2>1. (Len(new) < s.sh.size) = TRUE
    BY <1>10
  <2>2. QED
    BY <1>9, <2>1, Zenon
<1>12. LineGood(t)
  BY <1>1, <1>5, <1>9, <1>10, <1>11 DEF LineGood
<1>13. QED
  BY <1>9, <1>12 DEF t

(* A new screen. *)
LEMMA RedrawnGood ==
  ASSUME NEW s, LineGood(s), NEW y
  PROVE  /\ LineGood(Redrawn(s, y)) /\ SameRest(Redrawn(s, y), s)
         /\ Redrawn(s, y).sh = s.sh /\ Redrawn(s, y).tty = y
         /\ Redrawn(s, y).failed = s.failed
<1> DEFINE t == Redrawn(s, y)
<1>1. IsState(s)
  BY DEF LineGood
<1>2. IsState(t) /\ t.sh = s.sh /\ t.failed = s.failed /\ t.tty = y
  BY <1>1, RedrawnIs
<1> HIDE DEF t
<1>3. LineGood(t) /\ SameRest(t, s)
  BY <1>2 DEF LineGood, SameRest
<1>4. QED
  BY <1>2, <1>3 DEF t

(* The line as command_shell_execute() formats it. *)
LEMMA FormattedGood ==
  ASSUME NEW s, LineGood(s)
  PROVE  /\ LineGood(Formatted(s)) /\ SameRest(Formatted(s), s)
         /\ Formatted(s).tty = Blank
<1> DEFINE u == Uncommented(s)
           f == shell_format(u)
           t == Formatted(s)
<1>1. LineGood(u) /\ SameRest(u, s)
  BY UncommentedGood
<1> HIDE DEF u
<1>2. LineGood(f) /\ SameRest(f, u)
  BY <1>1, FormatGood
<1>3. t = Redrawn(f, Blank)
  BY DEF Formatted, Redrawn, shell_linefeed, u
<1> HIDE DEF f, t
<1>4. LineGood(t) /\ SameRest(t, f) /\ t.tty = Blank
  BY <1>2, <1>3, RedrawnGood
<1>5. SameRest(t, s)
  BY <1>1, <1>2, <1>4 DEF SameRest
<1>6. QED
  BY <1>4, <1>5 DEF t

(* An empty line after the prompt. *)
LEMMA PromptedGood ==
  ASSUME NEW s, LineGood(s), s.tty = Blank
  PROVE  Good(Prompted(s)) /\ SameRest(Prompted(s), s)
<1> DEFINE c == shell_clear(s)
           t == Prompted(s)
<1>1. /\ IsState(s) /\ s.sh.size \in Nat /\ 0 < s.sh.size
      /\ s.sh.cut_buffer \in Seq(Printable) \cup {EMPTY} /\ s.failed = FALSE
  BY DEF LineGood
<1>2. /\ IsState(c) /\ SameRest(c, s)
      /\ c.sh.nul = (Len(<<>>) < s.sh.size)
      /\ c.sh.line = <<>> /\ c.sh.size = s.sh.size
      /\ c.sh.cursor = 0 /\ c.sh.cut_buffer = s.sh.cut_buffer
      /\ c.tty = s.tty /\ c.failed = s.failed
  BY <1>1, ClearIs
<1>3. t = shell_refresh(c)
  BY DEF Prompted
<1> HIDE DEF c, t
<1>4. <<>> \in Seq(Printable) /\ Len(<<>>) = 0
  OBVIOUS
<1>5. c.sh.nul = TRUE
  <2>1. (Len(<<>>) < s.sh.size) = TRUE
    BY <1>1, <1>4
  <2>2. QED
    BY <1>2, <2>1, Zenon
<1>6. c.sh.line \in Seq(Printable) /\ Len(c.sh.line) = 0
  BY <1>2, <1>4
<1>7. c.sh.cursor \in 0 .. Len(c.sh.line) /\ Len(c.sh.line) < c.sh.size
  BY <1>1, <1>2, <1>6
<1>8. LineGood(c)
  BY <1>1, <1>2, <1>5, <1>6, <1>7 DEF LineGood
<1>9. Good(t) /\ SameRest(t, c)
  BY <1>2, <1>3, <1>8, RefreshGood
<1>10. SameRest(t, s)
  BY <1>2, <1>9 DEF SameRest
<1>11. QED
  BY <1>9, <1>10 DEF t

-----------------------------------------------------------------------------
(* The history. The slot i commands before the newest one. *)
Ago(last, i) == IF i <= last THEN last - i ELSE last - i + HISTORY_SIZE

(* It is a slot, a slot is only one of them, and every slot is one. *)
LEMMA AgoFacts ==
  ASSUME NEW last \in Slots
  PROVE  /\ \A i \in 0 .. HISTORY_SIZE - 1 : Ago(last, i) \in Slots
         /\ \A i, j \in 0 .. HISTORY_SIZE - 1 : Ago(last, i) = Ago(last, j) => i = j
         /\ \A x \in Slots : \E i \in 0 .. HISTORY_SIZE - 1 : x = Ago(last, i)
         /\ Ago(last, 0) = last
         /\ Ago(last, HISTORY_SIZE - 1) = HISTORY_NEXT(last)
         /\ \A i \in 0 .. HISTORY_SIZE - 1 :
              (last - i + HISTORY_SIZE) % HISTORY_SIZE = Ago(last, i)
<1>1. HISTORY_SIZE \in Nat /\ HISTORY_SIZE >= 3 /\ last \in 0 .. HISTORY_SIZE - 1
  BY HistoryAssumption DEF Slots
<1>2. \A i \in 0 .. HISTORY_SIZE - 1 : Ago(last, i) \in Slots
  BY <1>1 DEF Ago, Slots
<1>3. \A i, j \in 0 .. HISTORY_SIZE - 1 : Ago(last, i) = Ago(last, j) => i = j
  BY <1>1 DEF Ago
<1>4. ASSUME NEW x \in Slots PROVE \E i \in 0 .. HISTORY_SIZE - 1 : x = Ago(last, i)
  <2>1. x \in 0 .. HISTORY_SIZE - 1
    BY DEF Slots
  <2>2. CASE x <= last
    <3>1. last - x \in 0 .. HISTORY_SIZE - 1 /\ x = Ago(last, last - x)
      BY <1>1, <2>1, <2>2 DEF Ago
    <3>2. QED
      BY <3>1
  <2>3. CASE x > last
    <3>1. last - x + HISTORY_SIZE \in 0 .. HISTORY_SIZE - 1
             /\ x = Ago(last, last - x + HISTORY_SIZE)
      BY <1>1, <2>1, <2>3 DEF Ago
    <3>2. QED
      BY <3>1
  <2>4. QED
    BY <1>1, <2>1, <2>2, <2>3
<1>5. Ago(last, 0) = last
  BY <1>1 DEF Ago
<1>6. Ago(last, HISTORY_SIZE - 1) = HISTORY_NEXT(last)
  BY <1>1 DEF Ago, HISTORY_NEXT
<1>7. ASSUME NEW i \in 0 .. HISTORY_SIZE - 1
      PROVE  (last - i + HISTORY_SIZE) % HISTORY_SIZE = Ago(last, i)
  <2>1. ASSUME NEW y \in Int, 0 <= y, y < HISTORY_SIZE
        PROVE  y % HISTORY_SIZE = y /\ (y + HISTORY_SIZE) % HISTORY_SIZE = y
    <3>1. y % HISTORY_SIZE = y
      BY <1>1, <2>1
    <3>2. (y + HISTORY_SIZE) % HISTORY_SIZE = y
      BY <1>1, <2>1
    <3>3. QED
      BY <3>1, <3>2
  <2>2. CASE i <= last
    <3>1. last - i \in Int /\ 0 <= last - i /\ last - i < HISTORY_SIZE
      BY <1>1, <2>2
    <3>2. ((last - i) + HISTORY_SIZE) % HISTORY_SIZE = last - i
      BY <2>1, <3>1
    <3>3. QED
      BY <2>2, <3>2 DEF Ago
  <2>3. CASE ~ i <= last
    <3> DEFINE y == last - i + HISTORY_SIZE
    <3>1. y \in Int /\ 0 <= y /\ y < HISTORY_SIZE
      BY <1>1, <2>3
    <3>2. Ago(last, i) = y
      BY <2>3 DEF Ago
    <3> HIDE DEF y
    <3>3. y % HISTORY_SIZE = y
      BY <2>1, <3>1
    <3>4. QED
      BY <3>2, <3>3 DEF y
  <2>4. QED
    BY <2>2, <2>3
<1>8. QED
  BY <1>2, <1>3, <1>4, <1>5, <1>6, <1>7

(* The slots seen from the next one. *)
LEMMA AgoNext ==
  ASSUME NEW last \in Slots
  PROVE  /\ HISTORY_NEXT(last) \in Slots /\ HISTORY_PREV(last) \in Slots
         /\ HISTORY_NEXT(last) # last
         /\ \A i \in 1 .. HISTORY_SIZE - 1 : Ago(HISTORY_NEXT(last), i) = Ago(last, i - 1)
<1>1. HISTORY_SIZE \in Nat /\ HISTORY_SIZE >= 3 /\ last \in 0 .. HISTORY_SIZE - 1
  BY HistoryAssumption DEF Slots
<1>2. /\ HISTORY_NEXT(last) \in Slots /\ HISTORY_PREV(last) \in Slots
      /\ HISTORY_NEXT(last) # last
  BY <1>1 DEF Slots, HISTORY_NEXT, HISTORY_PREV
<1>3. ASSUME NEW i \in 1 .. HISTORY_SIZE - 1
      PROVE  Ago(HISTORY_NEXT(last), i) = Ago(last, i - 1)
  BY <1>1 DEF Ago, HISTORY_NEXT
<1>4. QED
  BY <1>2, <1>3

(* How many of the executed commands the ring holds. *)
Held(ex) == IF Len(ex) <= HISTORY_SIZE - 1 THEN Len(ex) ELSE HISTORY_SIZE - 1

(* The ring, slot by slot. *)
Ring(array, last, ex) ==
  /\ array \in [Slots -> Seq(Printable) \cup {EMPTY}]
  /\ last \in Slots
  /\ ex \in Seq(Seq(Printable))
  /\ \A i \in 0 .. HISTORY_SIZE - 1 :
       /\ i < Held(ex) => array[Ago(last, i)] = ex[Len(ex) - i]
       /\ ~ i < Held(ex) => array[Ago(last, i)] = EMPTY

(* Where the walk stands. *)
Walk(current, last, ex) ==
  \/ \E i \in 0 .. HISTORY_SIZE - 1 : i < Held(ex) /\ current = Ago(last, i)
  \/ Held(ex) = 0 /\ current = last
  \/ Held(ex) # 0 /\ current = HISTORY_NEXT(last)

(* The history of the executed commands. *)
HistoryGood(h, ex) ==
  /\ h = [array |-> h.array, last |-> h.last, current |-> h.current]
  /\ Ring(h.array, h.last, ex)
  /\ Walk(h.current, h.last, ex)

(* A slot with a line is one of the commands held. *)
LEMMA WalkToLine ==
  ASSUME NEW array, NEW last, NEW ex, Ring(array, last, ex),
         NEW c \in Slots, array[c] # EMPTY
  PROVE  Walk(c, last, ex) /\ array[c] \in Seq(Printable)
<1>1. PICK i \in 0 .. HISTORY_SIZE - 1 : c = Ago(last, i)
  BY AgoFacts DEF Ring
<1>2. i < Held(ex)
  BY <1>1 DEF Ring
<1>3. array[c] \in Seq(Printable)
  BY DEF Ring
<1>4. QED
  BY <1>1, <1>2, <1>3 DEF Walk

(* The first command. *)
LEMMA AddFirst ==
  ASSUME NEW array, NEW last, NEW ex, Ring(array, last, ex), Held(ex) = 0,
         NEW line \in Seq(Printable), NEW new,
         new = [array EXCEPT ![last] = line, ![HISTORY_NEXT(last)] = EMPTY]
  PROVE  Ring(new, last, Append(ex, line)) /\ Held(Append(ex, line)) = 1
<1>1. HISTORY_SIZE \in Nat /\ HISTORY_SIZE >= 3
  BY HistoryAssumption
<1>2. /\ array \in [Slots -> Seq(Printable) \cup {EMPTY}] /\ last \in Slots
      /\ ex \in Seq(Seq(Printable)) /\ Len(ex) \in Nat
      /\ \A i \in 0 .. HISTORY_SIZE - 1 : array[Ago(last, i)] = EMPTY
  BY <1>1 DEF Ring
<1>3. Len(ex) = 0
  BY <1>1, <1>2 DEF Held
<1> DEFINE ey == Append(ex, line)
<1>4. ey \in Seq(Seq(Printable)) /\ Len(ey) = 1 /\ ey[1] = line
  BY <1>2, <1>3
<1> HIDE DEF ey
<1>5. Held(ey) = 1
  BY <1>1, <1>4 DEF Held
<1>6. HISTORY_NEXT(last) \in Slots /\ HISTORY_NEXT(last) # last
  BY <1>2, AgoNext
<1>7. /\ new \in [Slots -> Seq(Printable) \cup {EMPTY}]
      /\ new[last] = line
      /\ \A x \in Slots : x # last => new[x] = array[x] \/ new[x] = EMPTY
  BY <1>2, <1>6
<1>8. ASSUME NEW i \in 0 .. HISTORY_SIZE - 1
      PROVE  /\ i < Held(ey) => new[Ago(last, i)] = ey[Len(ey) - i]
             /\ ~ i < Held(ey) => new[Ago(last, i)] = EMPTY
  <2>1. CASE i = 0
    <3>1. Ago(last, i) = last /\ Len(ey) - i = 1 /\ i < Held(ey)
      BY <1>2, <1>4, <1>5, <2>1, AgoFacts
    <3>2. QED
      BY <1>4, <1>7, <3>1
  <2>2. CASE i # 0
    <3>1. ~ i < Held(ey)
      BY <1>5, <2>2
    <3>2. 0 \in 0 .. HISTORY_SIZE - 1
      BY <1>1
    <3>3. Ago(last, i) \in Slots /\ Ago(last, i) # last
      BY <1>2, <2>2, <3>2, AgoFacts
    <3>4. array[Ago(last, i)] = EMPTY
      BY <1>2
    <3>5. QED
      BY <1>7, <3>1, <3>3, <3>4
  <2>3. QED
    BY <2>1, <2>2
<1>9. QED
  BY <1>2, <1>4, <1>5, <1>7, <1>8 DEF Ring, ey

(* Every later command. *)
LEMMA AddLater ==
  ASSUME NEW array, NEW last, NEW ex, Ring(array, last, ex), Held(ex) # 0,
         NEW line \in Seq(Printable), NEW next, next = HISTORY_NEXT(last), NEW new,
         new = [array EXCEPT ![next] = line, ![HISTORY_NEXT(next)] = EMPTY]
  PROVE  /\ Ring(new, next, Append(ex, line)) /\ Held(Append(ex, line)) # 0
         /\ array[last] # EMPTY /\ array[next] = EMPTY
<1> DEFINE m == HISTORY_SIZE - 1
           n == Held(ex)
           ey == Append(ex, line)
<1>1. HISTORY_SIZE \in Nat /\ HISTORY_SIZE >= 3 /\ m \in Nat /\ m >= 2
  BY HistoryAssumption
<1>2. /\ array \in [Slots -> Seq(Printable) \cup {EMPTY}] /\ last \in Slots
      /\ ex \in Seq(Seq(Printable)) /\ Len(ex) \in Nat
      /\ \A i \in 0 .. m : /\ i < n => array[Ago(last, i)] = ex[Len(ex) - i]
                           /\ ~ i < n => array[Ago(last, i)] = EMPTY
  BY <1>1 DEF Ring
<1>3. n \in 1 .. m /\ n <= Len(ex) /\ (n # m => n = Len(ex))
  BY <1>1, <1>2 DEF Held
<1>4. next \in Slots /\ HISTORY_NEXT(next) \in Slots /\ HISTORY_NEXT(next) # next
  BY <1>2, AgoNext
<1>5. /\ ey \in Seq(Seq(Printable)) /\ Len(ey) = Len(ex) + 1 /\ ey[Len(ex) + 1] = line
      /\ \A i \in 1 .. Len(ex) : ey[i] = ex[i]
  BY <1>2
<1> HIDE DEF ey
<1>6. Held(ey) = IF n = m THEN m ELSE n + 1
  <2>1. Held(ey) = IF Len(ex) + 1 <= m THEN Len(ex) + 1 ELSE m
    BY <1>5 DEF Held
  <2>2. n = IF Len(ex) <= m THEN Len(ex) ELSE m
    BY DEF Held
  <2> HIDE DEF n, m
  <2>3. QED
    BY <1>1, <1>2, <2>1, <2>2
<1>7. array[last] # EMPTY
  <2> HIDE DEF n, m
  <2>a. Ago(last, 0) = last
    BY <1>2, AgoFacts
  <2>b. 0 \in 0 .. m /\ 0 < n /\ Len(ex) - 0 \in 1 .. Len(ex)
    BY <1>1, <1>2, <1>3
  <2>1. 0 \in 0 .. m /\ 0 < n /\ Ago(last, 0) = last /\ Len(ex) - 0 \in 1 .. Len(ex)
    BY <2>a, <2>b
  <2>2. array[last] = ex[Len(ex) - 0]
    BY <1>2, <2>1
  <2>3. ex[Len(ex) - 0] \in Seq(Printable)
    BY <1>2, <2>1
  <2>4. QED
    BY <2>2, <2>3, ShellAssumption
<1>8. array[next] = EMPTY
  <2>1. m \in 0 .. m /\ ~ m < n
    BY <1>1, <1>3
  <2>2. next = Ago(last, m)
    BY <1>2, AgoFacts
  <2>3. QED
    BY <1>2, <2>1, <2>2
<1>9. /\ new \in [Slots -> Seq(Printable) \cup {EMPTY}]
      /\ new[next] = line /\ new[HISTORY_NEXT(next)] = EMPTY
      /\ \A x \in Slots : x # next /\ x # HISTORY_NEXT(next) => new[x] = array[x]
  BY <1>2, <1>4
<1>10. ASSUME NEW i \in 0 .. m
       PROVE  /\ i < Held(ey) => new[Ago(next, i)] = ey[Len(ey) - i]
              /\ ~ i < Held(ey) => new[Ago(next, i)] = EMPTY
  <2>0. 0 \in 0 .. m /\ m \in 0 .. m /\ Len(ex) \in Nat
    BY <1>1, <1>2
  <2>1. CASE i = 0
    <3>1. Ago(next, i) = next /\ Len(ey) - i = Len(ex) + 1 /\ i < Held(ey)
      BY <1>1, <1>2, <1>3, <1>4, <1>5, <1>6, <2>1, AgoFacts
    <3>2. QED
      BY <1>5, <1>9, <3>1
  <2>2. CASE i = m
    <3>1. Ago(next, i) = HISTORY_NEXT(next)
      BY <1>4, <2>2, AgoFacts
    <3>2. ~ i < Held(ey)
      BY <1>1, <1>3, <1>6, <2>2
    <3>3. QED
      BY <1>9, <3>1, <3>2
  <2>3. CASE i # 0 /\ i # m
    <3>1. i \in 1 .. HISTORY_SIZE - 1 /\ i - 1 \in 0 .. m /\ i \in 0 .. HISTORY_SIZE - 1
      BY <1>1, <2>3
    <3>2. Ago(next, i) = Ago(last, i - 1)
      BY <1>2, <3>1, AgoNext
    <3>3. Ago(next, i) \in Slots /\ Ago(next, i) # next /\ Ago(next, i) # HISTORY_NEXT(next)
      <4>1. Ago(next, 0) = next /\ Ago(next, m) = HISTORY_NEXT(next)
        BY <1>4, AgoFacts
      <4>2. QED
        BY <1>4, <2>0, <2>3, <3>1, <4>1, AgoFacts
    <3>4. new[Ago(next, i)] = array[Ago(last, i - 1)]
      BY <1>9, <3>2, <3>3
    <3>5. i < Held(ey) <=> i - 1 < n
      BY <1>1, <1>3, <1>6, <2>3
    <3>6. ASSUME i < Held(ey) PROVE new[Ago(next, i)] = ey[Len(ey) - i]
      <4>1. Len(ex) - (i - 1) = Len(ey) - i /\ Len(ey) - i \in 1 .. Len(ex)
        BY <1>1, <1>3, <1>5, <2>0, <2>3, <3>5, <3>6
      <4>2. array[Ago(last, i - 1)] = ex[Len(ex) - (i - 1)]
        BY <1>2, <3>1, <3>5, <3>6
      <4>3. QED
        BY <1>5, <3>4, <4>1, <4>2
    <3>7. ASSUME ~ i < Held(ey) PROVE new[Ago(next, i)] = EMPTY
      BY <1>2, <3>1, <3>4, <3>5, <3>7
    <3>8. QED
      BY <3>6, <3>7
  <2>4. QED
    BY <2>1, <2>2, <2>3
<1>11. Held(ey) # 0
  BY <1>1, <1>3, <1>6
<1>12. QED
  BY <1>4, <1>5, <1>7, <1>8, <1>9, <1>10, <1>11 DEF Ring, ey

(* command_history_add(): its assert() holds, and the new command is the    *)
(* newest.                                                                  *)
LEMMA AddGood ==
  ASSUME NEW h, NEW ex, HistoryGood(h, ex), NEW line \in Seq(Printable)
  PROVE  /\ AddAllowed(h)
         /\ HistoryGood(command_history_add(h, line), Append(ex, line))
<1> DEFINE g == command_history_add(h, line)
           slot == AddSlot(h)
           ey == Append(ex, line)
<1>1. /\ Ring(h.array, h.last, ex) /\ Walk(h.current, h.last, ex)
      /\ h.last \in Slots /\ h.array \in [Slots -> Seq(Printable) \cup {EMPTY}]
  BY DEF HistoryGood, Ring
<1>2. /\ g = [array |-> g.array, last |-> g.last, current |-> g.current]
      /\ g.array = [h.array EXCEPT ![slot] = line, ![HISTORY_NEXT(slot)] = EMPTY]
      /\ g.last = slot /\ g.current = HISTORY_NEXT(slot)
  BY DEF command_history_add
<1> HIDE DEF g
<1>3. CASE Held(ex) = 0
  <2>1. h.array[h.last] = EMPTY
    <3>1. 0 \in 0 .. HISTORY_SIZE - 1 /\ ~ 0 < Held(ex) /\ Ago(h.last, 0) = h.last
      BY <1>1, <1>3, HistoryAssumption, AgoFacts
    <3>2. QED
      BY <1>1, <3>1 DEF Ring
  <2>2. h.current = h.last
    BY <1>1, <1>3, HistoryAssumption DEF Walk
  <2>3. slot = h.last
    BY <2>1, <2>2 DEF AddSlot
  <2>4. AddAllowed(h)
    BY <2>1, <2>3 DEF AddAllowed
  <2> HIDE DEF slot, ey
  <2>5. Ring(g.array, g.last, ey) /\ Held(ey) = 1
    <3>1. g.array = [h.array EXCEPT ![h.last] = line, ![HISTORY_NEXT(h.last)] = EMPTY]
      BY <1>2, <2>3
    <3>2. Ring(g.array, h.last, ey) /\ Held(ey) = 1
      BY <1>1, <1>3, <3>1, AddFirst DEF ey
    <3>3. QED
      BY <1>2, <2>3, <3>2
  <2>6. Walk(g.current, g.last, ey)
    BY <1>2, <2>5 DEF Walk
  <2>7. QED
    BY <1>2, <2>4, <2>5, <2>6 DEF HistoryGood, g, ey
<1>4. CASE Held(ex) # 0
  <2> DEFINE next == HISTORY_NEXT(h.last)
             new == [h.array EXCEPT ![next] = line, ![HISTORY_NEXT(next)] = EMPTY]
  <2>1. /\ Ring(new, next, ey) /\ Held(ey) # 0
        /\ h.array[h.last] # EMPTY /\ h.array[next] = EMPTY
    <3> HIDE DEF next, new, ey
    <3>1. QED
      BY <1>1, <1>4, AddLater DEF next, new, ey
  <2>2. slot = next
    BY <2>1 DEF AddSlot
  <2>3. AddAllowed(h)
    BY <2>1, <2>2 DEF AddAllowed
  <2> HIDE DEF slot, ey
  <2>4. g.array = new /\ g.last = next /\ g.current = HISTORY_NEXT(next)
    BY <1>2, <2>2
  <2> HIDE DEF next, new
  <2>5. Walk(g.current, g.last, ey)
    BY <2>1, <2>4 DEF Walk
  <2>6. QED
    BY <1>2, <2>1, <2>3, <2>4, <2>5 DEF HistoryGood, g, ey
<1>5. QED
  BY <1>3, <1>4

(* command_history_prev() and _next(): the line they recall is a command,   *)
(* and the walk stands on it.                                               *)
LEMMA WalkGood ==
  ASSUME NEW h, NEW ex, HistoryGood(h, ex)
  PROVE  /\ PrevAllowed(h) => LET c == HISTORY_PREV(h.current) IN
              /\ h.array[c] \in Seq(Printable)
              /\ HistoryGood([h EXCEPT !.current = c], ex)
         /\ NextAllowed(h) => LET c == HISTORY_NEXT(h.current) IN
              /\ h.array[c] \in Seq(Printable)
              /\ HistoryGood([h EXCEPT !.current = c], ex)
<1>1. Ring(h.array, h.last, ex) /\ Walk(h.current, h.last, ex) /\ h.last \in Slots
  BY DEF HistoryGood, Ring
<1>2. h.current \in Slots
  <2>1. h.last \in Slots /\ HISTORY_NEXT(h.last) \in Slots
    BY <1>1, AgoNext
  <2>2. \A i \in 0 .. HISTORY_SIZE - 1 : Ago(h.last, i) \in Slots
    BY <1>1, AgoFacts
  <2>3. QED
    BY <1>1, <2>1, <2>2 DEF Walk
<1>3. ASSUME NEW c \in Slots, h.array[c] # EMPTY
      PROVE  h.array[c] \in Seq(Printable) /\ HistoryGood([h EXCEPT !.current = c], ex)
  <2> DEFINE g == [h EXCEPT !.current = c]
  <2>1. Walk(c, h.last, ex) /\ h.array[c] \in Seq(Printable)
    BY <1>1, <1>3, WalkToLine
  <2>2. /\ g = [array |-> g.array, last |-> g.last, current |-> g.current]
        /\ g.array = h.array /\ g.last = h.last /\ g.current = c
    BY DEF HistoryGood
  <2> HIDE DEF g
  <2>3. HistoryGood(g, ex)
    BY <1>1, <2>1, <2>2 DEF HistoryGood
  <2>4. QED
    BY <2>1, <2>3 DEF g
<1>4. HISTORY_PREV(h.current) \in Slots /\ HISTORY_NEXT(h.current) \in Slots
  BY <1>2, AgoNext
<1>5. QED
  BY <1>3, <1>4 DEF PrevAllowed, NextAllowed

-----------------------------------------------------------------------------
(* The place of the walk assigned. *)
Walked(s, c) == [s EXCEPT !.sh.history.current = c]

(* Its fields. *)
LEMMA WalkedIs ==
  ASSUME NEW s, IsState(s), NEW c
  PROVE  LET t == Walked(s, c)
         IN  /\ IsState(t) /\ SameLine(t, s) /\ t.tty = s.tty
             /\ t.sh.history = [s.sh.history EXCEPT !.current = c]
             /\ t.sh.keymap = s.sh.keymap /\ t.sh.subnego_buf = s.sh.subnego_buf
             /\ t.sh.winsize = s.sh.winsize /\ t.sh.is_paging = s.sh.is_paging
<1> DEFINE t == Walked(s, c)
           h == s.sh.history
           g == [h EXCEPT !.current = c]
<1>1. t = [s EXCEPT !.sh.history = g]
  BY DEF Walked
<1> HIDE DEF g
<1>2. Is(t, s.sh.line, s.sh.nul, s.sh.size, s.sh.cursor, s.sh.cut_buffer, s.sh.keymap,
         g, s.sh.subnego_buf, s.sh.winsize, s.sh.is_paging, s.tty, s.failed)
  <2> DEFINE r == [s EXCEPT !.sh.history = g]
  <2>1. Is(r, s.sh.line, s.sh.nul, s.sh.size, s.sh.cursor, s.sh.cut_buffer, s.sh.keymap,
           g, s.sh.subnego_buf, s.sh.winsize, s.sh.is_paging, s.tty, s.failed)
    BY Updates DEF IsState
  <2>2. t = r
    BY <1>1
  <2> HIDE DEF r, t
  <2>3. QED
    BY <2>1, <2>2, Zenon
<1> HIDE DEF t
<1>3. QED
  BY <1>2, Fields DEF SameLine, g, t

(* A recalled command takes the place of the line. *)
LEMMA RecallGood ==
  ASSUME NEW s, Good(s), NEW slot, s.sh.history.array[slot] \in Seq(Printable)
  PROVE  LET t == Recall(s, slot)
         IN  /\ Good(t) /\ t.sh.history = [s.sh.history EXCEPT !.current = slot]
             /\ t.sh.keymap = s.sh.keymap /\ t.sh.subnego_buf = s.sh.subnego_buf
             /\ t.sh.winsize = s.sh.winsize /\ t.sh.is_paging = s.sh.is_paging
<1> DEFINE d == shell_delete_string(s, 0, Len(s.sh.line))
           str == s.sh.history.array[slot]
           i == shell_insert(d, str)
           t == Recall(s, slot)
<1>1. Good(d) /\ SameRest(d, s)
  <2>1. Len(s.sh.line) \in Nat /\ s.sh.cursor \in Nat
    BY GoodParts, Zenon
  <2>2. 0 \in Nat /\ 0 <= s.sh.cursor /\ 0 <= Len(s.sh.line) /\ Len(s.sh.line) <= Len(s.sh.line)
    BY <2>1
  <2>3. QED
    BY <2>1, <2>2, DeleteGood
<1>2. t = Walked(i, slot)
  BY DEF Recall, Walked
<1> HIDE DEF d, str, t
<1>3. Good(i) /\ SameRest(i, d)
  BY <1>1, InsertGood DEF str
<1> HIDE DEF i
<1>4. /\ IsState(t) /\ SameLine(t, i) /\ t.tty = i.tty
      /\ t.sh.history = [i.sh.history EXCEPT !.current = slot]
      /\ t.sh.keymap = i.sh.keymap /\ t.sh.subnego_buf = i.sh.subnego_buf
      /\ t.sh.winsize = i.sh.winsize /\ t.sh.is_paging = i.sh.is_paging
  <2>1. IsState(i)
    BY <1>3, GoodParts, Zenon
  <2>2. QED
    BY <1>2, <2>1, WalkedIs
<1>5. Good(t)
  BY <1>3, <1>4, SameGood
<1>6. i.sh.history = s.sh.history
  BY <1>1, <1>3 DEF SameRest
<1>7. QED
  BY <1>1, <1>3, <1>4, <1>5, <1>6 DEF t, SameRest

(* The history and the outcome of its assert() assigned. *)
Noted(s, h, f) == [s EXCEPT !.sh.history = h, !.failed = f]

(* Its fields. *)
LEMMA NotedIs ==
  ASSUME NEW s, IsState(s), NEW h, NEW f
  PROVE  Is(Noted(s, h, f), s.sh.line, s.sh.nul, s.sh.size, s.sh.cursor, s.sh.cut_buffer,
            s.sh.keymap, h, s.sh.subnego_buf, s.sh.winsize, s.sh.is_paging, s.tty, f)
<1> DEFINE r == [s EXCEPT !.sh.history = h]
           q == [r EXCEPT !.failed = f]
<1>1. Is(r, s.sh.line, s.sh.nul, s.sh.size, s.sh.cursor, s.sh.cut_buffer, s.sh.keymap,
         h, s.sh.subnego_buf, s.sh.winsize, s.sh.is_paging, s.tty, s.failed)
  BY Updates DEF IsState
<1>2. q = Noted(s, h, f)
  BY DEF Noted
<1> HIDE DEF r
<1>3. Is(q, s.sh.line, s.sh.nul, s.sh.size, s.sh.cursor, s.sh.cut_buffer, s.sh.keymap,
         h, s.sh.subnego_buf, s.sh.winsize, s.sh.is_paging, s.tty, f)
  BY <1>1, Updates
<1> HIDE DEF q
<1>4. QED
  BY <1>2, <1>3, Zenon

(* Remember() of a sound line. *)
LEMMA RememberGood ==
  ASSUME NEW s, LineGood(s), NEW ex, HistoryGood(s.sh.history, ex)
  PROVE  LET t == Remember(s)
         IN  /\ LineGood(t) /\ t.tty = s.tty
             /\ HistoryGood(t.sh.history, Append(ex, s.sh.line))
             /\ t.sh.keymap = s.sh.keymap /\ t.sh.subnego_buf = s.sh.subnego_buf
             /\ t.sh.winsize = s.sh.winsize
<1> DEFINE h == command_history_add(s.sh.history, s.sh.line)
           f == s.failed \/ ~AddAllowed(s.sh.history)
           t == Remember(s)
<1>1. IsState(s) /\ s.sh.line \in Seq(Printable) /\ s.failed = FALSE
  BY DEF LineGood
<1>2. AddAllowed(s.sh.history) /\ HistoryGood(h, Append(ex, s.sh.line))
  BY <1>1, AddGood
<1>3. f = s.failed
  BY <1>1, <1>2, Zenon
<1>4. t = Noted(s, h, f)
  BY <1>1 DEF Remember, Noted, IsState, Is
<1> HIDE DEF h, f, t
<1>5. Is(t, s.sh.line, s.sh.nul, s.sh.size, s.sh.cursor, s.sh.cut_buffer, s.sh.keymap,
         h, s.sh.subnego_buf, s.sh.winsize, s.sh.is_paging, s.tty, s.failed)
  <2>1. IsState(s)
    BY <1>1
  <2>2. Is(Noted(s, h, f), s.sh.line, s.sh.nul, s.sh.size, s.sh.cursor, s.sh.cut_buffer,
           s.sh.keymap, h, s.sh.subnego_buf, s.sh.winsize, s.sh.is_paging, s.tty, f)
    BY <2>1, NotedIs
  <2>3. QED
    BY <1>3, <1>4, <2>2
<1>6. /\ IsState(t) /\ SameLine(t, s) /\ t.tty = s.tty /\ t.sh.history = h
      /\ t.sh.keymap = s.sh.keymap /\ t.sh.subnego_buf = s.sh.subnego_buf
      /\ t.sh.winsize = s.sh.winsize
  BY <1>5, Fields DEF SameLine
<1>7. LineGood(t)
  BY <1>6, SameGood
<1>8. QED
  BY <1>2, <1>6, <1>7 DEF t

(* The pager's flag and the screen assigned. *)
Paging(s, p, y) == [s EXCEPT !.sh.is_paging = p, !.tty = y]

(* They leave the line alone. *)
LEMMA PagingGood ==
  ASSUME NEW s, LineGood(s), NEW p, NEW y
  PROVE  LET t == Paging(s, p, y)
         IN  /\ LineGood(t) /\ t.tty = y /\ t.sh.is_paging = p
             /\ t.sh.keymap = s.sh.keymap /\ t.sh.history = s.sh.history
             /\ t.sh.subnego_buf = s.sh.subnego_buf /\ t.sh.winsize = s.sh.winsize
<1> DEFINE t == Paging(s, p, y)
<1>1. IsState(s)
  BY DEF LineGood
<1>2. Is(t, s.sh.line, s.sh.nul, s.sh.size, s.sh.cursor, s.sh.cut_buffer, s.sh.keymap,
         s.sh.history, s.sh.subnego_buf, s.sh.winsize, p, y, s.failed)
  BY <1>1, Updates DEF IsState, Paging
<1> HIDE DEF t
<1>3. /\ IsState(t) /\ SameLine(t, s) /\ t.tty = y /\ t.sh.is_paging = p
      /\ t.sh.keymap = s.sh.keymap /\ t.sh.history = s.sh.history
      /\ t.sh.subnego_buf = s.sh.subnego_buf /\ t.sh.winsize = s.sh.winsize
  BY <1>2, Fields DEF SameLine
<1>4. LineGood(t)
  BY <1>3, SameGood
<1>5. QED
  BY <1>3, <1>4 DEF t

(* Another key map. *)
LEMMA MappedGood ==
  ASSUME NEW s, Good(s), NEW x
  PROVE  LET t == Mapped(s, x)
         IN  /\ Good(t) /\ t.sh.keymap = x /\ t.sh.history = s.sh.history
             /\ t.sh.subnego_buf = s.sh.subnego_buf /\ t.sh.winsize = s.sh.winsize
<1> DEFINE t == Mapped(s, x)
<1>1. IsState(s)
  BY GoodParts, Zenon
<1>2. /\ IsState(t) /\ SameLine(t, s) /\ t.tty = s.tty /\ t.sh.keymap = x
      /\ t.sh.history = s.sh.history
      /\ t.sh.subnego_buf = s.sh.subnego_buf /\ t.sh.winsize = s.sh.winsize
  BY <1>1, MappedIs DEF SameLine
<1> HIDE DEF t
<1>3. Good(t)
  BY <1>2, SameGood
<1>4. QED
  BY <1>2, <1>3 DEF t

(* A terminal written over shows nothing that could be wrong. *)
LEMMA LostGood ==
  ASSUME NEW s, LineGood(s), s.tty = Lost
  PROVE  Good(s)
BY DEF Good, Screen

-----------------------------------------------------------------------------
(* Telnet. The bytes of a subnegotiation. *)
SubBytes == DOMAIN Digits

(* What the client has sent in a subnegotiation, and what was kept of it. *)
SentGood(sent, buf) ==
  /\ sent \in Seq(SubBytes) /\ buf \in Seq(SubBytes)
  /\ Len(sent) <= SubnegoSize => buf = sent
  /\ Len(sent) > SubnegoSize => Len(buf) = SubnegoSize

(* The size of two bytes, when the low one is below 128. *)
ExactSize(high, low, size) ==
  2 * Digits[low] < ByteSize => size = Digits[high] * ByteSize + Digits[low]

(* The window the client has sent, and the one the shell knows. *)
WindowGood(w, win) ==
  ExactSize(w[2], w[3], win.ws_col) /\ ExactSize(w[4], w[5], win.ws_row)

(* Where the client is in the protocol, and the key map. *)
PlaceGood(at, sent, keymap, buf) ==
  \/ at = "text" /\ keymap \in {"normal", "escape_1", "escape_2"} /\ sent = <<>>
  \/ at = "iac" /\ keymap = "iac_1" /\ sent = <<>>
  \/ at = "opt" /\ keymap = "iac_2" /\ sent = <<>>
  \/ at = "sub" /\ keymap = "subnego" /\ SentGood(sent, buf)
  \/ at = "subiac" /\ keymap = "iac_1" /\ SentGood(sent, buf)
  \/ at = "astray" /\ sent = <<>>

(* The client and the shell. *)
TelnetGood(c, sh) ==
  /\ c = [at |-> c.at, sent |-> c.sent, window |-> c.window]
  /\ PlaceGood(c.at, c.sent, sh.keymap, sh.subnego_buf)
  /\ c.window # <<>> => WindowGood(c.window, sh.winsize)

(* Two bytes are put together as they were sent. *)
LEMMA UShortExact ==
  ASSUME NEW high \in DOMAIN Digits, NEW low \in DOMAIN Digits
  PROVE  ExactSize(high, low, UShort(high, low))
<1> SUFFICES ASSUME 2 * Digits[low] < ByteSize
             PROVE  UShort(high, low) = Digits[high] * ByteSize + Digits[low]
  BY DEF ExactSize
<1> DEFINE h == Digits[high]
           l == Digits[low]
           b == ByteSize
<1>1. /\ b \in Nat /\ b > 0 /\ h \in Nat /\ h < b /\ l \in Nat /\ l < b
  BY ShellAssumption
<1>2. Signed(l) = l /\ (Signed(h) = h \/ Signed(h) = h - b)
  BY <1>1 DEF Signed
<1>3. UShort(high, low) = (Signed(h) * b + Signed(l)) % (b * b)
  BY DEF UShort
<1> HIDE DEF h, l, b
<1>4. ASSUME NEW m \in Nat, m > 0, NEW y \in Nat, y < m
      PROVE  y % m = y /\ (y - m) % m = y
  <2>1. y % m = y
    BY <1>4
  <2>2. (y - m) % m = y
    BY <1>4
  <2>3. QED
    BY <2>1, <2>2
<1>5. h * b \in Nat /\ b * b \in Nat /\ h * b <= b * b - b /\ b * b > 0
  <2>1. ASSUME NEW x \in Nat, NEW z \in Nat PROVE x * z \in Nat
    BY <2>1
  <2>2. h * b \in Nat /\ b * b \in Nat
    BY <1>1, <2>1
  <2>3. b - h - 1 \in Nat
    BY <1>1
  <2>4. (b - h - 1) * b \in Nat
    BY <1>1, <2>1, <2>3
  <2>5. (b - h - 1) * b = b * b - h * b - b
    BY <1>1
  <2>6. QED
    BY <1>1, <2>2, <2>4, <2>5
<1>6. (h - b) * b + l = (h * b + l) - b * b
  BY <1>1
<1> DEFINE m == b * b
           y == h * b + l
<1>7. m \in Nat /\ m > 0 /\ y \in Nat /\ y < m
  BY <1>1, <1>5
<1>8. Signed(h) * b + Signed(l) = y \/ Signed(h) * b + Signed(l) = y - m
  BY <1>2, <1>6
<1> HIDE DEF m, y
<1>9. y % m = y /\ (y - m) % m = y
  BY <1>4, <1>7
<1>10. (Signed(h) * b + Signed(l)) % m = y
  BY <1>8, <1>9
<1>11. QED
  BY <1>3, <1>10 DEF m, y, h, b, l

(* A byte of a subnegotiation. *)
LEMMA SentByte ==
  ASSUME NEW sent, NEW buf, SentGood(sent, buf), NEW k \in SubBytes, NEW new,
         new = IF Len(buf) < SubnegoSize THEN Append(buf, k) ELSE buf
  PROVE  SentGood(Append(sent, k), new)
<1> DEFINE more == Append(sent, k)
<1>1. SubnegoSize \in Nat
  BY ShellAssumption
<1>2. /\ sent \in Seq(SubBytes) /\ buf \in Seq(SubBytes)
      /\ Len(sent) \in Nat /\ Len(buf) \in Nat
      /\ Len(sent) <= SubnegoSize => buf = sent
      /\ Len(sent) > SubnegoSize => Len(buf) = SubnegoSize
  BY DEF SentGood
<1>3. more \in Seq(SubBytes) /\ Len(more) = Len(sent) + 1
  BY <1>2
<1>4. /\ new \in Seq(SubBytes)
      /\ Len(more) <= SubnegoSize => new = more
      /\ Len(more) > SubnegoSize => Len(new) = SubnegoSize
  <2>1. CASE Len(sent) + 1 <= SubnegoSize
    <3>1. buf = sent /\ Len(buf) < SubnegoSize /\ ~ Len(more) > SubnegoSize
      BY <1>1, <1>2, <1>3, <2>1
    <3>2. new = more
      BY <3>1
    <3> HIDE DEF more
    <3>3. QED
      BY <1>3, <3>1, <3>2
  <2>2. CASE ~ (Len(sent) + 1 <= SubnegoSize)
    <3>1. Len(buf) = SubnegoSize
      BY <1>1, <1>2, <2>2
    <3>2. new = buf
      BY <1>1, <3>1
    <3>3. ~ (Len(more) <= SubnegoSize)
      BY <1>3, <2>2
    <3>4. QED
      BY <1>2, <3>1, <3>2, <3>3
  <2>3. QED
    BY <2>1, <2>2
<1> HIDE DEF more
<1>5. SentGood(more, new)
  BY <1>3, <1>4 DEF SentGood
<1>6. QED
  BY <1>5 DEF more

(* Five bytes kept are five bytes sent, and the other way round. *)
LEMMA FiveBytes ==
  ASSUME NEW sent, NEW buf, SentGood(sent, buf)
  PROVE  /\ (Len(buf) = 5 /\ buf[1] = "NAWS") <=> IsNaws(sent)
         /\ IsNaws(sent) => /\ buf = sent
                            /\ \A i \in 2 .. 5 : sent[i] \in DOMAIN Digits
<1>1. SubnegoSize \in Nat /\ SubnegoSize > 5
  BY ShellAssumption
<1>2. /\ Len(sent) \in Nat /\ Len(buf) \in Nat
      /\ \A i \in 1 .. Len(sent) : sent[i] \in DOMAIN Digits
  BY DEF SentGood, SubBytes
<1>3. Len(sent) = 5 => buf = sent
  BY <1>1 DEF SentGood
<1>4. Len(buf) = 5 => buf = sent
  <2>1. Len(buf) = 5 => ~ (Len(sent) > SubnegoSize)
    BY <1>1 DEF SentGood
  <2>2. QED
    BY <1>1, <1>2, <2>1 DEF SentGood
<1>5. IsNaws(sent) => \A i \in 2 .. 5 : sent[i] \in DOMAIN Digits
  BY <1>2 DEF IsNaws
<1>6. QED
  BY <1>3, <1>4, <1>5 DEF IsNaws

(* Up to five bytes are printed within subnego_str. *)
LEMMA FiveFit ==
  ASSUME NEW buf \in Seq(SubBytes), Len(buf) <= 5
  PROVE  Dumped(buf) <= DumpSize
<1> DEFINE all == DOMAIN buf
           nonzero == {i \in all : Digits[buf[i]] # 0}
           wide == {i \in all : Digits[buf[i]] >= Hex}
<1>1. Len(buf) \in Nat /\ all = 1 .. Len(buf)
  OBVIOUS
<1>2. IsFiniteSet(all) /\ Cardinality(all) = Len(buf)
  <2> DEFINE n == Len(buf)
  <2>1. n \in Int /\ 1 \in Int /\ n >= 0
    BY <1>1
  <2> HIDE DEF n, all
  <2>2. /\ IsFiniteSet(1 .. n)
        /\ Cardinality(1 .. n) = IF 1 > n THEN 0 ELSE n - 1 + 1
    BY <2>1, FS_Interval
  <2>3. Cardinality(1 .. n) = n
    BY <2>1, <2>2
  <2>4. QED
    BY <1>1, <2>2, <2>3 DEF n
<1>3. nonzero \subseteq all /\ wide \subseteq all
  OBVIOUS
<1> HIDE DEF all
<1>4. Dumped(buf) = (IF Len(buf) < 10 THEN 8 ELSE IF Len(buf) < 100 THEN 9 ELSE 10)
                      + 2 * Len(buf) + 2 * Cardinality(nonzero) + Cardinality(wide)
  BY DEF Dumped, all
<1> HIDE DEF nonzero, wide
<1>5. /\ Cardinality(nonzero) \in Nat /\ Cardinality(nonzero) <= Len(buf)
      /\ Cardinality(wide) \in Nat /\ Cardinality(wide) <= Len(buf)
  BY <1>2, <1>3, FS_Subset, FS_CardinalityType
<1>6. DumpSize \in Nat /\ DumpSize >= 8 + 5 * 5
  BY ShellAssumption
<1>7. QED
  BY <1>1, <1>4, <1>5, <1>6

(* What does not fit is longer, kept or sent. *)
LEMMA LongSent ==
  ASSUME NEW sent, NEW buf, SentGood(sent, buf), ~ (Dumped(buf) <= DumpSize)
  PROVE  Len(sent) > 5
<1>1. SubnegoSize \in Nat /\ SubnegoSize > 5
  BY ShellAssumption
<1>2. buf \in Seq(SubBytes) /\ Len(sent) \in Nat
  BY DEF SentGood
<1>3. ~ (Len(buf) <= 5)
  BY <1>2, FiveFit
<1>4. Len(sent) <= SubnegoSize => buf = sent
  BY DEF SentGood
<1>5. QED
  BY <1>1, <1>2, <1>3, <1>4

(* The buffer of a subnegotiation assigned. *)
Buffered(s, u) == [s EXCEPT !.sh.subnego_buf = u]

(* It leaves the line and the screen alone. *)
LEMMA BufferedGood ==
  ASSUME NEW s, Good(s), NEW u
  PROVE  LET t == Buffered(s, u)
         IN  /\ Good(t) /\ t.sh.subnego_buf = u /\ t.sh.keymap = s.sh.keymap
             /\ t.sh.history = s.sh.history /\ t.sh.winsize = s.sh.winsize
<1> DEFINE t == Buffered(s, u)
<1>1. IsState(s)
  BY GoodParts, Zenon
<1>2. Is(t, s.sh.line, s.sh.nul, s.sh.size, s.sh.cursor, s.sh.cut_buffer, s.sh.keymap,
         s.sh.history, u, s.sh.winsize, s.sh.is_paging, s.tty, s.failed)
  BY <1>1, Updates DEF IsState, Buffered
<1> HIDE DEF t
<1>3. /\ IsState(t) /\ SameLine(t, s) /\ t.tty = s.tty
      /\ t.sh.subnego_buf = u /\ t.sh.keymap = s.sh.keymap
      /\ t.sh.history = s.sh.history /\ t.sh.winsize = s.sh.winsize
  BY <1>2, Fields DEF SameLine
<1>4. Good(t)
  BY <1>3, SameGood
<1>5. QED
  BY <1>3, <1>4 DEF t

(* The log of an option or of a subnegotiation goes to the terminal. *)
LEMMA LoggedGood ==
  ASSUME NEW s, Good(s)
  PROVE  LET t == Redrawn(s, Lost) IN Good(t) /\ t.sh = s.sh
<1> DEFINE t == Redrawn(s, Lost)
<1>1. LineGood(s)
  BY DEF Good
<1>2. LineGood(t) /\ t.sh = s.sh /\ t.tty = Lost
  BY <1>1, RedrawnGood
<1> HIDE DEF t
<1>3. Good(t)
  BY <1>2, LostGood
<1>4. QED
  BY <1>2, <1>3 DEF t

(* The start of a subnegotiation. *)
LEMMA SbStartGood ==
  ASSUME NEW s, Good(s)
  PROVE  LET t == SbStart(s)
         IN  /\ Good(t) /\ t.sh.keymap = "subnego" /\ t.sh.subnego_buf = <<>>
             /\ t.sh.history = s.sh.history /\ t.sh.winsize = s.sh.winsize
<1> DEFINE m == Mapped(s, "subnego")
           b == Buffered(m, <<>>)
           t == SbStart(s)
<1>1. /\ Good(m) /\ m.sh.keymap = "subnego" /\ m.sh.history = s.sh.history
      /\ m.sh.winsize = s.sh.winsize
  BY MappedGood
<1>2. t = Redrawn(b, Lost)
  BY DEF SbStart, Redrawn, Buffered
<1> HIDE DEF m, t
<1>3. /\ Good(b) /\ b.sh.subnego_buf = <<>> /\ b.sh.keymap = m.sh.keymap
      /\ b.sh.history = m.sh.history /\ b.sh.winsize = m.sh.winsize
  BY <1>1, BufferedGood
<1> HIDE DEF b
<1>4. Good(t) /\ t.sh = b.sh
  BY <1>2, <1>3, LoggedGood
<1>5. QED
  BY <1>1, <1>3, <1>4 DEF t

(* A byte of it. *)
LEMMA SbByteGood ==
  ASSUME NEW s, Good(s), NEW k
  PROVE  LET t == SbByte(s, k)
             b == s.sh.subnego_buf
         IN  /\ Good(t) /\ t.sh.keymap = s.sh.keymap
             /\ t.sh.subnego_buf = IF Len(b) < SubnegoSize THEN Append(b, k) ELSE b
             /\ t.sh.history = s.sh.history /\ t.sh.winsize = s.sh.winsize
<1> DEFINE b == s.sh.subnego_buf
           u == Append(b, k)
           t == SbByte(s, k)
<1>1. CASE Len(b) < SubnegoSize
  <2>1. t = Buffered(s, u)
    BY <1>1 DEF SbByte, Buffered
  <2> HIDE DEF t, u
  <2>2. /\ Good(t) /\ t.sh.subnego_buf = u /\ t.sh.keymap = s.sh.keymap
        /\ t.sh.history = s.sh.history /\ t.sh.winsize = s.sh.winsize
    BY <2>1, BufferedGood
  <2>3. QED
    BY <1>1, <2>2 DEF t, u
<1>2. CASE ~ (Len(b) < SubnegoSize)
  <2>1. t = s
    BY <1>2 DEF SbByte
  <2> HIDE DEF t
  <2>2. QED
    BY <1>2, <2>1 DEF t
<1>3. QED
  BY <1>1, <1>2

(* The window size and the screen assigned. *)
Sized(s, w, y) == [s EXCEPT !.sh.winsize = w, !.tty = y]

(* They leave the line alone. *)
LEMMA SizedGood ==
  ASSUME NEW s, LineGood(s), NEW w, NEW y
  PROVE  LET t == Sized(s, w, y)
         IN  /\ LineGood(t) /\ t.tty = y /\ t.sh.winsize = w
             /\ t.sh.keymap = s.sh.keymap /\ t.sh.history = s.sh.history
<1> DEFINE t == Sized(s, w, y)
<1>1. IsState(s)
  BY DEF LineGood
<1>2. Is(t, s.sh.line, s.sh.nul, s.sh.size, s.sh.cursor, s.sh.cut_buffer, s.sh.keymap,
         s.sh.history, s.sh.subnego_buf, w, s.sh.is_paging, y, s.failed)
  BY <1>1, Updates DEF IsState, Sized
<1> HIDE DEF t
<1>3. /\ IsState(t) /\ SameLine(t, s) /\ t.tty = y /\ t.sh.winsize = w
      /\ t.sh.keymap = s.sh.keymap /\ t.sh.history = s.sh.history
  BY <1>2, Fields DEF SameLine
<1>4. LineGood(t)
  BY <1>3, SameGood
<1>5. QED
  BY <1>3, <1>4 DEF t

(* The end of a subnegotiation. *)
LEMMA SbEndGood ==
  ASSUME NEW s, Good(s)
  PROVE  LET t == SbEnd(s)
             b == s.sh.subnego_buf
             naws == Len(b) = 5 /\ b[1] = "NAWS"
         IN  /\ Good(t) /\ t.sh.keymap = "normal" /\ t.sh.history = s.sh.history
             /\ naws => /\ t.sh.winsize.ws_col = UShort(b[2], b[3])
                        /\ t.sh.winsize.ws_row = UShort(b[4], b[5])
             /\ ~naws => t.sh.winsize = s.sh.winsize
<1> DEFINE t == SbEnd(s)
           b == s.sh.subnego_buf
           naws == Len(b) = 5 /\ b[1] = "NAWS"
           size == [ws_col |-> UShort(b[2], b[3]), ws_row |-> UShort(b[4], b[5])]
           w == IF naws THEN size ELSE s.sh.winsize
           m == Mapped(s, "normal")
           z == Sized(m, w, Blank)
<1>1. /\ Good(m) /\ m.sh.keymap = "normal" /\ m.sh.history = s.sh.history
      /\ m.sh.winsize = s.sh.winsize
  BY MappedGood
<1>2. z = [m EXCEPT !.sh.winsize = IF naws THEN size ELSE @, !.tty = Blank]
  <2>1. IsState(m)
    BY <1>1, GoodParts, Zenon
  <2> HIDE DEF m, naws, size
  <2>2. QED
    BY <1>1, <2>1 DEF Sized, IsState, Is
<1>3. t = shell_refresh(z)
  <2> HIDE DEF z
  <2>1. QED
    BY <1>2 DEF SbEnd
<1>4. /\ naws => w.ws_col = UShort(b[2], b[3]) /\ w.ws_row = UShort(b[4], b[5])
      /\ ~naws => w = s.sh.winsize
  <2> HIDE DEF naws
  <2>1. QED
    OBVIOUS
<1> HIDE DEF m, w, t, naws
<1>5. LineGood(z) /\ z.tty = Blank /\ z.sh.winsize = w /\ z.sh.keymap = m.sh.keymap /\ z.sh.history = m.sh.history
  <2>1. LineGood(m)
    BY <1>1 DEF Good
  <2>2. QED
    BY <2>1, SizedGood
<1> HIDE DEF z
<1>6. Good(t) /\ t.sh = z.sh
  BY <1>3, <1>5, RefreshGood
<1>7. QED
  BY <1>1, <1>4, <1>5, <1>6 DEF t, naws

-----------------------------------------------------------------------------
(* Only a subnegotiation longer than a window size overruns its dump. *)
DumpGood == overrun /\ client.at # "astray" => Len(client.sent) > 5

(* The inductive invariant. *)
Inv ==
  /\ Good(State)
  /\ HistoryGood(shell.history, executed)
  /\ TelnetGood(client, shell)
  /\ DumpGood

(* The key maps of typed text. *)
TextMaps == {"normal", "escape_1", "escape_2"}

(* It holds initially. *)
LEMMA InitGood == Init => Inv
<1> SUFFICES ASSUME Init PROVE Inv
  OBVIOUS
<1> DEFINE s == State
           win == [ws_col |-> 0, ws_row |-> 0]
           h == NewHistory
           none == <<>>
           yes == TRUE
           no == FALSE
           normal == "normal"
           zero == 0
<1>1. Is(s, none, yes, InitialSize, zero, EMPTY, normal, h, none, win, no, Blank, no)
  BY DEF Init, State, Is
<1>2. s.sh = shell /\ client = [at |-> "text", sent |-> <<>>, window |-> <<>>] /\ executed = <<>>
  BY DEF Init, State
<1> HIDE DEF s, win, h, none, yes, no, normal, zero
<1>a. /\ s.sh.line = none /\ s.sh.nul = yes /\ s.sh.size = InitialSize /\ s.sh.cursor = zero
      /\ s.sh.cut_buffer = EMPTY /\ s.sh.keymap = normal /\ s.sh.history = h
      /\ s.tty = Blank /\ s.failed = no /\ IsState(s)
  BY <1>1, Fields
<1>3. /\ s.sh.line = <<>> /\ s.sh.nul = TRUE /\ s.sh.size = InitialSize /\ s.sh.cursor = 0
      /\ s.sh.cut_buffer = EMPTY /\ s.sh.keymap = "normal" /\ s.sh.history = h
      /\ s.tty = Blank /\ s.failed = FALSE /\ IsState(s)
  BY <1>a, Zenon DEF none, yes, no, normal, zero
<1>4. Good(s)
  <2>1. s.sh.line \in Seq(Printable) /\ Len(s.sh.line) = 0
    BY <1>3
  <2>2. /\ s.sh.cursor \in 0 .. Len(s.sh.line)
        /\ s.sh.size \in Nat /\ Len(s.sh.line) < s.sh.size
    BY <1>3, <2>1, ShellAssumption
  <2>3. LineGood(s)
    BY <1>3, <2>1, <2>2 DEF LineGood
  <2>4. QED
    BY <1>3, <2>3, BlankScreen DEF Good
<1>5. HistoryGood(h, <<>>)
  <2> DEFINE ex == <<>>
  <2>1. ex \in Seq(Seq(Printable)) /\ Len(ex) = 0
    OBVIOUS
  <2> HIDE DEF ex
  <2>2. 0 \in Slots /\ HISTORY_SIZE \in Nat /\ HISTORY_SIZE >= 3
    BY HistoryAssumption DEF Slots
  <2>3. Held(ex) = 0
    BY <2>1, <2>2 DEF Held
  <2>4. /\ h = [array |-> h.array, last |-> h.last, current |-> h.current]
        /\ h.array = [i \in Slots |-> EMPTY] /\ h.last = 0 /\ h.current = 0
    BY DEF NewHistory, h
  <2>5. ASSUME NEW i \in 0 .. HISTORY_SIZE - 1
        PROVE  ~ i < Held(ex) /\ h.array[Ago(0, i)] = EMPTY
    <3>1. Ago(0, i) \in Slots
      BY <2>2, AgoFacts
    <3>2. QED
      BY <2>2, <2>3, <2>4, <3>1
  <2>6. Ring(h.array, 0, ex)
    BY <2>1, <2>2, <2>4, <2>5 DEF Ring
  <2>7. Walk(h.current, 0, ex)
    BY <2>3, <2>4 DEF Walk
  <2>8. HistoryGood(h, ex)
    BY <2>4, <2>6, <2>7 DEF HistoryGood
  <2>9. QED
    BY <2>8 DEF ex
<1>6. TelnetGood(client, shell)
  BY <1>2, <1>3 DEF TelnetGood, PlaceGood
<1>7. DumpGood
  BY DEF Init, DumpGood
<1>8. QED
  BY <1>2, <1>3, <1>4, <1>5, <1>6, <1>7 DEF Inv, s

(* A step to a state with the three parts of the invariant. *)
LEMMA StepGood ==
  ASSUME NEW t, Good(t), Becomes(t), HistoryGood(t.sh.history, executed'),
         TelnetGood(client', t.sh)
  PROVE  Inv'
<1>1. shell' = t.sh /\ terminal' = t.tty /\ failed' = t.failed
  BY DEF Becomes
<1>2. IsState(t)
  BY GoodParts, Zenon
<1>3. t = [sh |-> t.sh, tty |-> t.tty, failed |-> t.failed]
  BY <1>2 DEF IsState, Is
<1>4. State' = t
  BY <1>1, <1>3 DEF State
<1>5. Good(State)'
  <2>1. Good(State') <=> Good(State)'
    BY DEF Good, LineGood, IsState, Is, Screen, Tty
  <2>2. QED
    BY <1>4, <2>1
<1>6. HistoryGood(shell.history, executed)'
  BY <1>1 DEF HistoryGood, Ring, Walk
<1>7. TelnetGood(client, shell)'
  BY <1>1 DEF TelnetGood, PlaceGood, SentGood, WindowGood, ExactSize
<1>8. DumpGood'
  BY DEF Becomes, DumpGood
<1>9. QED
  BY <1>5, <1>6, <1>7, <1>8 DEF Inv

(* The fields of State. *)
LEMMA StateFields ==
  State.sh = shell /\ State.tty = terminal /\ State.failed = failed
BY DEF State

(* A key of the line editor. *)
LEMMA EditGood ==
  ASSUME Inv, NEW t, Good(t), Edit(t), SameRest(t, State)
  PROVE  Inv'
<1>1. /\ t.sh.keymap = shell.keymap /\ t.sh.history = shell.history
      /\ t.sh.subnego_buf = shell.subnego_buf /\ t.sh.winsize = shell.winsize
  BY StateFields DEF SameRest
<1>2. Becomes(t) /\ executed' = executed /\ client' = client
  BY DEF Edit
<1>3. HistoryGood(t.sh.history, executed')
  BY <1>1, <1>2 DEF Inv
<1>4. TelnetGood(client', t.sh)
  BY <1>1, <1>2 DEF Inv, TelnetGood
<1>5. QED
  BY <1>2, <1>3, <1>4, StepGood

(* Outside the telnet protocol only the window size matters to it. *)
LEMMA TextGood ==
  ASSUME Inv, shell.keymap \in TextMaps, NEW t, t.sh.keymap \in TextMaps,
         t.sh.winsize = shell.winsize
  PROVE  TelnetGood(client, t.sh)
<1>1. client.at \in {"text", "astray"} /\ client.sent = <<>>
  BY DEF Inv, TelnetGood, PlaceGood, TextMaps
<1>2. PlaceGood(client.at, client.sent, t.sh.keymap, t.sh.subnego_buf)
  BY <1>1 DEF PlaceGood, TextMaps
<1>3. QED
  BY <1>2 DEF Inv, TelnetGood

(* A key that may change the key map or the history. *)
LEMMA TextEdit ==
  ASSUME Inv, NEW t, Good(t), Becomes(t), client' = client,
         shell.keymap \in TextMaps, t.sh.keymap \in TextMaps,
         t.sh.winsize = shell.winsize, HistoryGood(t.sh.history, executed')
  PROVE  Inv'
<1>1. TelnetGood(client', t.sh)
  BY TextGood
<1>2. QED
  BY <1>1, StepGood

-----------------------------------------------------------------------------
(* One lemma per group of keys. The editing keys. *)
LEMMA EditingKeys ==
  ASSUME Inv,
         \/ shell_input_char \/ shell_keyfunc_move_to_begin
         \/ shell_keyfunc_backward_char \/ shell_keyfunc_delete_char
         \/ shell_keyfunc_move_to_end \/ shell_keyfunc_forward_char
         \/ shell_keyfunc_backspace \/ shell_keyfunc_delete_char_advanced
         \/ shell_keyfunc_kill_line \/ shell_keyfunc_kill_all
         \/ shell_keyfunc_yank \/ shell_keyfunc_delete_word_backward
  PROVE  Inv'
<1> DEFINE s == State
<1>1. Good(s) /\ s.sh = shell
  BY StateFields DEF Inv
<1> HIDE DEF s
<1>2. /\ shell.line \in Seq(Printable) /\ Len(shell.line) \in Nat
      /\ shell.cursor \in 0 .. Len(shell.line) /\ shell.cursor \in Nat
      /\ shell.cut_buffer \in Seq(Printable) \cup {EMPTY}
  <2>1. /\ s.sh.line \in Seq(Printable) /\ Len(s.sh.line) \in Nat
        /\ s.sh.cursor \in 0 .. Len(s.sh.line) /\ s.sh.cursor \in Nat
        /\ s.sh.cut_buffer \in Seq(Printable) \cup {EMPTY}
    BY <1>1, GoodParts, Zenon
  <2>2. QED
    BY <1>1, <2>1
<1>3. ASSUME NEW t, Good(t), SameRest(t, s), Edit(t) PROVE Inv'
  BY <1>3, EditGood DEF s
<1>4. CASE shell_input_char
  <2>1. PICK ch \in Printable : Edit(shell_insert(s, <<ch>>))
    BY <1>4 DEF shell_input_char, s
  <2> DEFINE str == <<ch>>
             t == shell_insert(s, str)
  <2>2. str \in Seq(Printable)
    OBVIOUS
  <2> HIDE DEF str
  <2>3. Good(t) /\ SameRest(t, s)
    BY <1>1, <2>2, InsertGood
  <2>4. Edit(t)
    BY <2>1 DEF str
  <2> HIDE DEF t
  <2>5. QED
    BY <1>3, <2>3, <2>4
<1>5. CASE shell_keyfunc_move_to_begin
  <2> DEFINE t == shell_backward(s, shell.cursor)
  <2>1. Good(t) /\ SameRest(t, s)
    BY <1>1, <1>2, BackwardGood
  <2>2. Edit(t)
    BY <1>5 DEF shell_keyfunc_move_to_begin, s
  <2> HIDE DEF t
  <2>3. QED
    BY <1>3, <2>1, <2>2
<1>6. CASE shell_keyfunc_backward_char
  <2> DEFINE t == shell_backward(s, 1)
  <2>1. Good(t) /\ SameRest(t, s)
    BY <1>1, BackwardGood
  <2>2. Edit(t)
    BY <1>6 DEF shell_keyfunc_backward_char, s
  <2> HIDE DEF t
  <2>3. QED
    BY <1>3, <2>1, <2>2
<1>7. ASSUME NEW a \in Nat, NEW b \in Nat, a <= b, b <= Len(shell.line), a <= shell.cursor,
             Edit(shell_delete_string(s, a, b))
      PROVE  Inv'
  <2> DEFINE t == shell_delete_string(s, a, b)
  <2>1. Good(t) /\ SameRest(t, s)
    BY <1>1, <1>7, DeleteGood
  <2>2. Edit(t)
    BY <1>7
  <2> HIDE DEF t
  <2>3. QED
    BY <1>3, <2>1, <2>2
<1>8. CASE shell_keyfunc_delete_char
  <2>1. /\ shell.cursor < Len(shell.line)
        /\ Edit(shell_delete_string(s, shell.cursor, shell.cursor + 1))
    BY <1>8 DEF shell_keyfunc_delete_char, s
  <2>2. /\ shell.cursor + 1 \in Nat /\ shell.cursor <= shell.cursor + 1
        /\ shell.cursor + 1 <= Len(shell.line) /\ shell.cursor <= shell.cursor
    BY <1>2, <2>1
  <2>3. QED
    BY <1>2, <1>7, <2>1, <2>2
<1>9. CASE shell_keyfunc_move_to_end
  <2> DEFINE n == Len(shell.line) - shell.cursor
             t == shell_forward(s, n)
  <2>1. n \in Nat
    BY <1>2
  <2>2. Edit(t)
    BY <1>9 DEF shell_keyfunc_move_to_end, s
  <2> HIDE DEF n
  <2>3. Good(t) /\ SameRest(t, s)
    BY <1>1, <2>1, ForwardGood
  <2> HIDE DEF t
  <2>4. QED
    BY <1>3, <2>2, <2>3
<1>10. CASE shell_keyfunc_forward_char
  <2> DEFINE t == shell_forward(s, 1)
  <2>1. Good(t) /\ SameRest(t, s)
    BY <1>1, ForwardGood
  <2>2. Edit(t)
    BY <1>10 DEF shell_keyfunc_forward_char, s
  <2> HIDE DEF t
  <2>3. QED
    BY <1>3, <2>1, <2>2
<1>11. CASE shell_keyfunc_backspace
  <2> DEFINE back == shell_backward(s, 1)
             c == back.sh.cursor
             t == shell_delete_string(back, c, c + 1)
  <2>1. shell.cursor > 0 /\ Edit(t)
    BY <1>11 DEF shell_keyfunc_backspace, s
  <2>2. /\ Good(back) /\ SameRest(back, s) /\ back.sh.line = s.sh.line
        /\ 1 <= s.sh.cursor => back.sh.cursor = s.sh.cursor - 1
    BY <1>1, BackwardGood
  <2> HIDE DEF back
  <2>3. c = shell.cursor - 1 /\ back.sh.line = shell.line
    <3>1. 1 <= shell.cursor
      BY <1>2, <2>1
    <3>2. QED
      BY <1>1, <2>2, <3>1
  <2> DEFINE d == c + 1
  <2>4. c \in Nat /\ d \in Nat /\ c <= d /\ c <= c /\ d <= Len(shell.line)
    BY <1>2, <2>1, <2>3
  <2>5. t = shell_delete_string(back, c, d)
    OBVIOUS
  <2> HIDE DEF d, t
  <2>6. Good(t) /\ SameRest(t, back)
    BY <2>2, <2>3, <2>4, <2>5, DeleteGood
  <2>7. SameRest(t, s)
    BY <2>2, <2>6 DEF SameRest
  <2>8. QED
    BY <1>3, <2>1, <2>6, <2>7
<1>12. CASE shell_keyfunc_delete_char_advanced
  <2>1. CASE /\ shell.cursor < Len(shell.line)
             /\ Edit(shell_delete_string(s, shell.cursor, shell.cursor + 1))
    <3>1. /\ shell.cursor + 1 \in Nat /\ shell.cursor <= shell.cursor + 1
          /\ shell.cursor + 1 <= Len(shell.line) /\ shell.cursor <= shell.cursor
      BY <1>2, <2>1
    <3>2. QED
      BY <1>2, <1>7, <2>1, <3>1
  <2>2. CASE /\ shell.cursor = Len(shell.line) /\ shell.line # <<>>
             /\ Edit(shell_delete_string(s, Len(shell.line) - 1, Len(shell.line)))
    <3> DEFINE a == Len(shell.line) - 1
               b == Len(shell.line)
    <3>1. a \in Nat /\ b \in Nat /\ a <= b /\ b <= Len(shell.line) /\ a <= shell.cursor
      BY <1>2, <2>2
    <3>2. Edit(shell_delete_string(s, a, b))
      BY <2>2
    <3> HIDE DEF a, b
    <3>3. QED
      BY <1>7, <3>1, <3>2
  <2>3. QED
    BY <1>12, <2>1, <2>2 DEF shell_keyfunc_delete_char_advanced, s
<1>13. CASE shell_keyfunc_kill_line
  <2> DEFINE t == KillLine(s)
  <2>1. Good(t) /\ SameRest(t, s)
    BY <1>1, KillLineGood
  <2>2. Edit(t)
    BY <1>13 DEF shell_keyfunc_kill_line, s
  <2> HIDE DEF t
  <2>3. QED
    BY <1>3, <2>1, <2>2
<1>14. CASE shell_keyfunc_kill_all
  <2> DEFINE t == KillAll(s)
  <2>1. Good(t) /\ SameRest(t, s)
    BY <1>1, KillAllGood
  <2>2. Edit(t)
    BY <1>14 DEF shell_keyfunc_kill_all, s
  <2> HIDE DEF t
  <2>3. QED
    BY <1>3, <2>1, <2>2
<1>15. CASE shell_keyfunc_yank
  <2> DEFINE str == s.sh.cut_buffer
             t == shell_insert(s, str)
  <2>1. str \in Seq(Printable)
    BY <1>1, <1>2, <1>15 DEF shell_keyfunc_yank
  <2>2. Edit(t)
    BY <1>15 DEF shell_keyfunc_yank, Yank, s
  <2> HIDE DEF str
  <2>3. Good(t) /\ SameRest(t, s)
    BY <1>1, <2>1, InsertGood
  <2> HIDE DEF t
  <2>4. QED
    BY <1>3, <2>2, <2>3
<1>16. CASE shell_keyfunc_delete_word_backward
  <2> DEFINE t == shell_delete_word_backward(s)
  <2>1. Good(t) /\ SameRest(t, s)
    BY <1>1, DeleteWordGood
  <2>2. Edit(t)
    BY <1>16 DEF shell_keyfunc_delete_word_backward, s
  <2> HIDE DEF t
  <2>3. QED
    BY <1>3, <2>1, <2>2
<1>17. QED
  BY <1>4, <1>5, <1>6, <1>8, <1>9, <1>10, <1>11, <1>12, <1>13, <1>14, <1>15, <1>16

(* A line shown again on a blank terminal. *)
LEMMA ShownAgain ==
  ASSUME NEW s, LineGood(s)
  PROVE  LET t == shell_refresh(Redrawn(s, Blank)) IN Good(t) /\ SameRest(t, s)
<1> DEFINE r == Redrawn(s, Blank)
           t == shell_refresh(r)
<1>1. LineGood(r) /\ SameRest(r, s) /\ r.tty = Blank
  BY RedrawnGood
<1> HIDE DEF r
<1>2. Good(t) /\ SameRest(t, r)
  BY <1>1, RefreshGood
<1> HIDE DEF t
<1>3. QED
  BY <1>1, <1>2 DEF SameRest, t, r

(* What '?' shows before it lists the candidates. *)
LEMMA ListedGood ==
  ASSUME NEW s, Good(s)
  PROVE  LET end == shell_refresh([s EXCEPT !.sh.cursor = Len(s.sh.line)])
             f == shell_format(end)
         IN  LineGood(f) /\ SameRest(f, s)
<1> DEFINE n == Len(s.sh.line)
           m == [s EXCEPT !.sh.cursor = n]
           end == shell_refresh(m)
           f == shell_format(end)
<1>1. IsState(s) /\ LineGood(s) /\ n \in 0 .. Len(s.sh.line)
  BY DEF Good, LineGood
<1> HIDE DEF n
<1>2. Is(m, s.sh.line, s.sh.nul, s.sh.size, n, s.sh.cut_buffer, s.sh.keymap,
         s.sh.history, s.sh.subnego_buf, s.sh.winsize, s.sh.is_paging, s.tty, s.failed)
  <2>1. IsState(s)
    BY <1>1
  <2>2. QED
    BY <2>1, Updates DEF IsState
<1> HIDE DEF m
<1>3. /\ IsState(m) /\ SameRest(m, s)
      /\ m.sh.nul = s.sh.nul /\ m.sh.line = s.sh.line /\ m.sh.size = s.sh.size
      /\ m.sh.cursor = n /\ m.sh.cut_buffer = s.sh.cut_buffer /\ m.failed = s.failed
  BY <1>2, Fields DEF SameRest
<1>4. LineGood(m)
  BY <1>1, <1>3 DEF LineGood
<1>5. IsState(end) /\ end.sh = m.sh /\ end.failed = m.failed
  BY <1>3, RefreshIs
<1> HIDE DEF end
<1>6. LineGood(end) /\ SameRest(end, m)
  BY <1>4, <1>5 DEF LineGood, SameRest
<1>7. LineGood(f) /\ SameRest(f, end)
  BY <1>6, FormatGood
<1> HIDE DEF f
<1>8. SameRest(f, s)
  BY <1>3, <1>6, <1>7 DEF SameRest
<1>9. QED
  BY <1>7, <1>8 DEF f, end, m, n

(* The keys that show the line again, and the completion. *)
LEMMA ShowingKeys ==
  ASSUME Inv,
         \/ shell_keyfunc_refresh \/ shell_keyfunc_clear_terminal
         \/ command_shell_completion \/ command_shell_ls_candidate
  PROVE  Inv'
<1> DEFINE s == State
<1>1. Good(s) /\ LineGood(s) /\ s.sh = shell
  BY StateFields DEF Inv, Good
<1> HIDE DEF s
<1>2. ASSUME NEW t, Good(t), SameRest(t, s), Edit(t) PROVE Inv'
  BY <1>2, EditGood DEF s
<1>3. ASSUME NEW f, LineGood(f), SameRest(f, s), Edit(shell_refresh(Redrawn(f, Blank)))
      PROVE  Inv'
  <2> DEFINE t == shell_refresh(Redrawn(f, Blank))
  <2>1. Good(t) /\ SameRest(t, f) /\ Edit(t)
    BY <1>3, ShownAgain
  <2> HIDE DEF t
  <2>2. SameRest(t, s)
    BY <1>3, <2>1 DEF SameRest
  <2>3. QED
    BY <1>2, <2>1, <2>2
<1>4. SameRest(s, s)
  BY DEF SameRest
<1>5. CASE shell_keyfunc_refresh
  <2> DEFINE f == shell_format(s)
  <2>1. LineGood(f) /\ SameRest(f, s)
    BY <1>1, FormatGood
  <2>2. Edit(shell_refresh(Redrawn(f, Blank)))
    BY <1>5 DEF shell_keyfunc_refresh, Redrawn, shell_linefeed, s
  <2> HIDE DEF f
  <2>3. QED
    BY <1>3, <2>1, <2>2
<1>6. CASE shell_keyfunc_clear_terminal
  <2>1. Edit(shell_refresh(Redrawn(s, Blank)))
    BY <1>6 DEF shell_keyfunc_clear_terminal, Redrawn, s
  <2>2. QED
    BY <1>1, <1>3, <1>4, <2>1
<1>7. CASE command_shell_completion
  <2> DEFINE i == shell_word_end(s.sh.line, s.sh.cursor)
             m == shell_moveto(s, i)
  <2>1. Edit(m) \/ \E c \in Completions : Edit(shell_insert(m, c))
    BY <1>1, <1>7 DEF command_shell_completion, s
  <2>2. i \in 0 .. Len(s.sh.line)
    <3>1. s.sh.line \in Seq(Printable) /\ s.sh.cursor \in 0 .. Len(s.sh.line)
      BY <1>1, GoodParts, Zenon
    <3>2. QED
      BY <3>1, WordEndIs
  <2> HIDE DEF i
  <2>3. Good(m) /\ SameRest(m, s)
    BY <1>1, <2>2, MovetoGood
  <2> HIDE DEF m
  <2>4. ASSUME NEW c \in Completions, Edit(shell_insert(m, c)) PROVE Inv'
    <3> DEFINE t == shell_insert(m, c)
    <3>1. c \in Seq(Printable)
      BY ShellAssumption
    <3>2. Good(t) /\ SameRest(t, m) /\ Edit(t)
      BY <2>3, <2>4, <3>1, InsertGood
    <3> HIDE DEF t
    <3>3. SameRest(t, s)
      BY <2>3, <3>2 DEF SameRest
    <3>4. QED
      BY <1>2, <3>2, <3>3
  <2>5. QED
    BY <1>2, <2>1, <2>3, <2>4
<1>8. CASE command_shell_ls_candidate
  <2> DEFINE end == shell_refresh([s EXCEPT !.sh.cursor = Len(s.sh.line)])
             f == shell_format(end)
  <2>1. CASE shell.cursor = Len(shell.line)
    <3>1. Edit(shell_refresh(Redrawn(s, Blank)))
      BY <1>8, <2>1 DEF command_shell_ls_candidate, Redrawn, shell_linefeed, s
    <3>2. QED
      BY <1>1, <1>3, <1>4, <3>1
  <2>2. CASE shell.cursor # Len(shell.line)
    <3> DEFINE r == Redrawn(f, Blank)
    <3>1. LineGood(f) /\ SameRest(f, s)
      BY <1>1, ListedGood
    <3>2. Edit(shell_refresh(Redrawn(r, Blank)))
      BY <1>1, <1>8, <2>2 DEF command_shell_ls_candidate, Redrawn, shell_linefeed, s
    <3> HIDE DEF end, f
    <3>3. LineGood(r) /\ SameRest(r, f)
      BY <3>1, RedrawnGood
    <3> HIDE DEF r
    <3>4. SameRest(r, s)
      BY <3>1, <3>3 DEF SameRest
    <3>5. QED
      BY <1>3, <3>2, <3>3, <3>4
  <2>3. QED
    BY <2>1, <2>2
<1>9. QED
  BY <1>5, <1>6, <1>7, <1>8

(* A step after which the client is astray. *)
LEMMA StrayStep ==
  ASSUME Inv, NEW t, Good(t), Becomes(t), executed' = executed,
         t.sh.history = shell.history, client' = Astray
  PROVE  Inv'
<1>1. HistoryGood(t.sh.history, executed')
  BY DEF Inv
<1>2. TelnetGood(client', t.sh)
  BY DEF TelnetGood, PlaceGood, Astray
<1>3. QED
  BY <1>1, <1>2, StepGood

(* The keys of the escape maps, and the walk through the history. *)
LEMMA EscapeKeys ==
  ASSUME Inv,
         \/ vty_shell_keyfunc_escape \/ vty_shell_move_word_backward
         \/ vty_shell_move_word_forward \/ vty_shell_delete_word_backward
         \/ vty_shell_keyfunc_normal
         \/ command_history_prev \/ command_history_next
  PROVE  Inv'
<1> DEFINE s == State
<1>1. Good(s) /\ s.sh = shell /\ HistoryGood(shell.history, executed)
  BY StateFields DEF Inv
<1> HIDE DEF s
<1>2. s.sh.line \in Seq(Printable) /\ s.sh.cursor \in 0 .. Len(s.sh.line)
  BY <1>1, GoodParts, Zenon
<1>3. ASSUME NEW r, Good(r), SameRest(r, s), NEW map \in TextMaps,
             shell.keymap \in TextMaps, Edit(Mapped(r, map))
      PROVE  Inv'
  <2> DEFINE t == Mapped(r, map)
  <2>1. /\ Good(t) /\ t.sh.keymap = map /\ t.sh.history = r.sh.history
        /\ t.sh.winsize = r.sh.winsize
    BY <1>3, MappedGood
  <2>2. Becomes(t) /\ client' = client /\ executed' = executed
    BY <1>3 DEF Edit
  <2> HIDE DEF t
  <2>3. t.sh.winsize = shell.winsize /\ HistoryGood(t.sh.history, executed')
    BY <1>1, <1>3, <2>1, <2>2 DEF SameRest
  <2>4. QED
    BY <1>3, <2>1, <2>2, <2>3, TextEdit
<1>4. SameRest(s, s)
  BY DEF SameRest
<1>5. CASE vty_shell_keyfunc_escape
  <2>1. \/ shell.keymap = "normal" /\ Edit(Mapped(s, "escape_1"))
        \/ shell.keymap = "escape_1" /\ Edit(Mapped(s, "escape_2"))
    BY <1>5 DEF vty_shell_keyfunc_escape, Key, s
  <2>2. /\ shell.keymap \in TextMaps
        /\ Edit(Mapped(s, "escape_1")) \/ Edit(Mapped(s, "escape_2"))
    BY <2>1 DEF TextMaps
  <2>3. "escape_1" \in TextMaps /\ "escape_2" \in TextMaps
    BY DEF TextMaps
  <2>4. QED
    BY <1>1, <1>3, <1>4, <2>2, <2>3
<1>6. CASE vty_shell_move_word_backward
  <2> DEFINE i == WordBackward(s.sh.line, s.sh.cursor)
             r == shell_moveto(s, i)
  <2>1. shell.keymap \in TextMaps /\ Edit(Mapped(r, "normal")) /\ "normal" \in TextMaps
    BY <1>6 DEF vty_shell_move_word_backward, shell_move_word_backward, Key, TextMaps, s
  <2>2. i \in 0 .. s.sh.cursor
    BY <1>2, BackIs
  <2> HIDE DEF i
  <2>3. i \in 0 .. Len(s.sh.line)
    BY <1>2, <2>2
  <2>4. Good(r) /\ SameRest(r, s)
    BY <1>1, <2>3, MovetoGood
  <2> HIDE DEF r
  <2>5. QED
    BY <1>3, <2>1, <2>4
<1>7. CASE vty_shell_move_word_forward
  <2> DEFINE i == shell_word_next_head(s.sh.line, s.sh.cursor)
             r == shell_moveto(s, i)
  <2>1. shell.keymap \in TextMaps /\ Edit(Mapped(r, "normal")) /\ "normal" \in TextMaps
    BY <1>7 DEF vty_shell_move_word_forward, shell_move_word_forward, Key, TextMaps, s
  <2>2. i \in 0 .. Len(s.sh.line)
    BY <1>2, NextIs
  <2> HIDE DEF i
  <2>3. Good(r) /\ SameRest(r, s)
    BY <1>1, <2>2, MovetoGood
  <2> HIDE DEF r
  <2>4. QED
    BY <1>3, <2>1, <2>3
<1>8. CASE vty_shell_delete_word_backward
  <2> DEFINE r == shell_delete_word_backward(s)
  <2>1. shell.keymap \in TextMaps /\ Edit(Mapped(r, "normal")) /\ "normal" \in TextMaps
    BY <1>8 DEF vty_shell_delete_word_backward, Key, TextMaps, s
  <2>2. Good(r) /\ SameRest(r, s)
    BY <1>1, DeleteWordGood
  <2> HIDE DEF r
  <2>3. QED
    BY <1>3, <2>1, <2>2
<1>9. CASE vty_shell_keyfunc_normal
  <2> DEFINE t == Mapped(s, "normal")
  <2>1. /\ shell.keymap \in TextMaps /\ "normal" \in TextMaps
        /\ Becomes(t) /\ executed' = executed
        /\ client' = client \/ client' = Astray
    BY <1>9 DEF vty_shell_keyfunc_normal, Key, TextMaps, s
  <2>2. CASE client' = client
    <3>1. Edit(t)
      BY <2>1, <2>2 DEF Edit
    <3> HIDE DEF s
    <3>2. QED
      BY <1>1, <1>3, <1>4, <2>1, <3>1
  <2>3. CASE client' = Astray
    <3>1. Good(t) /\ t.sh.history = shell.history
      BY <1>1, MappedGood
    <3> HIDE DEF t
    <3>2. QED
      BY <2>1, <2>3, <3>1, StrayStep
  <2>4. QED
    BY <2>1, <2>2, <2>3
<1>10. ASSUME NEW c, shell.history.array[c] \in Seq(Printable),
              HistoryGood([shell.history EXCEPT !.current = c], executed),
              Edit(Recall(s, c)), shell.keymap = "normal"
       PROVE  Inv'
  <2> DEFINE t == Recall(s, c)
  <2>1. /\ Good(t) /\ t.sh.history = [s.sh.history EXCEPT !.current = c]
        /\ t.sh.keymap = s.sh.keymap /\ t.sh.winsize = s.sh.winsize
    BY <1>1, <1>10, RecallGood
  <2>2. Becomes(t) /\ client' = client /\ executed' = executed
    BY <1>10 DEF Edit
  <2> HIDE DEF t
  <2>3. /\ t.sh.winsize = shell.winsize /\ t.sh.keymap = shell.keymap
        /\ t.sh.history = [shell.history EXCEPT !.current = c]
    BY <1>1, <2>1
  <2>4. HistoryGood(t.sh.history, executed')
    BY <1>10, <2>2, <2>3
  <2>5. shell.keymap \in TextMaps /\ t.sh.keymap \in TextMaps
    BY <1>10, <2>3 DEF TextMaps
  <2>6. QED
    BY <2>1, <2>2, <2>3, <2>4, <2>5, TextEdit
<1>11. CASE command_history_prev
  <2> DEFINE h == shell.history
             c == HISTORY_PREV(h.current)
  <2>1. PrevAllowed(h) /\ shell.keymap = "normal" /\ Edit(Recall(s, c))
    BY <1>11 DEF command_history_prev, Key, s
  <2>2. h.array[c] \in Seq(Printable) /\ HistoryGood([h EXCEPT !.current = c], executed)
    BY <1>1, <2>1, WalkGood
  <2> HIDE DEF c
  <2>3. QED
    BY <1>10, <2>1, <2>2
<1>12. CASE command_history_next
  <2> DEFINE h == shell.history
             c == HISTORY_NEXT(h.current)
  <2>1. NextAllowed(h) /\ shell.keymap = "normal" /\ Edit(Recall(s, c))
    BY <1>12 DEF command_history_next, Key, s
  <2>2. h.array[c] \in Seq(Printable) /\ HistoryGood([h EXCEPT !.current = c], executed)
    BY <1>1, <2>1, WalkGood
  <2> HIDE DEF c
  <2>3. QED
    BY <1>10, <2>1, <2>2
<1>13. QED
  BY <1>5, <1>6, <1>7, <1>8, <1>9, <1>11, <1>12

(* The execution of the line, and the end of its pager. *)
LEMMA ExecuteKeys ==
  ASSUME Inv, command_shell_execute \/ PagerEnds
  PROVE  Inv'
<1> DEFINE s == State
           f == Formatted(s)
           r == Remember(f)
<1>1. Good(s) /\ LineGood(s) /\ s.sh = shell /\ HistoryGood(shell.history, executed)
  BY StateFields DEF Inv, Good
<1>2. CASE command_shell_execute
  <2>1. shell.keymap = "normal" /\ client' = client
    BY <1>2 DEF command_shell_execute, Key
  <2>2. \/ Becomes(Prompted(f)) /\ executed' = executed
        \/ /\ executed' = Append(executed, f.sh.line)
           /\ \/ Becomes([r EXCEPT !.sh.is_paging = TRUE, !.tty = Lost])
              \/ Becomes(Prompted([r EXCEPT !.sh.is_paging = FALSE]))
    BY <1>2 DEF command_shell_execute
  <2> HIDE DEF s
  <2>3. LineGood(f) /\ SameRest(f, s) /\ f.tty = Blank
    BY <1>1, FormattedGood
  <2> HIDE DEF f
  <2>4. /\ f.sh.keymap = shell.keymap /\ f.sh.history = shell.history
        /\ f.sh.winsize = shell.winsize
    BY <1>1, <2>3 DEF SameRest
  <2>5. ASSUME NEW t, Good(t), Becomes(t), t.sh.keymap = f.sh.keymap,
               t.sh.winsize = f.sh.winsize, HistoryGood(t.sh.history, executed')
        PROVE  Inv'
    <3>1. t.sh.winsize = shell.winsize /\ t.sh.keymap = shell.keymap
      BY <2>4, <2>5
    <3>2. t.sh.keymap \in TextMaps /\ shell.keymap \in TextMaps
      BY <2>1, <3>1 DEF TextMaps
    <3>3. QED
      BY <2>1, <2>5, <3>1, <3>2, TextEdit
  <2>6. CASE Becomes(Prompted(f)) /\ executed' = executed
    <3> DEFINE t == Prompted(f)
    <3>1. Good(t) /\ SameRest(t, f) /\ Becomes(t)
      BY <2>3, <2>6, PromptedGood
    <3> HIDE DEF t
    <3>2. /\ t.sh.keymap = f.sh.keymap /\ t.sh.winsize = f.sh.winsize
          /\ t.sh.history = shell.history
      BY <2>4, <3>1 DEF SameRest
    <3>3. HistoryGood(t.sh.history, executed')
      BY <1>1, <2>6, <3>2
    <3>4. QED
      BY <2>5, <3>1, <3>2, <3>3
  <2>7. /\ LineGood(r) /\ r.tty = Blank
        /\ HistoryGood(r.sh.history, Append(executed, f.sh.line))
        /\ r.sh.keymap = f.sh.keymap /\ r.sh.winsize = f.sh.winsize
    <3>1. HistoryGood(f.sh.history, executed)
      BY <1>1, <2>4
    <3>2. QED
      BY <2>3, <3>1, RememberGood
  <2> HIDE DEF r
  <2>8. CASE /\ executed' = Append(executed, f.sh.line)
             /\ Becomes([r EXCEPT !.sh.is_paging = TRUE, !.tty = Lost])
    <3> DEFINE yes == TRUE
               t == Paging(r, yes, Lost)
    <3>1. Becomes(t)
      BY <2>8 DEF Paging
    <3> HIDE DEF yes
    <3>2. /\ LineGood(t) /\ t.tty = Lost /\ t.sh.keymap = r.sh.keymap
          /\ t.sh.history = r.sh.history /\ t.sh.winsize = r.sh.winsize
      BY <2>7, PagingGood
    <3> HIDE DEF t
    <3>3. Good(t)
      BY <3>2, LostGood
    <3>4. HistoryGood(t.sh.history, executed')
      BY <2>7, <2>8, <3>2
    <3>5. t.sh.keymap = f.sh.keymap /\ t.sh.winsize = f.sh.winsize
      BY <2>7, <3>2
    <3>6. QED
      BY <2>5, <3>1, <3>3, <3>4, <3>5
  <2>9. CASE /\ executed' = Append(executed, f.sh.line)
             /\ Becomes(Prompted([r EXCEPT !.sh.is_paging = FALSE]))
    <3> DEFINE no == FALSE
               q == Paging(r, no, Blank)
               t == Prompted(q)
    <3>1. q = [r EXCEPT !.sh.is_paging = FALSE]
      <4>1. IsState(r)
        BY <2>7 DEF LineGood
      <4>2. QED
        BY <2>7, <4>1 DEF Paging, IsState, Is
    <3>2. Becomes(t)
      <4> HIDE DEF q
      <4>1. QED
        BY <2>9, <3>1
    <3> HIDE DEF no
    <3>3. /\ LineGood(q) /\ q.tty = Blank /\ q.sh.keymap = r.sh.keymap
          /\ q.sh.history = r.sh.history /\ q.sh.winsize = r.sh.winsize
      BY <2>7, PagingGood
    <3> HIDE DEF q
    <3>4. Good(t) /\ SameRest(t, q)
      BY <3>3, PromptedGood
    <3> HIDE DEF t
    <3>5. /\ t.sh.keymap = f.sh.keymap /\ t.sh.winsize = f.sh.winsize
          /\ t.sh.history = r.sh.history
      BY <2>7, <3>3, <3>4 DEF SameRest
    <3>6. HistoryGood(t.sh.history, executed')
      BY <2>7, <2>9, <3>5
    <3>7. QED
      BY <2>5, <3>2, <3>4, <3>5, <3>6
  <2>10. QED
    BY <2>2, <2>6, <2>8, <2>9
<1>3. CASE PagerEnds
  <2> HIDE DEF f, r
  <2> DEFINE no == FALSE
             q == Paging(s, no, Blank)
             t == Prompted(q)
  <2>1. Becomes(t) /\ client' = client /\ executed' = executed
    BY <1>3 DEF PagerEnds, Edit, Paging
  <2> HIDE DEF s, no
  <2>2. /\ LineGood(q) /\ q.tty = Blank /\ q.sh.keymap = s.sh.keymap
        /\ q.sh.history = s.sh.history /\ q.sh.winsize = s.sh.winsize
        /\ q.sh.subnego_buf = s.sh.subnego_buf
    BY <1>1, PagingGood
  <2> HIDE DEF q
  <2>3. Good(t) /\ SameRest(t, q)
    BY <2>2, PromptedGood
  <2> HIDE DEF t
  <2>4. /\ t.sh.keymap = shell.keymap /\ t.sh.winsize = shell.winsize
        /\ t.sh.history = shell.history /\ t.sh.subnego_buf = shell.subnego_buf
    BY <1>1, <2>2, <2>3 DEF SameRest
  <2>5. HistoryGood(t.sh.history, executed')
    BY <1>1, <2>1, <2>4
  <2>6. TelnetGood(client', t.sh)
    BY <2>1, <2>4 DEF Inv, TelnetGood
  <2>7. QED
    BY <2>1, <2>3, <2>5, <2>6, StepGood
<1>4. QED
  BY <1>2, <1>3

(* A step of the client to another place of the protocol. *)
LEMMA PlaceStep ==
  ASSUME Inv, NEW t, Good(t), Becomes(t), executed' = executed,
         t.sh.history = shell.history, t.sh.winsize = shell.winsize,
         NEW at, NEW sent, client' = [at |-> at, sent |-> sent, window |-> client.window],
         PlaceGood(at, sent, t.sh.keymap, t.sh.subnego_buf)
  PROVE  Inv'
<1>1. HistoryGood(t.sh.history, executed')
  BY DEF Inv
<1> DEFINE c == client'
<1>2. /\ c = [at |-> c.at, sent |-> c.sent, window |-> c.window]
      /\ c.at = at /\ c.sent = sent /\ c.window = client.window
  OBVIOUS
<1> HIDE DEF c
<1>3. TelnetGood(c, t.sh)
  BY <1>2 DEF Inv, TelnetGood
<1>4. QED
  BY <1>1, <1>3, StepGood DEF c

(* A key of the telnet maps: the client moves on, or is astray. *)
LEMMA TelnetStep ==
  ASSUME Inv, NEW map, NEW k, NEW at, NEW next, NEW t, Telnet(map, k, at, next, t), Good(t),
         t.sh.history = shell.history, t.sh.winsize = shell.winsize,
         client.at = at => PlaceGood(next, client.sent, t.sh.keymap, t.sh.subnego_buf)
  PROVE  Inv'
<1>1. /\ Becomes(t) /\ executed' = executed
      /\ client' = IF client.at = at THEN [client EXCEPT !.at = next] ELSE Astray
  BY DEF Telnet
<1>2. CASE client.at = at
  <2>1. client = [at |-> client.at, sent |-> client.sent, window |-> client.window]
    BY DEF Inv, TelnetGood
  <2>2. client' = [at |-> next, sent |-> client.sent, window |-> client.window]
    BY <1>1, <1>2, <2>1
  <2>3. QED
    BY <1>1, <1>2, <2>2, PlaceStep
<1>3. CASE client.at # at
  BY <1>1, <1>3, StrayStep
<1>4. QED
  BY <1>2, <1>3

(* A dump that does not fit changes nothing else. *)
LEMMA OverrunStep ==
  ASSUME Inv, ~DumpFits, client' = IF client.at # "subiac" THEN Astray ELSE client,
         UNCHANGED <<shell, terminal, failed, executed>>
  PROVE  Inv'
<1>1. shell' = shell /\ terminal' = terminal /\ failed' = failed /\ executed' = executed
  OBVIOUS
<1>2. (Good(State) /\ HistoryGood(shell.history, executed))'
  BY <1>1 DEF Inv, State, Good, LineGood, IsState, Is, Screen, Tty, HistoryGood, Ring, Walk
<1>3. CASE client.at # "subiac"
  <2>1. client' = Astray
    BY <1>3
  <2>2. TelnetGood(client, shell)'
    BY <2>1 DEF TelnetGood, PlaceGood, Astray
  <2>3. DumpGood'
    BY <2>1 DEF DumpGood, Astray
  <2>4. QED
    BY <1>2, <2>2, <2>3 DEF Inv
<1>4. CASE client.at = "subiac"
  <2>1. client' = client
    BY <1>4
  <2>2. TelnetGood(client, shell)'
    BY <1>1, <2>1 DEF Inv, TelnetGood, PlaceGood, SentGood, WindowGood, ExactSize
  <2>3. SentGood(client.sent, shell.subnego_buf)
    BY <1>4 DEF Inv, TelnetGood, PlaceGood
  <2>4. Len(client.sent) > 5
    BY <2>3, LongSent DEF DumpFits
  <2>5. DumpGood'
    BY <2>1, <2>4 DEF DumpGood
  <2>6. QED
    BY <1>2, <2>2, <2>5 DEF Inv
<1>5. QED
  BY <1>3, <1>4

(* The keys of the telnet maps. *)
LEMMA TelnetKeys ==
  ASSUME Inv,
         \/ vty_shell_keyfunc_iac_start \/ vty_shell_keyfunc_telnet_cmd
         \/ vty_shell_keyfunc_telnet_opt \/ vty_shell_keyfunc_sb_start
         \/ vty_shell_keyfunc_subnego \/ vty_shell_keyfunc_sb_end
  PROVE  Inv'
<1> DEFINE s == State
<1>1. Good(s) /\ s.sh = shell /\ HistoryGood(shell.history, executed)
  BY StateFields DEF Inv
<1>2. /\ client = [at |-> client.at, sent |-> client.sent, window |-> client.window]
      /\ PlaceGood(client.at, client.sent, shell.keymap, shell.subnego_buf)
      /\ client.window # <<>> => WindowGood(client.window, shell.winsize)
  BY DEF Inv, TelnetGood
<1>3. client.at \in {"text", "iac", "opt"} => client.sent = <<>>
  BY <1>2 DEF PlaceGood
<1> HIDE DEF s
<1>4. ASSUME NEW map
      PROVE  LET m == Mapped(s, map)
             IN  /\ Good(m) /\ m.sh.keymap = map /\ m.sh.history = shell.history
                 /\ m.sh.winsize = shell.winsize /\ m.sh.subnego_buf = shell.subnego_buf
  BY <1>1, MappedGood
<1>5. CASE vty_shell_keyfunc_iac_start
  <2> DEFINE t == Mapped(s, "iac_1")
  <2>1. \/ Telnet("normal", "IAC", "text", "iac", t)
        \/ Telnet("subnego", "IAC", "sub", "subiac", t)
    BY <1>5 DEF vty_shell_keyfunc_iac_start, s
  <2>2. /\ Good(t) /\ t.sh.keymap = "iac_1" /\ t.sh.history = shell.history
        /\ t.sh.winsize = shell.winsize /\ t.sh.subnego_buf = shell.subnego_buf
    BY <1>4
  <2> HIDE DEF t
  <2>3. client.at = "text" => PlaceGood("iac", client.sent, t.sh.keymap, t.sh.subnego_buf)
    BY <1>3, <2>2 DEF PlaceGood
  <2>4. client.at = "sub" => PlaceGood("subiac", client.sent, t.sh.keymap, t.sh.subnego_buf)
    BY <1>2, <2>2 DEF PlaceGood
  <2>5. QED
    BY <2>1, <2>2, <2>3, <2>4, TelnetStep
<1>6. CASE vty_shell_keyfunc_telnet_cmd
  <2> DEFINE t == Mapped(s, "iac_2")
  <2>1. PICK k \in Options : Telnet("iac_1", k, "iac", "opt", t)
    BY <1>6 DEF vty_shell_keyfunc_telnet_cmd, s
  <2>2. /\ Good(t) /\ t.sh.keymap = "iac_2" /\ t.sh.history = shell.history
        /\ t.sh.winsize = shell.winsize
    BY <1>4
  <2> HIDE DEF t
  <2>3. client.at = "iac" => PlaceGood("opt", client.sent, t.sh.keymap, t.sh.subnego_buf)
    BY <1>3, <2>2 DEF PlaceGood
  <2>4. QED
    BY <2>1, <2>2, <2>3, TelnetStep
<1>7. CASE vty_shell_keyfunc_telnet_opt
  <2> DEFINE m == Mapped(s, "normal")
             t == Redrawn(m, Lost)
  <2>1. PICK k \in typist.keys : \/ Telnet("iac_2", k, "opt", "text", t)
                                 \/ Telnet("iac_1", k, "iac", "text", t)
    BY <1>7 DEF vty_shell_keyfunc_telnet_opt, Redrawn, s
  <2>2. /\ Good(m) /\ m.sh.keymap = "normal" /\ m.sh.history = shell.history
        /\ m.sh.winsize = shell.winsize
    BY <1>4
  <2> HIDE DEF m
  <2>3. Good(t) /\ t.sh = m.sh
    BY <2>2, LoggedGood
  <2> HIDE DEF t
  <2>4. /\ t.sh.history = shell.history /\ t.sh.winsize = shell.winsize
        /\ t.sh.keymap = "normal"
    BY <2>2, <2>3
  <2>5. client.at \in {"iac", "opt"} =>
          PlaceGood("text", client.sent, t.sh.keymap, t.sh.subnego_buf)
    BY <1>3, <2>4 DEF PlaceGood
  <2>6. QED
    BY <2>1, <2>3, <2>4, <2>5, TelnetStep
<1>8. CASE vty_shell_keyfunc_sb_start
  <2> DEFINE t == SbStart(s)
  <2>1. Telnet("iac_1", "SB", "iac", "sub", t)
    BY <1>8 DEF vty_shell_keyfunc_sb_start, s
  <2>2. /\ Good(t) /\ t.sh.keymap = "subnego" /\ t.sh.subnego_buf = <<>>
        /\ t.sh.history = shell.history /\ t.sh.winsize = shell.winsize
    BY <1>1, SbStartGood
  <2> HIDE DEF t
  <2>3. client.sent = <<>> => SentGood(client.sent, t.sh.subnego_buf)
    BY <2>2, ShellAssumption DEF SentGood
  <2>4. client.at = "iac" => PlaceGood("sub", client.sent, t.sh.keymap, t.sh.subnego_buf)
    BY <1>3, <2>2, <2>3 DEF PlaceGood
  <2>5. QED
    BY <2>1, <2>2, <2>4, TelnetStep
<1>9. CASE vty_shell_keyfunc_subnego
  <2>1. PICK k \in SubBytes :
          /\ shell.keymap = "subnego"
          /\ client' = IF client.at = "sub" THEN [client EXCEPT !.sent = Append(@, k)]
                       ELSE Astray
          /\ Becomes(SbByte(s, k)) /\ executed' = executed
    BY <1>9 DEF vty_shell_keyfunc_subnego, Key, SubBytes, s
  <2> DEFINE t == SbByte(s, k)
             b == shell.subnego_buf
             more == Append(client.sent, k)
  <2>2. /\ Good(t) /\ t.sh.keymap = shell.keymap
        /\ t.sh.subnego_buf = IF Len(b) < SubnegoSize THEN Append(b, k) ELSE b
        /\ t.sh.history = shell.history /\ t.sh.winsize = shell.winsize
    BY <1>1, SbByteGood
  <2>3. Becomes(t)
    BY <2>1
  <2> HIDE DEF t
  <2>4. CASE client.at = "sub"
    <3>1. SentGood(client.sent, b)
      BY <1>2, <2>4 DEF PlaceGood
    <3>2. SentGood(more, t.sh.subnego_buf)
      BY <2>1, <2>2, <3>1, SentByte
    <3>3. client' = [at |-> "sub", sent |-> more, window |-> client.window]
      BY <1>2, <2>1, <2>4
    <3> HIDE DEF more
    <3>4. PlaceGood("sub", more, t.sh.keymap, t.sh.subnego_buf)
      BY <2>1, <2>2, <3>2 DEF PlaceGood
    <3>5. QED
      BY <2>1, <2>2, <2>3, <3>3, <3>4, PlaceStep
  <2>5. CASE client.at # "sub"
    BY <2>1, <2>2, <2>3, <2>5, StrayStep
  <2>6. QED
    BY <2>4, <2>5
<1>10. CASE vty_shell_keyfunc_sb_end /\ DumpFits
  <2> DEFINE t == SbEnd(s)
             b == shell.subnego_buf
             sent == client.sent
             c == client'
  <2>1. /\ Becomes(t) /\ executed' = executed
        /\ c = IF client.at # "subiac" THEN Astray
               ELSE [at |-> "text", sent |-> <<>>,
                     window |-> IF IsNaws(sent) THEN sent ELSE client.window]
    BY <1>10 DEF vty_shell_keyfunc_sb_end, s
  <2>2. /\ Good(t) /\ t.sh.keymap = "normal" /\ t.sh.history = shell.history
        /\ (Len(b) = 5 /\ b[1] = "NAWS") =>
             /\ t.sh.winsize.ws_col = UShort(b[2], b[3])
             /\ t.sh.winsize.ws_row = UShort(b[4], b[5])
        /\ ~(Len(b) = 5 /\ b[1] = "NAWS") => t.sh.winsize = shell.winsize
    BY <1>1, SbEndGood
  <2> HIDE DEF t
  <2>3. CASE client.at # "subiac"
    BY <2>1, <2>2, <2>3, StrayStep DEF c
  <2>4. CASE client.at = "subiac"
    <3>1. SentGood(sent, b)
      BY <1>2, <2>4 DEF PlaceGood
    <3>2. /\ c = [at |-> c.at, sent |-> c.sent, window |-> c.window]
          /\ c.at = "text" /\ c.sent = <<>>
          /\ c.window = IF IsNaws(sent) THEN sent ELSE client.window
      BY <2>1, <2>4
    <3> HIDE DEF b, sent, c
    <3>3. PlaceGood(c.at, c.sent, t.sh.keymap, t.sh.subnego_buf)
      BY <2>2, <3>2 DEF PlaceGood
    <3>4. c.window # <<>> => WindowGood(c.window, t.sh.winsize)
      <4>1. CASE IsNaws(sent)
        <5>1. /\ Len(b) = 5 /\ b[1] = "NAWS" /\ b = sent
              /\ \A i \in 2 .. 5 : sent[i] \in DOMAIN Digits
          BY <3>1, <4>1, FiveBytes
        <5>2. /\ sent[2] \in DOMAIN Digits /\ sent[3] \in DOMAIN Digits
              /\ sent[4] \in DOMAIN Digits /\ sent[5] \in DOMAIN Digits
          BY <5>1
        <5>3. /\ t.sh.winsize.ws_col = UShort(sent[2], sent[3])
              /\ t.sh.winsize.ws_row = UShort(sent[4], sent[5])
          BY <2>2, <5>1
        <5>4. /\ ExactSize(sent[2], sent[3], UShort(sent[2], sent[3]))
              /\ ExactSize(sent[4], sent[5], UShort(sent[4], sent[5]))
          BY <5>2, UShortExact
        <5>5. c.window = sent
          BY <3>2, <4>1
        <5>6. QED
          BY <5>3, <5>4, <5>5 DEF WindowGood
      <4>2. CASE ~IsNaws(sent)
        <5>1. ~(Len(b) = 5 /\ b[1] = "NAWS")
          BY <3>1, <4>2, FiveBytes
        <5>2. c.window = client.window /\ t.sh.winsize = shell.winsize
          BY <2>2, <3>2, <4>2, <5>1
        <5>3. QED
          BY <1>2, <5>2
      <4>3. QED
        BY <4>1, <4>2
    <3>5. TelnetGood(c, t.sh)
      BY <3>2, <3>3, <3>4 DEF TelnetGood
    <3>6. HistoryGood(t.sh.history, executed')
      BY <1>1, <2>1, <2>2
    <3>7. QED
      BY <2>1, <2>2, <3>5, <3>6, StepGood DEF c
  <2>5. QED
    BY <2>3, <2>4
<1>11. CASE vty_shell_keyfunc_sb_end /\ ~DumpFits
  <2>1. /\ client' = IF client.at # "subiac" THEN Astray ELSE client
        /\ UNCHANGED <<shell, terminal, failed, executed>>
    BY <1>11 DEF vty_shell_keyfunc_sb_end
  <2>2. QED
    BY <1>11, <2>1, OverrunStep
<1>12. QED
  BY <1>5, <1>6, <1>7, <1>8, <1>9, <1>10, <1>11

(* It is inductive. *)
LEMMA NextGood == Inv /\ [Next]_vars => Inv'
<1> SUFFICES ASSUME Inv, [Next]_vars PROVE Inv'
  OBVIOUS
<1>1. CASE shell_input
  BY <1>1, EditingKeys, ShowingKeys, EscapeKeys, ExecuteKeys, TelnetKeys DEF shell_input
<1>2. CASE PagerEnds
  BY <1>2, ExecuteKeys
<1>3. CASE UNCHANGED vars
  <2>1. /\ shell' = shell /\ terminal' = terminal /\ failed' = failed
        /\ executed' = executed /\ client' = client /\ overrun' = overrun
    BY <1>3 DEF vars
  <2>2. QED
    BY <2>1 DEF Inv, State, Good, LineGood, IsState, Is, Screen, Tty, HistoryGood, Ring,
                Walk, TelnetGood, PlaceGood, SentGood, WindowGood, ExactSize, DumpGood
<1>4. QED
  BY <1>1, <1>2, <1>3 DEF Next

(* Every state the shell reaches satisfies it. *)
THEOREM ShellInvariant == Spec => []Inv
BY InitGood, NextGood, PTL DEF Spec

-----------------------------------------------------------------------------
(* No key sequence makes an assert() of the editor or of the history fail,  *)
(* and the line stays terminated within its buffer (shell.c).               *)
THEOREM LinesSound == Spec => []LineSound
<1>1. Inv => LineSound
  <2> SUFFICES ASSUME Inv PROVE LineSound
    OBVIOUS
  <2> DEFINE s == State
  <2>1. LineGood(s)
    BY DEF Inv, Good
  <2>2. s.sh = shell /\ s.failed = failed
    BY StateFields
  <2> HIDE DEF s
  <2>3. s.failed = FALSE /\ s.sh.nul = TRUE
    BY <2>1, Zenon DEF LineGood
  <2>4. ~failed /\ shell.nul
    BY <2>2, <2>3, Zenon
  <2>5. shell.cursor \in 0 .. Len(shell.line) /\ Len(shell.line) < shell.size
    BY <2>1, <2>2 DEF LineGood
  <2>6. QED
    BY <2>4, <2>5 DEF LineSound
<1>2. QED
  BY <1>1, ShellInvariant, PTL

(* The incremental redraws show the line, with the cursor on the same       *)
(* character, unless the terminal was written over (shell.c).               *)
THEOREM ScreensMatch == Spec => []ScreenMatches
<1>1. Inv => ScreenMatches
  <2> SUFFICES ASSUME Inv, ~terminal.lost
               PROVE  terminal.text = Trim(shell.line) /\ terminal.col = shell.cursor
    BY DEF ScreenMatches
  <2>1. Screen(terminal, shell.line, shell.cursor)
    BY StateFields DEF Inv, Good
  <2>2. terminal # Lost
    BY DEF Lost
  <2>3. QED
    BY <2>1, <2>2 DEF Screen, Tty
<1>2. QED
  BY <1>1, ShellInvariant, PTL

(* The ring holds the last HISTORY_SIZE - 1 commands and nothing else, and  *)
(* the walk stands on one of them or on the separator (command_shell.c).    *)
THEOREM HistoryKeepsLast == Spec => []HistoryIsLast
<1>1. Inv => HistoryIsLast
  <2> SUFFICES ASSUME Inv PROVE HistoryIsLast
    OBVIOUS
  <2> DEFINE h == shell.history
             ex == executed
             n == Min({Len(ex), HISTORY_SIZE - 1})
             Back(i) == (h.last - i + HISTORY_SIZE) % HISTORY_SIZE
  <2>1. Ring(h.array, h.last, ex) /\ Walk(h.current, h.last, ex) /\ h.last \in Slots
    BY DEF Inv, HistoryGood, Ring
  <2>2. HISTORY_SIZE \in Nat /\ HISTORY_SIZE >= 3 /\ Len(ex) \in Nat
    BY <2>1, HistoryAssumption DEF Ring
  <2>3. n = Held(ex)
    <3>1. Len(ex) \in Int /\ HISTORY_SIZE - 1 \in Int
      BY <2>2
    <3>2. QED
      BY <3>1, OfTwo DEF Held
  <2>4. n \in 0 .. HISTORY_SIZE - 1
    <3> HIDE DEF n
    <3>1. QED
      BY <2>2, <2>3 DEF Held
  <2>5. \A i \in 0 .. HISTORY_SIZE - 1 : Back(i) = Ago(h.last, i)
    BY <2>1, AgoFacts
  <2> HIDE DEF n, h, ex, Back
  <2>6. ASSUME NEW i \in 0 .. n - 1 PROVE h.array[Back(i)] = ex[Len(ex) - i]
    <3>1. i \in 0 .. HISTORY_SIZE - 1 /\ i < Held(ex)
      BY <2>2, <2>3, <2>4
    <3>2. QED
      BY <2>1, <2>5, <3>1 DEF Ring
  <2>7. ASSUME NEW i \in n .. HISTORY_SIZE - 1 PROVE h.array[Back(i)] = EMPTY
    <3>1. i \in 0 .. HISTORY_SIZE - 1 /\ ~ i < Held(ex)
      BY <2>2, <2>3, <2>4
    <3>2. QED
      BY <2>1, <2>5, <3>1 DEF Ring
  <2>8. h.current \in {Back(i) : i \in 0 .. n - 1} \cup
                        {IF n = 0 THEN h.last ELSE HISTORY_NEXT(h.last)}
    <3>1. CASE \E i \in 0 .. HISTORY_SIZE - 1 : i < Held(ex) /\ h.current = Ago(h.last, i)
      <4>1. PICK i \in 0 .. HISTORY_SIZE - 1 : i < Held(ex) /\ h.current = Ago(h.last, i)
        BY <3>1
      <4>2. i \in 0 .. n - 1 /\ h.current = Back(i)
        <5>1. h.current = Back(i)
          BY <2>5, <4>1
        <5>2. i \in 0 .. n - 1
          BY <2>2, <2>3, <2>4, <4>1
        <5>3. QED
          BY <5>1, <5>2
      <4>3. QED
        BY <4>2
    <3>2. CASE Held(ex) = 0 /\ h.current = h.last
      BY <2>3, <3>2
    <3>3. CASE Held(ex) # 0 /\ h.current = HISTORY_NEXT(h.last)
      BY <2>3, <3>3
    <3>4. QED
      BY <2>1, <3>1, <3>2, <3>3 DEF Walk
  <2>9. QED
    BY <2>6, <2>7, <2>8 DEF HistoryIsLast, n, h, ex, Back
<1>2. QED
  BY <1>1, ShellInvariant, PTL

(* A yank puts back what C-K, C-U or C-W has just taken (shell_keyfunc.c). *)
THEOREM YanksRestore == Spec => []YankRestores
<1>1. Inv => YankRestores
  <2> SUFFICES ASSUME Inv PROVE YankRestores
    OBVIOUS
  <2> DEFINE s == State
  <2>1. Good(s) /\ s.sh = shell
    BY StateFields DEF Inv
  <2> HIDE DEF s
  <2>2. LET cut == KillLine(s)
        IN  cut.sh.cut_buffer # EMPTY => Yank(cut).sh.line = s.sh.line
    BY <2>1, KillLineGood
  <2>3. LET cut == KillAll(s)
        IN  cut.sh.cut_buffer # EMPTY => Yank(cut).sh.line = s.sh.line
    BY <2>1, KillAllGood
  <2>4. LET cut == shell_delete_word_backward(s)
        IN  cut.sh.cut_buffer # EMPTY => Yank(cut).sh.line = s.sh.line
    BY <2>1, DeleteWordGood
  <2>5. \A cut \in {KillLine(s), KillAll(s), shell_delete_word_backward(s)} :
          cut.sh.cut_buffer # EMPTY => Yank(cut).sh.line = shell.line
    BY <2>1, <2>2, <2>3, <2>4
  <2>6. QED
    BY <2>5 DEF YankRestores, s
<1>2. QED
  BY <1>1, ShellInvariant, PTL

(* The strsep() loops find the words where they begin (shell.c).            *)
THEOREM WordsFound == Spec => []WordMotion
<1>1. Inv => WordMotion
  <2> SUFFICES ASSUME Inv PROVE WordMotion
    OBVIOUS
  <2> DEFINE x == shell.line
             p == shell.cursor
             before == {i \in WordStarts(x, SubDelimiters) : i < p}
             after == {i \in WordStarts(x, Delimiters) : i > p}
             single == \A i \in 1 .. Len(x) - 1 : x[i] # SPACE \/ x[i + 1] # SPACE
  <2>1. x \in Seq(Printable) /\ p \in 0 .. Len(x)
    BY StateFields DEF Inv, Good, LineGood
  <2> HIDE DEF x, p
  <2>2. WordBackward(x, p) = Max({0} \cup before)
    <3>1. WordBackward(x, p) = Max({0} \cup {o \in Words(x, SubDelimiters) : o < p})
      BY <2>1, BackIs
    <3>2. Words(x, SubDelimiters) = WordStarts(x, SubDelimiters)
      BY <2>1, WordsAre
    <3>3. QED
      BY <3>1, <3>2
  <2>3. single => shell_word_next_head(x, p) = Min({Len(x)} \cup after)
    <3>1. single => shell_word_next_head(x, p) =
                      Min({Len(x)} \cup {o \in Words(x, Delimiters) : o > p})
      BY <2>1, NextIs
    <3>2. Words(x, Delimiters) = WordStarts(x, Delimiters)
      BY <2>1, WordsAre
    <3>3. QED
      BY <3>1, <3>2
  <2>4. QED
    BY <2>2, <2>3 DEF WordMotion, x, p
<1>2. QED
  BY <1>1, ShellInvariant, PTL

(* As long as the telnet client is not astray, whatever bytes it sends, the *)
(* key map follows it, the window is the last one it has sent when the low  *)
(* bytes are below 128, and only a subnegotiation longer than a window size *)
(* can write past subnego_str (shell_telnet.c). Astray is IAC within an     *)
(* escape sequence, IAC and anything but SE within a subnegotiation, or IAC *)
(* SE outside of one.                                                       *)
THEOREM TelnetStaysInStep == Spec => []TelnetInStep
<1>1. Inv => TelnetInStep
  <2> SUFFICES ASSUME Inv PROVE TelnetInStep
    OBVIOUS
  <2>1. /\ client.at = "text" => shell.keymap \in {"normal", "escape_1", "escape_2"}
        /\ client.at \in {"iac", "subiac"} => shell.keymap = "iac_1"
        /\ client.at = "opt" => shell.keymap = "iac_2"
        /\ client.at = "sub" => shell.keymap = "subnego"
    BY DEF Inv, TelnetGood, PlaceGood
  <2>2. client.window # <<>> => WindowGood(client.window, shell.winsize)
    BY DEF Inv, TelnetGood
  <2>3. overrun /\ client.at # "astray" => Len(client.sent) > 5
    BY DEF Inv, DumpGood
  <2>4. QED
    BY <2>1, <2>2, <2>3 DEF TelnetInStep, WindowGood, ExactSize
<1>2. QED
  BY <1>1, ShellInvariant, PTL
=============================================================================
