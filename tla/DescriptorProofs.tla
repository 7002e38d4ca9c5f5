--------------------------- MODULE DescriptorProofs ---------------------------
(***************************************************************************)
(* The descriptors of the control core, for every number of slots,         *)
(* sessions and paged commands: a session that pages closes the number of  *)
(* its pipe at every turn, and hits nobody until a third descriptor has    *)
(* been opened meanwhile.                                                  *)
(***************************************************************************)
EXTENDS SessionsProofs

(* A descriptor that is never closed: the banner's socket, an end of a pty. *)
KEPT == Entry("kept", 0)

(* What a number may be between two turns: no pipe end outlives its turn. *)
FdEntries ==
  {FREE, KEPT, Entry("listen", 0)} \cup {Entry("client", i) : i \in Slots}

(* A table of descriptors. *)
IsTable(f) == f = [n \in Fds |-> f[n]]

(* Number p is free and so are k lower ones: k descriptors can be opened    *)
(* without reaching it.                                                     *)
Below(f, p) == {n \in FreeFds(f) : n < p}
Room(f, p, k) == p \in Fds /\ f[p] = FREE /\ Cardinality(Below(f, p)) >= k

(* The pipe number of a session that pages has room for the descriptors it  *)
(* has not seen opened yet.                                                 *)
PagerRoom(f, r) == r.is_paging /\ r.opened <= 2 => Room(f, r.pipefd, 2 - r.opened)

(* The sessions that page have the room they need. *)
Roomy(f, ses) == \A i \in Slots : ses[i].opened \in Nat /\ PagerRoom(f, ses[i])

(* Connections and their slots correspond, and the server's is number 0. *)
Connected(f, c) ==
  /\ \A i \in Slots : c[i] # -1 => c[i] \in Fds /\ f[c[i]] = Entry("client", i)
  /\ \A n \in Fds, i \in Slots : f[n] = Entry("client", i) => c[i] = n
  /\ \A n \in Fds : f[n] = Entry("listen", 0) => n = 0

(* The numbers that are kept for ever. *)
Kept(f) == {n \in Fds : f[n] = KEPT}

(* The sessions that were created and have not begun. *)
Created == {i \in Slots : session[i].state = "created"}

(* What stays open is counted. *)
Counted ==
  /\ Cardinality(Kept(fds)) + Cardinality(Created)
       = count.paged + count.slaves + count.served
  /\ count.slaves <= count.paged
  /\ count.paged <= MaxPaged
  /\ count.served <= MaxSessions

(* What holds of the descriptors until a session that pages is crowded. *)
Tidy ==
  /\ fds \in [Fds -> FdEntries]
  /\ Connected(fds, client_fd)
  /\ Roomy(fds, session)
  /\ Counted

(* The inductive invariant: the descriptors are in order until a session    *)
(* has closed the number of its pipe after a third one was opened.          *)
FdInv == TableInv /\ IsCount(count) /\ (count.crowded \/ Tidy)

-----------------------------------------------------------------------------
(* There are FdLimit numbers. *)
LEMMA FdsFinite ==
  /\ Fds \subseteq Nat
  /\ IsFiniteSet(Fds) /\ Cardinality(Fds) = FdLimit
  /\ \A S \in SUBSET Fds : IsFiniteSet(S) /\ Cardinality(S) \in Nat
<1>1. FdLimit \in Nat \ {0}
  BY SessionsAssumption
<1>2. /\ 0 \in Int /\ FdLimit - 1 \in Int
      /\ ~(0 > FdLimit - 1) /\ FdLimit - 1 - 0 + 1 = FdLimit
  BY <1>1
<1>3. IsFiniteSet(Fds) /\ Cardinality(Fds) = FdLimit
  BY <1>2, FS_Interval DEF Fds
<1>4. Fds \subseteq Nat
  BY <1>1 DEF Fds
<1> QED
  BY <1>3, <1>4, FS_Subset, FS_CardinalityType

(* The kinds of entries are told apart. *)
LEMMA EntriesDiffer ==
  /\ KEPT # FREE /\ KEPT # Entry("listen", 0) /\ Entry("listen", 0) # FREE
  /\ Entry("pipe", 0) # FREE /\ Entry("pipe", 0) # KEPT
  /\ \A i : /\ Entry("client", i) # FREE /\ Entry("client", i) # KEPT
            /\ Entry("client", i) # Entry("listen", 0)
  /\ \A i, j : Entry("client", i) = Entry("client", j) => i = j
<1>1. \A k, o : Entry(k, o).kind = k /\ Entry(k, o).of = o
  BY DEF Entry
<1>2. FREE.kind = "free"
  BY DEF FREE
<1>3. KEPT.kind = "kept"
  BY <1>1 DEF KEPT
<1> QED
  BY <1>1, <1>2, <1>3

(* A new descriptor gets the lowest free number. *)
LEMMA LowestFree ==
  ASSUME NEW f, FreeFds(f) # {}
  PROVE  /\ Lowest(f) \in Fds /\ f[Lowest(f)] = FREE
         /\ \A n \in FreeFds(f) : Lowest(f) <= n
<1>1. FreeFds(f) \subseteq Nat
  BY FdsFinite DEF FreeFds
<1>2. \E x \in FreeFds(f) : \A y \in FreeFds(f) : x <= y
  BY <1>1, LeastElement
<1>3. Lowest(f) \in FreeFds(f) /\ \A n \in FreeFds(f) : Lowest(f) <= n
  BY <1>2 DEF Lowest, Min
<1> QED
  BY <1>3 DEF FreeFds

(* open() changes the lowest free number only. *)
LEMMA OpenFacts ==
  ASSUME NEW f, IsTable(f), FreeFds(f) # {}, NEW kind, NEW of, Entry(kind, of) # FREE
  PROVE  /\ Open(f, kind, of) =
              [n \in Fds |-> IF n = Lowest(f) THEN Entry(kind, of) ELSE f[n]]
         /\ IsTable(Open(f, kind, of))
         /\ FreeFds(Open(f, kind, of)) = FreeFds(f) \ {Lowest(f)}
<1> DEFINE e == Entry(kind, of)
           m == Lowest(f)
<1>1. m \in Fds
  BY LowestFree
<1>2. Open(f, kind, of) = [f EXCEPT ![m] = e] /\ e # FREE
  BY DEF Open
<1> HIDE DEF e, m
<1>3. [f EXCEPT ![m] = e] = [n \in Fds |-> IF n = m THEN e ELSE f[n]]
  BY <1>1 DEF IsTable
<1> QED
  BY <1>1, <1>2, <1>3 DEF IsTable, FreeFds, e, m

(* close() changes the number it is given only. *)
LEMMA CloseFacts ==
  ASSUME NEW f, IsTable(f), NEW m
  PROVE  /\ Close(f, m) = [n \in Fds |-> IF n = m THEN FREE ELSE f[n]]
         /\ IsTable(Close(f, m))
BY DEF Close, IsTable

(* Opening one more takes a number below, if there is one. *)
LEMMA OpenRoom ==
  ASSUME NEW f, IsTable(f), NEW p, NEW k \in Nat \ {0}, Room(f, p, k),
         NEW kind, NEW of, Entry(kind, of) # FREE
  PROVE  Room(Open(f, kind, of), p, k - 1)
<1> DEFINE B == Below(f, p)
           m == Lowest(f)
           g == Open(f, kind, of)
<1>1. B \subseteq Fds /\ IsFiniteSet(B) /\ Cardinality(B) \in Nat /\ Cardinality(B) >= k
  BY FdsFinite DEF Below, FreeFds, Room
<1>2. PICK b \in B : TRUE
  BY <1>1, FS_EmptySet
<1>3. b \in FreeFds(f) /\ b < p /\ p \in Fds /\ f[p] = FREE
  BY <1>2 DEF Below, Room
<1>4. m \in Fds /\ f[m] = FREE /\ m <= b
  BY <1>3, LowestFree
<1>5. m \in B /\ m # p
  <2> HIDE DEF m
  <2>1. m \in Nat /\ b \in Nat /\ p \in Nat /\ b < p /\ m <= b
    BY <1>3, <1>4, FdsFinite DEF FreeFds
  <2>2. m < p /\ m # p
    BY <2>1
  <2> QED
    BY <1>4, <2>2 DEF Below, FreeFds
<1>6. /\ g = [n \in Fds |-> IF n = m THEN Entry(kind, of) ELSE f[n]]
      /\ FreeFds(g) = FreeFds(f) \ {m}
  BY <1>3, OpenFacts
<1>7. Below(g, p) = B \ {m}
  BY <1>6 DEF Below
<1>8. Cardinality(B \ {m}) = Cardinality(B) - 1
  BY <1>1, <1>5, FS_RemoveElement
<1>9. g[p] = FREE
  BY <1>3, <1>5, <1>6
<1> HIDE DEF B, g, m
<1> QED
  BY <1>1, <1>3, <1>7, <1>8, <1>9 DEF Room, g

(* Closing any number leaves the room there is. *)
LEMMA CloseRoom ==
  ASSUME NEW f, IsTable(f), NEW p, NEW k \in Nat, Room(f, p, k), NEW m
  PROVE  Room(Close(f, m), p, k)
<1> DEFINE g == Close(f, m)
<1>1. g = [n \in Fds |-> IF n = m THEN FREE ELSE f[n]]
  BY CloseFacts
<1>2. Below(f, p) \subseteq Below(g, p) /\ Below(g, p) \subseteq Fds
  BY <1>1 DEF Below, FreeFds
<1>3. g[p] = FREE /\ p \in Fds
  BY <1>1 DEF Room
<1> HIDE DEF g
<1>4. /\ IsFiniteSet(Below(g, p)) /\ Cardinality(Below(g, p)) \in Nat
      /\ Cardinality(Below(f, p)) \in Nat
  BY <1>2, FdsFinite
<1>5. Cardinality(Below(f, p)) <= Cardinality(Below(g, p))
  BY <1>2, <1>4, FS_Subset
<1> QED
  BY <1>3, <1>4, <1>5 DEF Room, g

-----------------------------------------------------------------------------
(* What a session that pages sees when descriptors are opened. *)
LEMMA CrowdFields ==
  ASSUME TableInv, NEW n \in Nat, NEW j \in Slots, session[j].opened \in Nat
  PROVE  /\ Crowd(session, n)[j].is_paging = session[j].is_paging
         /\ Crowd(session, n)[j].pipefd = session[j].pipefd
         /\ Crowd(session, n)[j].opened \in Nat
         /\ session[j].is_paging /\ Crowd(session, n)[j].opened <= 2 =>
              Crowd(session, n)[j].opened = session[j].opened + n
<1> DEFINE r == session[j]
           sum == r.opened + n
           up == Min({3, sum})
<1>1. Crowd(session, n)[j] = IF r.is_paging THEN [r EXCEPT !.opened = up] ELSE r
  BY DEF Crowd
<1>2. IsSession(r) /\ r.opened \in Nat
  BY DEF TableInv
<1>3. sum \in Nat
  BY <1>2
<1>4. up \in {3, sum}
  <2> HIDE DEF sum
  <2>1. {3, sum} \subseteq Nat /\ {3, sum} # {}
    BY <1>3
  <2> QED
    BY <2>1, MinIsElement
<1> HIDE DEF r, up
<1>5. /\ [r EXCEPT !.opened = up].is_paging = r.is_paging
      /\ [r EXCEPT !.opened = up].pipefd = r.pipefd
      /\ [r EXCEPT !.opened = up].opened = up
  BY <1>2 DEF IsSession
<1>6. up \in Nat /\ (up <= 2 => up = sum)
  BY <1>3, <1>4
<1> QED
  BY <1>1, <1>2, <1>5, <1>6 DEF r

(* A descriptor opened is one the sessions that page have seen opened. *)
LEMMA CrowdRoom ==
  ASSUME TableInv, NEW f, IsTable(f), Roomy(f, session),
         NEW kind, NEW of, Entry(kind, of) # FREE, FreeFds(f) # {}
  PROVE  /\ Roomy(Open(f, kind, of), Crowd(session, 1))
         /\ Roomy(Open(Open(f, kind, of), kind, of), Crowd(session, 2))
<1> DEFINE g == Open(f, kind, of)
           h == Open(g, kind, of)
<1>1. IsTable(g)
  BY OpenFacts
<1>2. ASSUME NEW j \in Slots
      PROVE  /\ Crowd(session, 1)[j].opened \in Nat
             /\ PagerRoom(g, Crowd(session, 1)[j])
  <2> DEFINE q == Crowd(session, 1)[j]
             o == session[j].opened
             p == session[j].pipefd
  <2>1. o \in Nat /\ PagerRoom(f, session[j])
    BY DEF Roomy
  <2>2. /\ q.is_paging = session[j].is_paging /\ q.pipefd = p /\ q.opened \in Nat
        /\ session[j].is_paging /\ q.opened <= 2 => q.opened = o + 1
    BY <2>1, CrowdFields
  <2> HIDE DEF q, g
  <2>3. ASSUME q.is_paging, q.opened <= 2 PROVE Room(g, p, 2 - q.opened)
    <3>1. session[j].is_paging /\ q.opened = o + 1
      BY <2>2, <2>3
    <3>2. Room(f, p, 2 - o)
      BY <2>1, <2>2, <2>3, <3>1 DEF PagerRoom
    <3>3. 2 - o \in Nat \ {0} /\ (2 - o) - 1 = 2 - q.opened
      BY <2>1, <2>2, <2>3, <3>1
    <3> DEFINE k == 2 - o
    <3> HIDE DEF k
    <3>4. Room(g, p, k - 1)
      BY <3>2, <3>3, OpenRoom DEF k, g
    <3> QED
      BY <3>3, <3>4 DEF k
  <2> QED
    BY <2>2, <2>3 DEF PagerRoom, q
<1>3. ASSUME NEW j \in Slots
      PROVE  /\ Crowd(session, 2)[j].opened \in Nat
             /\ PagerRoom(h, Crowd(session, 2)[j])
  <2> DEFINE q == Crowd(session, 2)[j]
             o == session[j].opened
             p == session[j].pipefd
  <2>1. o \in Nat /\ PagerRoom(f, session[j])
    BY DEF Roomy
  <2>2. /\ q.is_paging = session[j].is_paging /\ q.pipefd = p /\ q.opened \in Nat
        /\ session[j].is_paging /\ q.opened <= 2 => q.opened = o + 2
    BY <2>1, CrowdFields
  <2> HIDE DEF q, g, h
  <2>3. ASSUME q.is_paging, q.opened <= 2 PROVE Room(h, p, 2 - q.opened)
    <3>1. session[j].is_paging /\ o = 0 /\ q.opened = 2
      BY <2>1, <2>2, <2>3
    <3>2. Room(f, p, 2 - 0)
      BY <2>1, <2>2, <2>3, <3>1 DEF PagerRoom
    <3>3. 2 - 0 = 2 /\ 2 \in Nat \ {0} /\ 2 - 1 = 1 /\ 1 \in Nat \ {0} /\ 1 - 1 = 0
      OBVIOUS
    <3>4. Room(f, p, 2)
      BY <3>2, <3>3
    <3>5. Room(g, p, 1)
      BY <3>3, <3>4, OpenRoom DEF g
    <3>6. Room(h, p, 0)
      BY <1>1, <3>3, <3>5, OpenRoom DEF h
    <3> QED
      BY <3>1, <3>6
  <2> QED
    BY <2>2, <2>3 DEF PagerRoom, q
<1> QED
  BY <1>2, <1>3 DEF Roomy

(* pager_start() with four free numbers: the turn of a paged command leaves *)
(* the pty master open, and the number of the writing end, the fourth, has  *)
(* room for two.                                                            *)
LEMMA PagerFour ==
  ASSUME NEW f, IsTable(f), Cardinality(FreeFds(f)) >= 4
  PROVE  LET p == PagerFds(f)
             g == Open(f, "kept", 0)
         IN  /\ FreeFds(f) # {} /\ FreeFds(g) # {}
             /\ p.pty = Open(g, "kept", 0)
             /\ Close(ParentCloses(p), p.writer) = g
             /\ Close(Close(ParentCloses(p), p.writer), p.master) = f
             /\ Room(g, p.writer, 2)
<1> DEFINE p == PagerFds(f)
           f1 == Open(f, "kept", 0)
           f2 == Open(f1, "kept", 0)
           f3 == Open(f2, "pipe", 0)
           f4 == Open(f3, "pipe", 0)
           m1 == Lowest(f)
           m2 == Lowest(f1)
           m3 == Lowest(f2)
           m4 == Lowest(f3)
           c3 == Close(f4, m3)
           c2 == Close(c3, m2)
           c4 == Close(c2, m4)
           c1 == Close(c4, m1)
<1>1. /\ p.pty = f2 /\ p.writer = m4 /\ p.master = m1
      /\ ParentCloses(p) = c2
  <2>1. p = [all |-> f4, slave |-> m2, master |-> m1, reader |-> m3, writer |-> m4, pty |-> f2]
    BY DEF PagerFds
  <2> HIDE DEF p, f1, f2, f3, f4, m1, m2, m3, m4
  <2>2. /\ p.pty = f2 /\ p.writer = m4 /\ p.master = m1 /\ p.all = f4
        /\ p.slave = m2 /\ p.reader = m3
    BY <2>1
  <2> QED
    BY <2>2 DEF ParentCloses
<1>2. Entry("kept", 0) # FREE /\ Entry("pipe", 0) # FREE
  BY EntriesDiffer DEF KEPT
<1> HIDE DEF p
<1>3. ASSUME NEW g, IsTable(g), NEW c \in Nat \ {0}, Cardinality(FreeFds(g)) >= c
      PROVE  /\ FreeFds(g) # {}
             /\ Lowest(g) \in FreeFds(g) /\ \A n \in FreeFds(g) : Lowest(g) <= n
             /\ Cardinality(FreeFds(g) \ {Lowest(g)}) >= c - 1
  <2>1. IsFiniteSet(FreeFds(g)) /\ Cardinality(FreeFds(g)) \in Nat
    BY FdsFinite DEF FreeFds
  <2>2. FreeFds(g) # {}
    BY <1>3, <2>1, FS_EmptySet
  <2>3. Lowest(g) \in FreeFds(g) /\ \A n \in FreeFds(g) : Lowest(g) <= n
    BY <2>2, LowestFree DEF FreeFds
  <2>4. Cardinality(FreeFds(g) \ {Lowest(g)}) = Cardinality(FreeFds(g)) - 1
    BY <2>1, <2>3, FS_RemoveElement
  <2> QED
    BY <1>3, <2>1, <2>2, <2>3, <2>4
<1>4. /\ FreeFds(f) # {} /\ m1 \in FreeFds(f)
      /\ Cardinality(FreeFds(f) \ {m1}) >= 3
  <2>1. 4 \in Nat \ {0} /\ 4 - 1 = 3
    OBVIOUS
  <2> QED
    BY <1>3, <2>1
<1>5. /\ f1 = [n \in Fds |-> IF n = m1 THEN KEPT ELSE f[n]]
      /\ IsTable(f1) /\ FreeFds(f1) = FreeFds(f) \ {m1}
  BY <1>2, <1>4, OpenFacts DEF KEPT
<1> HIDE DEF f1, m1
<1>6. /\ FreeFds(f1) # {} /\ m2 \in FreeFds(f1) /\ \A n \in FreeFds(f1) : m2 <= n
      /\ Cardinality(FreeFds(f1) \ {m2}) >= 2
  <2>1. 3 \in Nat \ {0} /\ 3 - 1 = 2 /\ Cardinality(FreeFds(f1)) >= 3
    BY <1>4, <1>5
  <2> QED
    BY <1>3, <1>5, <2>1
<1>7. /\ f2 = [n \in Fds |-> IF n = m2 THEN KEPT ELSE f1[n]]
      /\ IsTable(f2) /\ FreeFds(f2) = FreeFds(f1) \ {m2}
  BY <1>2, <1>5, <1>6, OpenFacts DEF KEPT
<1> HIDE DEF f2, m2
<1>8. /\ FreeFds(f2) # {} /\ m3 \in FreeFds(f2) /\ \A n \in FreeFds(f2) : m3 <= n
      /\ Cardinality(FreeFds(f2) \ {m3}) >= 1
  <2>1. 2 \in Nat \ {0} /\ 2 - 1 = 1 /\ Cardinality(FreeFds(f2)) >= 2
    BY <1>6, <1>7
  <2> QED
    BY <1>3, <1>7, <2>1
<1>9. /\ f3 = [n \in Fds |-> IF n = m3 THEN Entry("pipe", 0) ELSE f2[n]]
      /\ IsTable(f3) /\ FreeFds(f3) = FreeFds(f2) \ {m3}
  BY <1>2, <1>7, <1>8, OpenFacts
<1> HIDE DEF f3, m3
<1>10. FreeFds(f3) # {} /\ m4 \in FreeFds(f3)
  <2>1. 1 \in Nat \ {0} /\ Cardinality(FreeFds(f3)) >= 1
    BY <1>8, <1>9
  <2> QED
    BY <1>3, <1>9, <2>1
<1>11. /\ f4 = [n \in Fds |-> IF n = m4 THEN Entry("pipe", 0) ELSE f3[n]]
       /\ IsTable(f4)
  BY <1>2, <1>9, <1>10, OpenFacts
<1> HIDE DEF f4, m4
<1>12. /\ c3 = [n \in Fds |-> IF n = m3 THEN FREE ELSE f4[n]] /\ IsTable(c3)
  BY <1>11, CloseFacts
<1> HIDE DEF c3
<1>13. /\ c2 = [n \in Fds |-> IF n = m2 THEN FREE ELSE c3[n]] /\ IsTable(c2)
  BY <1>12, CloseFacts
<1> HIDE DEF c2
<1>14. /\ c4 = [n \in Fds |-> IF n = m4 THEN FREE ELSE c2[n]] /\ IsTable(c4)
  BY <1>13, CloseFacts
<1> HIDE DEF c4
<1>15. c1 = [n \in Fds |-> IF n = m1 THEN FREE ELSE c4[n]]
  BY <1>14, CloseFacts
<1> HIDE DEF c1
<1>16. /\ m1 \in Fds /\ f[m1] = FREE
       /\ {m2, m3, m4} \subseteq Fds /\ f[m2] = FREE /\ f[m3] = FREE /\ f[m4] = FREE
       /\ m1 # m2 /\ m1 # m3 /\ m1 # m4 /\ m2 # m3 /\ m2 # m4 /\ m3 # m4
       /\ m2 <= m4 /\ m3 <= m4
       /\ {m2, m3, m4} \subseteq FreeFds(f1)
  BY <1>4, <1>5, <1>6, <1>7, <1>8, <1>9, <1>10 DEF FreeFds
<1>17. \A n \in Fds : c4[n] = f1[n]
  <2> TAKE n \in Fds
  <2>1. CASE n \in {m2, m3, m4}
    BY <1>5, <1>12, <1>13, <1>14, <1>16, <2>1
  <2>2. CASE n \notin {m2, m3, m4}
    BY <1>7, <1>9, <1>11, <1>12, <1>13, <1>14, <2>2
  <2> QED
    BY <2>1, <2>2
<1>18. c4 = f1
  BY <1>5, <1>14, <1>17 DEF IsTable
<1>19. c1 = f
  <2>1. \A n \in Fds : c1[n] = f[n]
    BY <1>5, <1>15, <1>16, <1>18
  <2> QED
    BY <1>15, <2>1 DEF IsTable
<1>20. Room(f1, m4, 2)
  <2>1. m2 \in Nat /\ m3 \in Nat /\ m4 \in Nat
    BY <1>16, FdsFinite
  <2>2. m2 < m4 /\ m3 < m4
    BY <1>16, <2>1
  <2>3. {m2, m3} \subseteq Below(f1, m4) /\ Below(f1, m4) \subseteq Fds
    BY <1>16, <2>2 DEF Below, FreeFds
  <2>4. /\ IsFiniteSet(Below(f1, m4)) /\ Cardinality(Below(f1, m4)) \in Nat
    BY <2>3, FdsFinite
  <2>5. Cardinality({m2, m3}) = 2
    <3>1. IsFiniteSet({m2}) /\ Cardinality({m2}) = 1
      BY FS_Singleton
    <3>2. Cardinality({m2} \cup {m3}) = 1 + 1
      BY <1>16, <3>1, FS_AddElement
    <3>3. {m2} \cup {m3} = {m2, m3}
      OBVIOUS
    <3> QED
      BY <3>2, <3>3
  <2>6. Cardinality({m2, m3}) <= Cardinality(Below(f1, m4))
    BY <2>3, <2>4, FS_Subset
  <2>7. m4 \in Fds /\ f1[m4] = FREE
    BY <1>16 DEF FreeFds
  <2> QED
    BY <2>4, <2>5, <2>6, <2>7 DEF Room
<1> QED
  BY <1>1, <1>4, <1>6, <1>18, <1>19, <1>20 DEF f1, f2, c4, c1, p

-----------------------------------------------------------------------------
(* The sessions that are waiting can be counted. *)
LEMMA CreatedFinite == IsFiniteSet(Created) /\ Cardinality(Created) \in Nat
<1>1. Created \subseteq Slots
  BY DEF Created
<1> QED
  BY <1>1, SlotsFinite, FS_Subset, FS_CardinalityType

(* The numbers that are kept can be counted. *)
LEMMA KeptFinite == \A f : IsFiniteSet(Kept(f)) /\ Cardinality(Kept(f)) \in Nat
BY FdsFinite DEF Kept

(* The bounds on sessions and paged commands leave free numbers: what is    *)
(* open is the server's, the connections, one for each slot at most, and    *)
(* what has been kept.                                                      *)
LEMMA FreeEnough ==
  ASSUME IsCount(count), Tidy
  PROVE  Cardinality(FreeFds(fds)) >= 4
<1> DEFINE F == FreeFds(fds)
           K == Kept(fds)
           C == {n \in Fds : \E i \in Slots : fds[n] = Entry("client", i)}
           FK == F \cup K
           FKC == FK \cup C
           who == [n \in C |-> fds[n].of]
<1>1. /\ {VTY_CLIENT_MAX, MaxSessions, MaxPaged, FdLimit} \subseteq Nat
      /\ FdLimit > VTY_CLIENT_MAX + MaxSessions + 2 * MaxPaged + 5
  BY SessionsAssumption
<1>2. Fds = FKC \cup {0} /\ 0 \in Fds
  <2>1. \A n \in Fds : fds[n] \in FdEntries
    BY DEF Tidy
  <2>2. \A n \in Fds : fds[n] = Entry("listen", 0) => n = 0
    BY DEF Tidy, Connected
  <2>3. 0 \in Fds
    BY SessionsAssumption DEF Fds
  <2> QED
    BY <2>1, <2>2, <2>3 DEF FdEntries, FreeFds, Kept
<1>3. /\ IsFiniteSet(F) /\ IsFiniteSet(K) /\ IsFiniteSet(C)
      /\ IsFiniteSet(FK) /\ IsFiniteSet(FKC)
      /\ {Cardinality(F), Cardinality(K), Cardinality(C), Cardinality(FK),
          Cardinality(FKC)} \subseteq Nat
      /\ Cardinality(F \cap K) \in Nat /\ Cardinality(FK \cap C) \in Nat
  <2>1. /\ F \subseteq Fds /\ K \subseteq Fds /\ C \subseteq Fds /\ FK \subseteq Fds
        /\ FKC \subseteq Fds /\ F \cap K \subseteq Fds /\ FK \cap C \subseteq Fds
    BY DEF FreeFds, Kept
  <2> HIDE DEF F, K, C, FK, FKC
  <2> QED
    BY <2>1, FdsFinite
<1>4. who \in Injection(C, Slots)
  <2>1. \A n \in C : \E i \in Slots : fds[n] = Entry("client", i) /\ who[n] = i
    <3>1. \A i : Entry("client", i).of = i
      BY DEF Entry
    <3> QED
      BY <3>1
  <2>2. \A n \in C, i \in Slots : fds[n] = Entry("client", i) => client_fd[i] = n
    BY DEF Tidy, Connected
  <2>3. \A n \in C : who[n] \in Slots /\ client_fd[who[n]] = n
    <3> HIDE DEF C, who
    <3> QED
      BY <2>1, <2>2
  <2>4. who \in [C -> Slots]
    <3> HIDE DEF C
    <3> QED
      BY <2>3
  <2>5. \A m, n \in C : who[m] = who[n] => m = n
    BY <2>3
  <2> HIDE DEF C, who
  <2> QED
    BY <2>4, <2>5 DEF Injection, IsInjective
<1>5. Cardinality(C) <= VTY_CLIENT_MAX
  <2> HIDE DEF C, who
  <2> QED
    BY <1>4, SlotsFinite, FS_Injection
<1>6. Cardinality(K) <= MaxSessions + 2 * MaxPaged
  <2>1. /\ Cardinality(K) + Cardinality(Created) = count.paged + count.slaves + count.served
        /\ count.slaves <= count.paged /\ count.paged <= MaxPaged
        /\ count.served <= MaxSessions
    BY DEF Tidy, Counted
  <2>2. {count.paged, count.slaves, count.served} \subseteq Nat
    BY DEF IsCount
  <2> HIDE DEF K
  <2> QED
    BY <1>1, <1>3, <2>1, <2>2, CreatedFinite
<1>7. Cardinality(FK) = Cardinality(F) + Cardinality(K) - Cardinality(F \cap K)
  <2> HIDE DEF F, K
  <2> QED
    BY <1>3, FS_Union
<1>8. Cardinality(FKC) = Cardinality(FK) + Cardinality(C) - Cardinality(FK \cap C)
  <2> HIDE DEF FK, C
  <2> QED
    BY <1>3, FS_Union
<1>9. FdLimit <= Cardinality(FKC) + 1
  <2> HIDE DEF FKC
  <2>1. Cardinality(FKC \cup {0}) =
          IF 0 \in FKC THEN Cardinality(FKC) ELSE Cardinality(FKC) + 1
    BY <1>3, FS_AddElement
  <2>2. FdLimit = Cardinality(FKC \cup {0})
    BY <1>2, FdsFinite
  <2> QED
    BY <1>3, <2>1, <2>2
<1> HIDE DEF F, K, C, FK, FKC
<1>10. Cardinality(F) >= 4
  BY <1>1, <1>3, <1>5, <1>6, <1>7, <1>8, <1>9
<1> QED
  BY <1>10 DEF F

(* One more that stays open. *)
LEMMA OpenKept ==
  ASSUME NEW f \in [Fds -> FdEntries], NEW c, Connected(f, c), FreeFds(f) # {}
  PROVE  LET g == Open(f, "kept", 0)
         IN  /\ g \in [Fds -> FdEntries]
             /\ Connected(g, c)
             /\ Cardinality(Kept(g)) = Cardinality(Kept(f)) + 1
<1> DEFINE g == Open(f, "kept", 0)
           m == Lowest(f)
<1>1. m \in Fds /\ f[m] = FREE
  BY LowestFree
<1>2. IsTable(f) /\ Entry("kept", 0) # FREE
  BY EntriesDiffer DEF IsTable, KEPT
<1>3. g = [n \in Fds |-> IF n = m THEN KEPT ELSE f[n]]
  BY <1>2, OpenFacts DEF KEPT
<1> HIDE DEF g, m
<1>4. KEPT \in FdEntries
  BY DEF FdEntries
<1>5. g \in [Fds -> FdEntries]
  BY <1>3, <1>4
<1>6. Connected(g, c)
  BY <1>1, <1>3, EntriesDiffer DEF Connected
<1>7. Kept(g) = Kept(f) \cup {m} /\ m \notin Kept(f)
  BY <1>1, <1>3, EntriesDiffer DEF Kept
<1>8. Cardinality(Kept(f) \cup {m}) = Cardinality(Kept(f)) + 1
  BY <1>7, KeptFinite, FS_AddElement
<1> QED
  BY <1>5, <1>6, <1>7, <1>8 DEF g

(* A connection. *)
LEMMA OpenClient ==
  ASSUME NEW f \in [Fds -> FdEntries], NEW c, c = [j \in Slots |-> c[j]],
         Connected(f, c), FreeFds(f) # {}, NEW i \in Slots, c[i] = -1
  PROVE  LET g == Open(f, "client", i)
         IN  /\ g \in [Fds -> FdEntries]
             /\ Connected(g, [c EXCEPT ![i] = Lowest(f)])
             /\ Kept(g) = Kept(f)
<1> DEFINE g == Open(f, "client", i)
           m == Lowest(f)
           e == Entry("client", i)
           d == [c EXCEPT ![i] = m]
<1>1. m \in Fds /\ f[m] = FREE
  BY LowestFree
<1>2. IsTable(f) /\ e # FREE
  BY EntriesDiffer DEF IsTable
<1>3. g = [n \in Fds |-> IF n = m THEN e ELSE f[n]]
  BY <1>2, OpenFacts
<1>4. e \in FdEntries
  BY DEF FdEntries
<1> HIDE DEF g, m
<1>5. d = [j \in Slots |-> IF j = i THEN m ELSE c[j]]
  OBVIOUS
<1>6. g \in [Fds -> FdEntries]
  <2> HIDE DEF e
  <2> QED
    BY <1>3, <1>4
<1>7. -1 \notin Fds
  BY FdsFinite
<1> HIDE DEF d
<1>8. \A j \in Slots : d[j] # -1 => d[j] \in Fds /\ g[d[j]] = Entry("client", j)
  BY <1>1, <1>3, <1>5, EntriesDiffer DEF Connected, e
<1>9. \A n \in Fds, j \in Slots : g[n] = Entry("client", j) => d[j] = n
  <2> SUFFICES ASSUME NEW n \in Fds, NEW j \in Slots, g[n] = Entry("client", j)
               PROVE  d[j] = n
    OBVIOUS
  <2>1. CASE n = m
    BY <1>3, <1>5, <2>1, EntriesDiffer DEF e
  <2>2. CASE n # m
    <3>1. c[j] = n
      BY <1>3, <2>2 DEF Connected
    <3> QED
      BY <1>5, <1>7, <3>1
  <2> QED
    BY <2>1, <2>2
<1>10. \A n \in Fds : g[n] = Entry("listen", 0) => n = 0
  BY <1>1, <1>3, EntriesDiffer DEF Connected, e
<1>11. Kept(g) = Kept(f)
  BY <1>1, <1>3, EntriesDiffer DEF Kept, e
<1> QED
  BY <1>6, <1>8, <1>9, <1>10, <1>11 DEF Connected, g, d, m

(* The end of a connection, whose number may be closed twice. *)
LEMMA CloseClient ==
  ASSUME NEW f \in [Fds -> FdEntries], NEW c, c = [j \in Slots |-> c[j]],
         Connected(f, c), NEW i \in Slots
  PROVE  LET g == Close(f, c[i])
         IN  /\ g \in [Fds -> FdEntries]
             /\ Connected(g, [c EXCEPT ![i] = -1])
             /\ Kept(g) = Kept(f)
             /\ Close(g, c[i]) = g
<1> DEFINE m == c[i]
           g == Close(f, m)
           d == [c EXCEPT ![i] = -1]
<1>1. IsTable(f)
  BY DEF IsTable
<1>2. m # -1 => m \in Fds /\ f[m] = Entry("client", i)
  BY DEF Connected
<1> HIDE DEF m
<1>3. g = [n \in Fds |-> IF n = m THEN FREE ELSE f[n]] /\ IsTable(g)
  BY <1>1, CloseFacts
<1> HIDE DEF g
<1>4. Close(g, m) = g
  <2>1. Close(g, m) = [n \in Fds |-> IF n = m THEN FREE ELSE g[n]]
    BY <1>3, CloseFacts
  <2> QED
    BY <1>3, <2>1
<1>5. FREE \in FdEntries /\ -1 \notin Fds
  BY FdsFinite DEF FdEntries
<1>6. g \in [Fds -> FdEntries]
  BY <1>3, <1>5
<1>7. d = [j \in Slots |-> IF j = i THEN -1 ELSE c[j]]
  OBVIOUS
<1> HIDE DEF d
<1>8. \A j \in Slots : d[j] # -1 => d[j] \in Fds /\ g[d[j]] = Entry("client", j)
  <2> SUFFICES ASSUME NEW j \in Slots, d[j] # -1
               PROVE  d[j] \in Fds /\ g[d[j]] = Entry("client", j)
    OBVIOUS
  <2>1. j # i /\ d[j] = c[j]
    BY <1>7
  <2>2. c[j] \in Fds /\ f[c[j]] = Entry("client", j)
    BY <2>1 DEF Connected
  <2>3. c[j] # m
    BY <1>2, <1>5, <2>1, <2>2, EntriesDiffer
  <2> QED
    BY <1>3, <2>1, <2>2, <2>3
<1>9. \A n \in Fds, j \in Slots : g[n] = Entry("client", j) => d[j] = n
  <2> SUFFICES ASSUME NEW n \in Fds, NEW j \in Slots, g[n] = Entry("client", j)
               PROVE  d[j] = n
    OBVIOUS
  <2>1. n # m /\ f[n] = Entry("client", j)
    BY <1>3, EntriesDiffer
  <2>2. c[j] = n
    BY <2>1 DEF Connected
  <2> QED
    BY <1>7, <2>1, <2>2 DEF m
<1>10. \A n \in Fds : g[n] = Entry("listen", 0) => n = 0
  BY <1>3, EntriesDiffer DEF Connected
<1>11. Kept(g) = Kept(f)
  <2>1. m \in Fds => m # -1
    BY <1>5
  <2> QED
    BY <1>2, <1>3, <2>1, EntriesDiffer DEF Kept
<1> QED
  BY <1>4, <1>6, <1>8, <1>9, <1>10, <1>11 DEF Connected, g, d, m

-----------------------------------------------------------------------------
(* The fields of a session that pages, behind the updates of the pager. *)
LEMMA PagingFields ==
  ASSUME NEW r, IsSession(r), NEW a, NEW b, NEW c, NEW d
  PROVE  LET q == [r EXCEPT !.is_paging = a, !.pager = b, !.pipefd = c]
             s == [r EXCEPT !.is_paging = a, !.opened = d, !.pager = b, !.pipefd = c]
         IN  /\ q.is_paging = a /\ q.pipefd = c /\ q.opened = r.opened
             /\ s.is_paging = a /\ s.pipefd = c /\ s.opened = d
<1> DEFINE r1 == [r EXCEPT !.is_paging = a]
           r2 == [r1 EXCEPT !.pager = b]
           r3 == [r2 EXCEPT !.pipefd = c]
           q2 == [r1 EXCEPT !.opened = d]
           q3 == [q2 EXCEPT !.pager = b]
           q4 == [q3 EXCEPT !.pipefd = c]
<1>1. IsSession(r1) /\ r1.is_paging = a /\ r1.opened = r.opened
  BY DEF IsSession
<1>2. /\ IsSession(r2) /\ r2.is_paging = a /\ r2.opened = r.opened
      /\ IsSession(q2) /\ q2.is_paging = a /\ q2.opened = d
  <2> HIDE DEF r1
  <2> QED
    BY <1>1 DEF IsSession
<1>3. /\ r3.is_paging = a /\ r3.opened = r.opened /\ r3.pipefd = c
      /\ IsSession(q3) /\ q3.is_paging = a /\ q3.opened = d
  <2> HIDE DEF r2, q2
  <2> QED
    BY <1>2 DEF IsSession
<1>4. q4.is_paging = a /\ q4.opened = d /\ q4.pipefd = c
  <2> HIDE DEF q3
  <2> QED
    BY <1>3 DEF IsSession
<1>5. /\ [r EXCEPT !.is_paging = a, !.pager = b, !.pipefd = c] = r3
      /\ [r EXCEPT !.is_paging = a, !.opened = d, !.pager = b, !.pipefd = c] = q4
  OBVIOUS
<1> QED
  BY <1>3, <1>4, <1>5

(* No session begins to page, and none sees a descriptor opened. *)
Quieter ==
  \A j \in Slots :
    /\ session'[j].opened = session[j].opened
    /\ session'[j].is_paging =>
         session[j].is_paging /\ session'[j].pipefd = session[j].pipefd

(* Steps of a session or of its pager that open nothing leave nobody more exposed. *)
LEMMA QuieterPager ==
  ASSUME TableInv, NEW i,
         \/ session' = session
         \/ session' = [session EXCEPT ![i].eof = TRUE]
         \/ session' = [session EXCEPT ![i].pager = "gone"]
         \/ session' = [session EXCEPT ![i].is_paging = FALSE, ![i].pager = "none",
                                       ![i].pipefd = -1]
  PROVE  Quieter
<1> DEFINE r == session[i]
           new == [r EXCEPT !.is_paging = FALSE, !.pager = "none", !.pipefd = -1]
<1>1. session = [j \in Slots |-> session[j]] /\ \A j \in Slots : IsSession(session[j])
  BY DEF TableInv
<1>2. CASE session' = session
  BY <1>2 DEF Quieter
<1>3. CASE session' # session
  <2>1. i \in Slots
    BY <1>1, <1>3
  <2>2. IsSession(r)
    BY <1>1, <2>1
  <2>3. \/ session' = [j \in Slots |-> IF j = i THEN [r EXCEPT !.eof = TRUE] ELSE session[j]]
        \/ session' = [j \in Slots |-> IF j = i THEN [r EXCEPT !.pager = "gone"] ELSE session[j]]
        \/ session' = [j \in Slots |-> IF j = i THEN new ELSE session[j]]
    BY <1>1, <1>3
  <2>4. /\ [r EXCEPT !.eof = TRUE].opened = r.opened
        /\ [r EXCEPT !.eof = TRUE].pipefd = r.pipefd
        /\ [r EXCEPT !.eof = TRUE].is_paging = r.is_paging
        /\ [r EXCEPT !.pager = "gone"].opened = r.opened
        /\ [r EXCEPT !.pager = "gone"].pipefd = r.pipefd
        /\ [r EXCEPT !.pager = "gone"].is_paging = r.is_paging
    <3> HIDE DEF r
    <3> QED
      BY <2>2 DEF IsSession
  <2>5. new.opened = r.opened /\ new.is_paging = FALSE
    <3> HIDE DEF r
    <3> QED
      BY <2>2, PagingFields
  <2> DEFINE e == [r EXCEPT !.eof = TRUE]
             g == [r EXCEPT !.pager = "gone"]
  <2> HIDE DEF new, e, g
  <2>6. /\ e.opened = r.opened /\ e.pipefd = r.pipefd /\ e.is_paging = r.is_paging
        /\ g.opened = r.opened /\ g.pipefd = r.pipefd /\ g.is_paging = r.is_paging
    BY <2>4 DEF e, g
  <2>7. \E n \in {e, g, new} : session' = [j \in Slots |-> IF j = i THEN n ELSE session[j]]
    BY <2>3 DEF e, g
  <2> QED
    BY <2>5, <2>6, <2>7 DEF Quieter
<1> QED
  BY <1>2, <1>3

(* A session that pages keeps its room when no session gets more exposed. *)
LEMMA QuieterRoom ==
  ASSUME NEW f, Roomy(f, session), Quieter
  PROVE  Roomy(f, session')
BY DEF Roomy, Quieter, PagerRoom

(* The steps that open and close nothing. *)
LEMMA FdFrame ==
  ASSUME Tidy, UNCHANGED <<fds, client_fd>>, Quieter, Created' = Created,
         count'.paged = count.paged, count'.slaves = count.slaves,
         count'.served = count.served
  PROVE  Tidy'
<1>1. Roomy(fds, session')
  BY QuieterRoom DEF Tidy
<1> QED
  BY <1>1 DEF Tidy, Counted

(* A step that leaves the thread entries alone starts no session. *)
LEMMA SameCreated == SameEntries => Created' = Created
BY DEF SameEntries, Created

(* vty_server(): a connection, and a session that is counted before its     *)
(* socket is there.                                                         *)
LEMMA AcceptFds ==
  ASSUME TableInv, IsCount(count), Tidy, Accept
  PROVE  Tidy'
<1>1. CASE FreeSlots = {} \/ FreeFds(fds) = {}
  <2>1. UNCHANGED <<client_fd, session, fds, count>>
    BY <1>1 DEF Accept
  <2>2. Quieter /\ Created' = Created
    BY <2>1 DEF Quieter, Created
  <2> QED
    BY <2>1, <2>2, FdFrame
<1>2. CASE FreeSlots # {} /\ FreeFds(fds) # {}
  <2> DEFINE i == Min(FreeSlots)
             new == [NoSession EXCEPT !.state = "created"]
             crowd == Crowd(session, 1)
  <2>1. i \in Slots /\ client_fd[i] = -1
    <3>1. FreeSlots \subseteq Nat
      BY SlotsAreNumbers DEF FreeSlots
    <3>2. i \in FreeSlots
      BY <1>2, <3>1, MinIsElement
    <3> QED
      BY <3>2 DEF FreeSlots
  <2>2. /\ count.served < MaxSessions
        /\ client_fd' = [client_fd EXCEPT ![i] = Lowest(fds)]
        /\ fds' = Open(fds, "client", i)
        /\ session' = [crowd EXCEPT ![i] = new]
        /\ count' = [count EXCEPT !.served = count.served + 1]
    BY <1>2 DEF Accept
  <2>3. new.opened = 0 /\ new.is_paging = FALSE /\ new.state = "created"
    BY DEF NoSession
  <2>4. /\ crowd = [j \in Slots |-> crowd[j]]
        /\ \A j \in Slots : crowd[j].state = session[j].state
    BY CrowdSame
  <2> HIDE DEF i, new, crowd
  <2>5. session' = [j \in Slots |-> IF j = i THEN new ELSE crowd[j]]
    BY <2>1, <2>2, <2>4
  <2>6. /\ fds' \in [Fds -> FdEntries] /\ Connected(fds', client_fd') /\ Kept(fds') = Kept(fds)
    BY <1>2, <2>1, <2>2, OpenClient DEF Tidy, TableInv
  <2>7. Roomy(fds', crowd)
    <3>1. IsTable(fds) /\ Entry("client", i) # FREE
      BY EntriesDiffer DEF Tidy, IsTable
    <3> QED
      BY <1>2, <2>2, <3>1, CrowdRoom DEF Tidy, crowd
  <2>8. Roomy(fds', session')
    BY <2>3, <2>5, <2>7 DEF Roomy, PagerRoom
  <2>9. Created' = Created \cup {i} /\ i \notin Created
    <3>1. session[i].state = "none"
      BY <2>1 DEF TableInv
    <3> QED
      BY <2>1, <2>3, <2>4, <2>5, <3>1 DEF Created
  <2>10. Cardinality(Created') = Cardinality(Created) + 1
    BY <2>9, CreatedFinite, FS_AddElement
  <2>11. /\ count'.served = count.served + 1 /\ count'.paged = count.paged
         /\ count'.slaves = count.slaves
    <3>1. count' = Ghosts(count.served + 1, count.paged, count.slaves, count.starts,
                          count.wild, count.crowded)
      BY <2>2, CountUpdates
    <3> QED
      BY <3>1 DEF Ghosts
  <2>12. Counted'
    <3>1. Counted /\ Cardinality(Kept(fds)) \in Nat
      BY KeptFinite DEF Tidy
    <3>2. {count.paged, count.slaves, count.served} \subseteq Nat
          /\ {MaxSessions, MaxPaged} \subseteq Nat
      BY SessionsAssumption DEF IsCount
    <3>3. count.served < MaxSessions /\ Cardinality(Kept(fds')) = Cardinality(Kept(fds))
      BY <2>2, <2>6
    <3> QED
      BY <2>10, <2>11, <3>1, <3>2, <3>3, CreatedFinite DEF Counted
  <2> QED
    BY <2>6, <2>8, <2>12 DEF Tidy
<1> QED
  BY <1>1, <1>2

(* The banner's socket of a session that starts. *)
LEMMA VtyStartFds ==
  ASSUME TableInv, IsCount(count), Tidy, NEW i \in Slots, VtyStart(i)
  PROVE  Tidy'
<1> DEFINE crowd == Crowd(session, 1)
           id == RegisteredId(threads)
<1>1. /\ session[i].state = "created"
      /\ fds' = Open(fds, "kept", 0)
      /\ session' = [crowd EXCEPT ![i].state = "running", ![i].thread_id = id]
      /\ UNCHANGED <<client_fd, count>>
  BY DEF VtyStart
<1>2. /\ crowd = [j \in Slots |-> crowd[j]]
      /\ \A j \in Slots : IsSession(crowd[j]) /\ crowd[j].state = session[j].state
  BY CrowdSame
<1>3. FreeFds(fds) # {} /\ IsTable(fds) /\ Entry("kept", 0) # FREE
  <2>1. IsTable(fds)
    BY DEF Tidy, IsTable
  <2> QED
    BY <2>1, FreeEnough, PagerFour, EntriesDiffer DEF KEPT
<1>4. Roomy(fds', crowd)
  BY <1>1, <1>3, CrowdRoom DEF Tidy
<1> HIDE DEF crowd, id
<1> DEFINE r == crowd[i]
           q == [r EXCEPT !.state = "running"]
           new == [q EXCEPT !.thread_id = id]
<1>5. session' = [j \in Slots |-> IF j = i THEN new ELSE crowd[j]]
  <2>1. session' = [j \in Slots |->
                      IF j = i THEN [r EXCEPT !.state = "running", !.thread_id = id]
                      ELSE crowd[j]]
    BY <1>1, <1>2
  <2>2. [r EXCEPT !.state = "running", !.thread_id = id] = new
    OBVIOUS
  <2> QED
    BY <2>1, <2>2
<1>6. /\ new.state = "running" /\ new.opened = r.opened
      /\ new.is_paging = r.is_paging /\ new.pipefd = r.pipefd
  <2>1. IsSession(r)
    BY <1>2
  <2> HIDE DEF r
  <2>2. /\ IsSession(q) /\ q.state = "running" /\ q.opened = r.opened
        /\ q.is_paging = r.is_paging /\ q.pipefd = r.pipefd
    BY <2>1 DEF IsSession
  <2> HIDE DEF q
  <2>3. /\ new.state = q.state /\ new.opened = q.opened
        /\ new.is_paging = q.is_paging /\ new.pipefd = q.pipefd
    BY <2>2 DEF IsSession
  <2> QED
    BY <2>2, <2>3
<1> HIDE DEF new
<1>7. Roomy(fds', session')
  BY <1>4, <1>5, <1>6 DEF Roomy, PagerRoom
<1>8. Created' = Created \ {i} /\ i \in Created
  BY <1>1, <1>2, <1>5, <1>6 DEF Created
<1>9. Cardinality(Created') = Cardinality(Created) - 1
  BY <1>8, CreatedFinite, FS_RemoveElement
<1>10. /\ fds' \in [Fds -> FdEntries] /\ Connected(fds', client_fd')
       /\ Cardinality(Kept(fds')) = Cardinality(Kept(fds)) + 1
  BY <1>1, <1>3, OpenKept DEF Tidy
<1>11. Counted'
  <2>1. Counted /\ Cardinality(Kept(fds)) \in Nat
    BY KeptFinite DEF Tidy
  <2>2. {count.paged, count.slaves, count.served} \subseteq Nat
    BY DEF IsCount
  <2> QED
    BY <1>1, <1>9, <1>10, <2>1, <2>2, CreatedFinite DEF Counted
<1> QED
  BY <1>7, <1>10, <1>11 DEF Tidy

(* The end of a session closes its connection and nothing else. *)
LEMMA EndSessionFds ==
  ASSUME TableInv, Tidy, NEW i \in Slots, Live(i),
         NEW f \in {fds, Close(fds, client_fd[i])}, EndSession(i, f),
         count'.paged = count.paged, count'.slaves = count.slaves,
         count'.served = count.served
  PROVE  Tidy'
<1> DEFINE g == Close(fds, client_fd[i])
<1>1. /\ fds' = Close(f, client_fd[i])
      /\ client_fd' = [client_fd EXCEPT ![i] = -1]
      /\ session' = [session EXCEPT ![i] = NoSession]
  BY DEF EndSession
<1>2. /\ g \in [Fds -> FdEntries]
      /\ Connected(g, client_fd')
      /\ Kept(g) = Kept(fds)
      /\ Close(g, client_fd[i]) = g
  BY <1>1, CloseClient DEF Tidy, TableInv
<1>3. fds' = g
  BY <1>1, <1>2
<1>4. session' = [j \in Slots |-> IF j = i THEN NoSession ELSE session[j]]
  BY <1>1 DEF TableInv
<1>5. NoSession.opened = 0 /\ NoSession.is_paging = FALSE /\ NoSession.state = "none"
  BY DEF NoSession
<1>6. Roomy(g, session)
  <2> SUFFICES ASSUME NEW j \in Slots PROVE session[j].opened \in Nat /\ PagerRoom(g, session[j])
    BY DEF Roomy
  <2>1. session[j].opened \in Nat /\ PagerRoom(fds, session[j]) /\ IsTable(fds)
    BY DEF Tidy, Roomy, IsTable
  <2>2. ASSUME session[j].is_paging, session[j].opened <= 2
        PROVE  Room(g, session[j].pipefd, 2 - session[j].opened)
    <3> DEFINE k == 2 - session[j].opened
    <3>1. k \in Nat /\ Room(fds, session[j].pipefd, k)
      BY <2>1, <2>2 DEF PagerRoom
    <3> HIDE DEF k
    <3>2. Room(g, session[j].pipefd, k)
      BY <2>1, <3>1, CloseRoom
    <3> QED
      BY <3>2 DEF k
  <2> HIDE DEF g
  <2> QED
    BY <2>1, <2>2 DEF PagerRoom
<1>7. Roomy(fds', session')
  <2> HIDE DEF g
  <2> QED
    BY <1>3, <1>4, <1>5, <1>6 DEF Roomy, PagerRoom
<1>8. Created' = Created
  BY <1>4, <1>5 DEF Created, Live
<1> HIDE DEF g
<1> QED
  BY <1>2, <1>3, <1>7, <1>8 DEF Tidy, Counted

(* A command behind the pager: the pty master stays, and the number of the  *)
(* pipe is the fourth free one.                                             *)
LEMMA PagedCommandFds ==
  ASSUME TableInv, IsCount(count), Tidy, NEW i \in Slots, PagedCommand(i)
  PROVE  Tidy'
<1> DEFINE crowd == Crowd(session, 1)
           w == PagerFds(fds).writer
<1>1. IsTable(fds) /\ Cardinality(FreeFds(fds)) >= 4 /\ Entry("kept", 0) # FREE
  BY FreeEnough, EntriesDiffer DEF Tidy, IsTable, KEPT
<1>2. /\ count.paged < MaxPaged
      /\ fds' = Close(ParentCloses(PagerFds(fds)), w)
      /\ count' = [count EXCEPT !.paged = count.paged + 1]
      /\ UNCHANGED client_fd
      /\ session[i].state = "running"
  BY DEF PagedCommand, Live
<1>3. fds' = Open(fds, "kept", 0) /\ FreeFds(fds) # {} /\ Room(fds', w, 2)
  BY <1>1, <1>2, PagerFour
<1>4. PICK gone \in BOOLEAN :
        session' = [crowd EXCEPT
                       ![i].is_paging = ~gone, ![i].opened = 0,
                       ![i].pager = IF gone THEN "none" ELSE "shows",
                       ![i].pipefd = IF gone THEN -1 ELSE w]
  BY DEF PagedCommand
<1>5. crowd = [j \in Slots |-> crowd[j]] /\ \A j \in Slots : IsSession(crowd[j])
  BY CrowdSame
<1>6. Roomy(fds', crowd)
  BY <1>1, <1>3, CrowdRoom DEF Tidy
<1> DEFINE a == ~gone
           b == IF gone THEN "none" ELSE "shows"
           c == IF gone THEN -1 ELSE w
           q == crowd[i]
           new == [q EXCEPT !.is_paging = a, !.opened = 0, !.pager = b, !.pipefd = c]
<1>7. session' = [crowd EXCEPT ![i].is_paging = a, ![i].opened = 0, ![i].pager = b,
                               ![i].pipefd = c]
  BY <1>4
<1>8. a => c = w
  OBVIOUS
<1> HIDE DEF a, b, c, crowd, w
<1>9. session' = [j \in Slots |-> IF j = i THEN new ELSE crowd[j]]
  BY <1>5, <1>7
<1>10. new.is_paging = a /\ new.opened = 0 /\ new.pipefd = c
  <2>1. IsSession(q)
    BY <1>5
  <2> HIDE DEF q
  <2> QED
    BY <2>1, PagingFields
<1> HIDE DEF new
<1>11. Roomy(fds', session')
  <2>1. new.opened \in Nat /\ PagerRoom(fds', new)
    <3>1. 2 - 0 = 2
      OBVIOUS
    <3> QED
      BY <1>3, <1>8, <1>10, <3>1 DEF PagerRoom
  <2> QED
    BY <1>6, <1>9, <2>1 DEF Roomy
<1>12. /\ fds' \in [Fds -> FdEntries] /\ Connected(fds', client_fd')
       /\ Cardinality(Kept(fds')) = Cardinality(Kept(fds)) + 1
  BY <1>2, <1>3, OpenKept DEF Tidy
<1>13. Created' = Created
  BY PagerSame, SameCreated
<1>14. /\ count'.served = count.served /\ count'.paged = count.paged + 1
       /\ count'.slaves = count.slaves
  <2>1. count' = Ghosts(count.served, count.paged + 1, count.slaves, count.starts,
                        count.wild, count.crowded)
    BY <1>2, CountUpdates
  <2> QED
    BY <2>1 DEF Ghosts
<1>15. Counted'
  <2>1. Counted /\ Cardinality(Kept(fds)) \in Nat
    BY KeptFinite DEF Tidy
  <2>2. {count.paged, count.slaves, count.served} \subseteq Nat
        /\ {MaxSessions, MaxPaged} \subseteq Nat /\ count.paged < MaxPaged
    BY <1>2, SessionsAssumption DEF IsCount
  <2> QED
    BY <1>12, <1>13, <1>14, <2>1, <2>2, CreatedFinite DEF Counted
<1> QED
  BY <1>11, <1>12, <1>15 DEF Tidy

(* A pager that does not start: both ends of the pty stay, or nothing. *)
LEMMA PagerFailsFds ==
  ASSUME TableInv, IsCount(count), Tidy, NEW i \in Slots, PagerFails(i)
  PROVE  Tidy'
<1> DEFINE p == PagerFds(fds)
           g == Open(fds, "kept", 0)
           h == Open(g, "kept", 0)
<1>1. IsTable(fds) /\ Cardinality(FreeFds(fds)) >= 4 /\ Entry("kept", 0) # FREE
  BY FreeEnough, EntriesDiffer DEF Tidy, IsTable, KEPT
<1>2. /\ FreeFds(fds) # {} /\ FreeFds(g) # {} /\ p.pty = h
      /\ Close(Close(ParentCloses(p), p.writer), p.master) = fds
  BY <1>1, PagerFour
<1>3. /\ count.paged < MaxPaged
      /\ \/ /\ fds' = p.pty
            /\ session' = Crowd(session, 2)
            /\ count' = [count EXCEPT !.paged = count.paged + 1,
                                      !.slaves = count.slaves + 1]
         \/ /\ fds' = Close(Close(ParentCloses(p), p.writer), p.master)
            /\ UNCHANGED <<session, count>>
      /\ UNCHANGED client_fd
  BY DEF PagerFails
<1>4. Created' = Created
  BY PagerSame, SameCreated
<1> HIDE DEF p
<1>5. CASE /\ fds' = fds
           /\ UNCHANGED <<session, count>>
  BY <1>3, <1>4, <1>5, FdFrame DEF Quieter
<1>6. CASE /\ fds' = h
           /\ session' = Crowd(session, 2)
           /\ count' = [count EXCEPT !.paged = count.paged + 1,
                                     !.slaves = count.slaves + 1]
  <2>1. Roomy(fds', session')
    BY <1>1, <1>2, <1>6, CrowdRoom DEF Tidy
  <2>2. /\ g \in [Fds -> FdEntries] /\ Connected(g, client_fd)
        /\ Cardinality(Kept(g)) = Cardinality(Kept(fds)) + 1
    BY <1>2, OpenKept DEF Tidy
  <2> HIDE DEF g
  <2>3. /\ h \in [Fds -> FdEntries] /\ Connected(h, client_fd)
        /\ Cardinality(Kept(h)) = Cardinality(Kept(g)) + 1
    BY <1>2, <2>2, OpenKept
  <2>4. /\ count'.served = count.served /\ count'.paged = count.paged + 1
        /\ count'.slaves = count.slaves + 1
    <3> DEFINE a == count.paged + 1
               b == count.slaves + 1
    <3>1. count' = [count EXCEPT !.paged = a, !.slaves = b]
      BY <1>6
    <3> HIDE DEF a, b
    <3>2. count' = Ghosts(count.served, a, b, count.starts, count.wild, count.crowded)
      BY <3>1, CountUpdates
    <3> QED
      BY <3>2 DEF Ghosts, a, b
  <2> HIDE DEF h
  <2>5. Counted'
    <3>1. Counted /\ Cardinality(Kept(fds)) \in Nat
      BY KeptFinite DEF Tidy
    <3>2. {count.paged, count.slaves, count.served} \subseteq Nat
          /\ {MaxSessions, MaxPaged} \subseteq Nat /\ count.paged < MaxPaged
      BY <1>3, SessionsAssumption DEF IsCount
    <3>3. Cardinality(Kept(fds')) = Cardinality(Kept(fds)) + 2
      BY <1>6, <2>2, <2>3, <3>1
    <3>4. Cardinality(Created') = Cardinality(Created)
      BY <1>4
    <3>5. /\ Cardinality(Kept(fds)) + Cardinality(Created)
               = count.paged + count.slaves + count.served
          /\ count.slaves <= count.paged /\ count.served <= MaxSessions
      BY <3>1 DEF Counted
    <3>6. Cardinality(Kept(fds')) + Cardinality(Created')
            = count'.paged + count'.slaves + count'.served
      BY <2>4, <3>1, <3>2, <3>3, <3>4, <3>5, CreatedFinite
    <3>7. count'.slaves <= count'.paged /\ count'.paged <= MaxPaged
          /\ count'.served <= MaxSessions
      BY <2>4, <3>2, <3>5
    <3> QED
      BY <3>6, <3>7 DEF Counted
  <2>6. fds' \in [Fds -> FdEntries] /\ Connected(fds', client_fd')
    BY <1>3, <1>6, <2>3
  <2> QED
    BY <2>1, <2>5, <2>6 DEF Tidy
<1> QED
  BY <1>2, <1>3, <1>5, <1>6

(* The close of the pipe's number at every turn finds it free, or the ghost *)
(* of the third descriptor is raised.                                       *)
LEMMA PagingTurnFds ==
  ASSUME TableInv, IsCount(count), Tidy, NEW i \in Slots, PagingTurn(i)
  PROVE  count'.crowded \/ Tidy'
<1> DEFINE p == session[i].pipefd
           v == count.crowded \/ Crowded
<1>1. /\ session[i].is_paging
      /\ fds' = Close(fds, p)
      /\ \/ session' = session
         \/ session' = [session EXCEPT ![i].is_paging = FALSE, ![i].pager = "none",
                                       ![i].pipefd = -1]
      /\ count' = [count EXCEPT !.crowded = v]
      /\ UNCHANGED client_fd
  BY DEF PagingTurn, StaleClose, Watch
<1>2. /\ count'.crowded = v /\ count'.served = count.served
      /\ count'.paged = count.paged /\ count'.slaves = count.slaves
  <2> HIDE DEF v
  <2>1. count' = Ghosts(count.served, count.paged, count.slaves, count.starts,
                        count.wild, v)
    BY <1>1, CountUpdates
  <2> QED
    BY <2>1 DEF Ghosts
<1>3. CASE Crowded
  BY <1>2, <1>3
<1>4. CASE ~Crowded
  <2>1. session[i].opened \in Nat /\ PagerRoom(fds, session[i])
    BY DEF Tidy, Roomy
  <2>2. session[i].opened <= 2
    BY <1>1, <1>4, <2>1 DEF Crowded
  <2>3. p \in Fds /\ fds[p] = FREE
    BY <1>1, <2>1, <2>2 DEF PagerRoom, Room
  <2> HIDE DEF p
  <2>4. fds' = fds
    BY <1>1, <2>3 DEF Close, Tidy
  <2>5. Quieter
    BY <1>1, QuieterPager
  <2>6. Created' = Created
    BY PagerSame, SameCreated
  <2> QED
    BY <1>1, <1>2, <2>4, <2>5, <2>6, FdFrame
<1> QED
  BY <1>3, <1>4

(* Every step keeps the accounts of the descriptors. *)
LEMMA FdStep ==
  ASSUME FdInv, [Next]_vars
  PROVE  FdInv'
<1>1. TableInv /\ IsCount(count)
  BY DEF FdInv
<1>2. TableInv' /\ IsCount(count') /\ (count.crowded => count'.crowded)
  BY <1>1, NextTable, CountSteps
<1> SUFFICES ASSUME Tidy PROVE count'.crowded \/ Tidy'
  BY <1>2 DEF FdInv
<1>3. CASE Accept
  BY <1>1, <1>3, AcceptFds
<1>4. ASSUME NEW i \in Slots, VtyStart(i) PROVE Tidy'
  BY <1>1, <1>4, VtyStartFds
<1>5. ASSUME NEW i \in Slots, ReadEof(i) \/ VtyExit(i) \/ SessionEnds(i) PROVE Tidy'
  <2>1. /\ Live(i) /\ count' = [count EXCEPT !.wild = Wild(i)]
        /\ \E f \in {fds, Close(fds, client_fd[i])} : EndSession(i, f)
    BY <1>5 DEF ReadEof, VtyExit, SessionEnds
  <2>2. count' = Ghosts(count.served, count.paged, count.slaves, count.starts,
                        Wild(i), count.crowded)
    BY <1>1, <2>1, CountUpdates
  <2>3. /\ count'.served = count.served /\ count'.paged = count.paged
        /\ count'.slaves = count.slaves
    BY <2>2 DEF Ghosts
  <2> QED
    BY <1>1, <2>1, <2>3, EndSessionFds
<1>6. ASSUME NEW i \in Slots, PagedCommand(i) PROVE Tidy'
  BY <1>1, <1>6, PagedCommandFds
<1>7. ASSUME NEW i \in Slots, PagerFails(i) PROVE Tidy'
  BY <1>1, <1>7, PagerFailsFds
<1>8. ASSUME NEW i \in Slots, PagingTurn(i) PROVE count'.crowded \/ Tidy'
  BY <1>1, <1>8, PagingTurnFds
<1>9. ASSUME NEW i \in Slots, HangUp(i) \/ PagerQuits(i) PROVE Tidy'
  <2>1. /\ UNCHANGED <<client_fd, fds, count>>
        /\ \/ session' = [session EXCEPT ![i].eof = TRUE]
           \/ session' = [session EXCEPT ![i].pager = "gone"]
    BY <1>9 DEF HangUp, PagerQuits
  <2>2. Quieter
    BY <1>1, <2>1, QuieterPager
  <2>3. Created' = Created
    BY <1>1, <1>9, PagerSame, SameCreated
  <2> QED
    BY <2>1, <2>2, <2>3, FdFrame
<1>10. CASE WaitpidReturns
  <2>1. PICK i : session' = [session EXCEPT ![i].is_paging = FALSE, ![i].pager = "none",
                                            ![i].pipefd = -1]
    BY <1>10 DEF WaitpidReturns
  <2>2. UNCHANGED <<threads, client_fd, fds, count>>
    BY <1>10 DEF WaitpidReturns
  <2>3. Quieter
    BY <1>1, <2>1, QuieterPager
  <2>4. Created' = Created
    <3>1. CASE i \in Slots
      BY <1>1, <2>1, <2>2, <3>1, PagerGoneSame, SameCreated
    <3>2. CASE i \notin Slots
      <4>1. session' = session
        BY <1>1, <2>1, <3>2 DEF TableInv
      <4> QED
        BY <4>1 DEF Created
    <3> QED
      BY <3>1, <3>2
  <2> QED
    BY <2>2, <2>3, <2>4, FdFrame
<1>11. CASE StartWorker \/ StartLthread
  <2>1. UNCHANGED <<session, client_fd, fds>>
        /\ count' = [count EXCEPT !.starts = count.starts + 1]
    BY <1>11 DEF StartWorker, StartLthread, Starts
  <2>2. count' = Ghosts(count.served, count.paged, count.slaves, count.starts + 1,
                        count.wild, count.crowded)
    BY <1>1, <2>1, CountUpdates
  <2>3. /\ count'.served = count.served /\ count'.paged = count.paged
        /\ count'.slaves = count.slaves
    BY <2>2 DEF Ghosts
  <2>4. Quieter /\ Created' = Created
    BY <2>1 DEF Quieter, Created
  <2> QED
    BY <2>1, <2>3, <2>4, FdFrame
<1>12. CASE StartupEnds \/ Quit \/ LoopEnds \/ UNCHANGED vars
  <2>1. UNCHANGED <<session, client_fd, fds, count>>
    BY <1>12 DEF StartupEnds, Quit, LoopEnds, vars
  <2>2. Quieter /\ Created' = Created
    BY <2>1 DEF Quieter, Created
  <2> QED
    BY <2>1, <2>2, FdFrame
<1> QED
  BY <1>3, <1>4, <1>5, <1>6, <1>7, <1>8, <1>9, <1>10, <1>11, <1>12 DEF Next, SessionTurn

(* The accounts are right when the listening socket is open. *)
LEMMA InitFds == Init => FdInv
<1> SUFFICES ASSUME Init PROVE FdInv
  OBVIOUS
<1>1. TableInv
  BY InitTable
<1>2. IsCount(count) /\ count.served = 0 /\ count.paged = 0 /\ count.slaves = 0
  BY DEF Init, IsCount, Ghosts
<1>3. fds = [n \in Fds |-> IF n = 0 THEN Entry("listen", 0) ELSE FREE]
      /\ client_fd = [i \in Slots |-> -1]
  BY DEF Init
<1>4. fds \in [Fds -> FdEntries]
  BY <1>3 DEF FdEntries
<1>5. Connected(fds, client_fd)
  BY <1>3, EntriesDiffer DEF Connected
<1>6. \A i \in Slots : /\ session[i].opened = 0 /\ session[i].is_paging = FALSE
                       /\ session[i].state = "none"
  BY DEF Init, NoSession
<1>7. Roomy(fds, session)
  BY <1>6 DEF Roomy, PagerRoom
<1>8. Kept(fds) = {} /\ Created = {}
  BY <1>3, <1>6, EntriesDiffer DEF Kept, Created
<1>9. Counted
  BY <1>2, <1>8, FS_EmptySet, SessionsAssumption DEF Counted
<1> QED
  BY <1>1, <1>2, <1>4, <1>5, <1>7, <1>9 DEF FdInv, Tidy

(* The close of a pipe's number at every paging turn never closes the       *)
(* connection of a session before a third descriptor has been opened while  *)
(* the session pages: for every number of sessions and paged commands.      *)
THEOREM SessionsKeepFds == Spec => []SessionKeepsFd
<1>1. FdInv => SessionKeepsFd
  BY DEF FdInv, Tidy, Connected, SessionKeepsFd
<1>2. FdInv /\ [Next]_vars => FdInv'
  BY FdStep
<1> QED
  BY InitFds, <1>1, <1>2, PTL DEF Spec

(* Every descriptor that stays open is a pty master of a paged command, a   *)
(* slave of a pipe() that failed or a banner's socket, and the ends of a    *)
(* pipe do not outlive the turn that opened them.                           *)
THEOREM DescriptorsAccounted == Spec => []FdsAccounted
<1>1. FdInv => FdsAccounted
  <2> SUFFICES ASSUME FdInv, ~count.crowded PROVE FdsAccounted
    BY DEF FdsAccounted
  <2>1. Tidy /\ IsCount(count)
    BY DEF FdInv
  <2>2. \A n \in Fds : fds[n] \in FdEntries
    BY <2>1 DEF Tidy
  <2>3. \A e \in FdEntries : (e.kind = "kept" <=> e = KEPT) /\ e.kind # "pipe"
    <3>1. \A k, o : Entry(k, o).kind = k
      BY DEF Entry
    <3>2. FREE.kind = "free" /\ KEPT.kind = "kept"
      BY <3>1 DEF FREE, KEPT
    <3> QED
      BY <3>1, <3>2 DEF FdEntries
  <2>4. {n \in Fds : fds[n].kind = "kept"} = Kept(fds)
    BY <2>2, <2>3 DEF Kept
  <2>5. {n \in Fds : fds[n].kind = "pipe"} = {}
    BY <2>2, <2>3
  <2>6. Cardinality(Kept(fds)) = count.paged + count.slaves + count.served - Cardinality(Created)
    <3>1. {count.paged, count.slaves, count.served} \subseteq Nat
      BY <2>1 DEF IsCount
    <3>2. Cardinality(Kept(fds)) + Cardinality(Created)
            = count.paged + count.slaves + count.served
      BY <2>1 DEF Tidy, Counted
    <3> QED
      BY <3>1, <3>2, KeptFinite, CreatedFinite
  <2> QED
    BY <2>4, <2>5, <2>6 DEF FdsAccounted, Created
<1>2. FdInv /\ [Next]_vars => FdInv'
  BY FdStep
<1> QED
  BY InitFds, <1>1, <1>2, PTL DEF Spec
=============================================================================
