---------------------------- MODULE SessionsProofs ----------------------------
(***************************************************************************)
(* The thread table, for every number of slots, entries, sessions, workers *)
(* and lthreads started: who owns an entry keeps it (EntryOwned), and a    *)
(* shell finds the table full only if more has been started than it has    *)
(* room for (TableSuffices).                                               *)
(***************************************************************************)
EXTENDS Sessions, WellFoundedInduction, FiniteSetTheorems, TLAPS

(* A set of numbers has a least one. *)
LEMMA LeastElement ==
  ASSUME NEW S, S \subseteq Nat, S # {}
  PROVE  \E x \in S : \A y \in S : x <= y
<1>1. PICK x \in S : \A y \in S : ~ (<<y, x>> \in OpToRel(<, Nat))
  BY NatLessThanWellFounded, WFMin
<1>2. ASSUME NEW y \in S PROVE x <= y
  <2>1. ~ (y < x)
    BY <1>1, Zenon DEF OpToRel
  <2> QED
    BY <2>1
<1> QED
  BY <1>2

(* Min() finds it. *)
LEMMA MinIsElement ==
  ASSUME NEW S, S \subseteq Nat, S # {}
  PROVE  Min(S) \in S
BY LeastElement DEF Min
-----------------------------------------------------------------------------
(* A struct of a session, its fields of any value. *)
IsSession(r) ==
  r = [state |-> r.state, thread_id |-> r.thread_id, eof |-> r.eof,
       is_paging |-> r.is_paging, pager |-> r.pager, pipefd |-> r.pipefd,
       opened |-> r.opened]

(* What an entry of the thread table may be for. *)
Kinds == {"free", "lthread_main", "vty_server", "startup_config", "console_shell",
          "vty_shell", "worker", "rib_manager", "stat_collector"}

(* The entries of the thread table. *)
Entries == [kind : Kinds, of : {0} \cup Slots]

(* The inductive invariant: a free slot has no session, and a session that  *)
(* has not started or has ended has no entry.                               *)
TableInv ==
  /\ threads \in Seq(Entries)
  /\ session = [i \in Slots |-> session[i]]
  /\ client_fd = [i \in Slots |-> client_fd[i]]
  /\ \A i \in Slots :
       /\ IsSession(session[i])
       /\ session[i].thread_id \in Nat
       /\ session[i].state # "running" => session[i].thread_id = 0
       /\ client_fd[i] = -1 => session[i].state = "none"
  /\ EntryOwned

(* What an action may do to a session without touching the table. *)
SameEntries ==
  /\ threads' = threads
  /\ client_fd' = client_fd
  /\ session' = [i \in Slots |-> session'[i]]
  /\ \A i \in Slots :
       /\ IsSession(session'[i])
       /\ session'[i].thread_id = session[i].thread_id
       /\ session'[i].state = session[i].state

(* No session begins its loop in a step but by VtyStart. *)
Continues(j) ==
  session'[j].state = "running" =>
    session[j].state = "running" /\ session'[j].thread_id = session[j].thread_id

(* No session loses its entry in this step. *)
AllContinue == \A j \in Slots : Continues(j)

(* Slots are numbers. *)
LEMMA SlotsAreNumbers == Slots \subseteq Nat
BY SessionsAssumption DEF Slots

(* Entries keep their owners when neither they nor any id change. *)
LEMMA SameOwned ==
  ASSUME EntryOwned, threads' = threads,
         \A i \in Slots : session'[i].thread_id = session[i].thread_id
  PROVE  EntryOwned'
<1>1. ASSUME NEW i \in Slots, session'[i].thread_id # 0
      PROVE  /\ session'[i].thread_id \in DOMAIN threads'
             /\ threads'[session'[i].thread_id] = Entry("vty_shell", i)
  BY <1>1 DEF EntryOwned
<1>2. ASSUME NEW e \in DOMAIN threads, threads[e].kind = "vty_shell"
      PROVE  threads[e].of \in Slots /\ session'[threads[e].of].thread_id = e
  BY <1>2 DEF EntryOwned
<1> QED
  BY <1>1, <1>2 DEF EntryOwned

(* A step that leaves the thread entries alone keeps the table right. *)
LEMMA SameEntriesKeep == TableInv /\ SameEntries => TableInv' /\ AllContinue
<1> SUFFICES ASSUME TableInv, SameEntries PROVE TableInv' /\ AllContinue
  OBVIOUS
<1>1. EntryOwned'
  BY SameOwned DEF TableInv, SameEntries
<1>2. AllContinue
  BY DEF SameEntries, AllContinue, Continues
<1>3. /\ threads' \in Seq(Entries)
      /\ session' = [i \in Slots |-> session'[i]]
      /\ client_fd' = [i \in Slots |-> client_fd'[i]]
  BY DEF TableInv, SameEntries
<1>4. ASSUME NEW i \in Slots
      PROVE  /\ IsSession(session'[i])
             /\ session'[i].thread_id \in Nat
             /\ session'[i].state # "running" => session'[i].thread_id = 0
             /\ client_fd'[i] = -1 => session'[i].state = "none"
  BY DEF TableInv, SameEntries
<1> QED
  BY <1>1, <1>2, <1>3, <1>4 DEF TableInv

(* Opening descriptors changes no entry of a session. *)
LEMMA CrowdSame ==
  ASSUME TableInv, NEW n
  PROVE  /\ Crowd(session, n) = [i \in Slots |-> Crowd(session, n)[i]]
         /\ \A i \in Slots :
              /\ IsSession(Crowd(session, n)[i])
              /\ Crowd(session, n)[i].thread_id = session[i].thread_id
              /\ Crowd(session, n)[i].state = session[i].state
<1>1. ASSUME NEW i \in Slots
      PROVE  /\ IsSession(Crowd(session, n)[i])
             /\ Crowd(session, n)[i].thread_id = session[i].thread_id
             /\ Crowd(session, n)[i].state = session[i].state
  <2> DEFINE r == session[i]
             up == Min({3, r.opened + n})
  <2>1. Crowd(session, n)[i] = IF r.is_paging THEN [r EXCEPT !.opened = up] ELSE r
    BY DEF Crowd
  <2>2. IsSession(r)
    BY DEF TableInv
  <2> HIDE DEF r, up
  <2>3. /\ IsSession([r EXCEPT !.opened = up])
        /\ [r EXCEPT !.opened = up].thread_id = r.thread_id
        /\ [r EXCEPT !.opened = up].state = r.state
    BY <2>2 DEF IsSession
  <2> QED
    BY <2>1, <2>2, <2>3 DEF r
<1> QED
  BY <1>1 DEF Crowd
(* thread_register() changes one entry, which was free or is appended. *)
LEMMA RegisterOne ==
  ASSUME NEW table \in Seq(Entries), NEW who \in Entries
  PROVE  /\ Register(table, who) \in Seq(Entries)
         /\ DOMAIN table \subseteq DOMAIN Register(table, who)
         /\ RegisteredId(table) \in Nat
         /\ RegisteredId(table) # 0 =>
              /\ RegisteredId(table) \in DOMAIN Register(table, who)
              /\ Register(table, who)[RegisteredId(table)] = who
         /\ \A e \in DOMAIN Register(table, who) \ {RegisteredId(table)} :
              e \in DOMAIN table /\ Register(table, who)[e] = table[e]
         /\ RegisteredId(table) \in DOMAIN table => table[RegisteredId(table)] = FREE
<1> DEFINE id == RegisteredId(table)
           new == Register(table, who)
<1>0. DOMAIN table = 1 .. Len(table) /\ Len(table) \in Nat
  OBVIOUS
<1>1. CASE FreeEntries(table) # {}
  <2>1. FreeEntries(table) \subseteq Nat
    BY <1>0 DEF FreeEntries
  <2>2. Min(FreeEntries(table)) \in FreeEntries(table)
    BY <1>1, <2>1, MinIsElement
  <2>3. id = Min(FreeEntries(table)) /\ new = [table EXCEPT ![id] = who]
    BY <1>1 DEF RegisteredId, Register
  <2>4. id \in DOMAIN table /\ table[id] = FREE
    BY <2>2, <2>3 DEF FreeEntries
  <2> HIDE DEF id, new
  <2>5. new \in Seq(Entries) /\ DOMAIN new = DOMAIN table /\ new[id] = who
    BY <1>0, <2>3, <2>4
  <2>6. \A e \in DOMAIN new \ {id} : new[e] = table[e]
    BY <1>0, <2>3, <2>5
  <2> QED
    BY <1>0, <2>4, <2>5, <2>6 DEF id, new
<1>2. CASE FreeEntries(table) = {} /\ Len(table) < THREAD_INFO_LIMIT
  <2>1. id = Len(table) + 1 /\ new = Append(table, who)
    BY <1>2 DEF RegisteredId, Register
  <2> HIDE DEF id, new
  <2>2. new \in Seq(Entries) /\ DOMAIN new = 1 .. Len(table) + 1 /\ new[id] = who
    BY <1>0, <2>1
  <2>3. \A e \in 1 .. Len(table) : new[e] = table[e]
    BY <1>0, <2>1
  <2>4. id \in Nat /\ id \notin DOMAIN table /\ id \in DOMAIN new
    BY <1>0, <2>1, <2>2
  <2>5. \A e \in DOMAIN new \ {id} : e \in DOMAIN table /\ new[e] = table[e]
    BY <1>0, <2>1, <2>2, <2>3
  <2>6. DOMAIN table \subseteq DOMAIN new
    BY <1>0, <2>2
  <2> QED
    BY <2>2, <2>4, <2>5, <2>6 DEF id, new
<1>3. CASE FreeEntries(table) = {} /\ ~(Len(table) < THREAD_INFO_LIMIT)
  <2>1. id = 0 /\ new = table
    BY <1>3 DEF RegisteredId, Register
  <2> HIDE DEF id, new
  <2> QED
    BY <1>0, <2>1 DEF id, new
<1> QED
  BY <1>1, <1>2, <1>3

(* The fields of an entry. *)
LEMMA EntryIsEntry ==
  ASSUME NEW k \in Kinds, NEW o \in {0} \cup Slots
  PROVE  /\ Entry(k, o) \in Entries
         /\ Entry(k, o).kind = k
         /\ Entry(k, o).of = o
BY DEF Entry, Entries

(* A free entry is one. *)
LEMMA FreeIsEntry == FREE \in Entries /\ FREE.kind = "free"
<1>1. FREE = Entry("free", 0)
  BY DEF FREE, Entry
<1>2. "free" \in Kinds /\ 0 \in {0} \cup Slots
  BY DEF Kinds
<1> QED
  BY <1>1, <1>2, EntryIsEntry

(* The entry of a session. *)
LEMMA SessionEntry ==
  ASSUME NEW i \in Slots
  PROVE  /\ Entry("vty_shell", i) \in Entries
         /\ Entry("vty_shell", i).kind = "vty_shell"
         /\ Entry("vty_shell", i).of = i
         /\ Entry("vty_shell", i) # FREE
<1>1. "vty_shell" \in Kinds /\ i \in {0} \cup Slots
  BY DEF Kinds
<1> QED
  BY <1>1, EntryIsEntry, FreeIsEntry

(* Lthreads and workers that are registered besides the sessions. *)
LEMMA RegisterOther ==
  ASSUME TableInv, NEW kind \in Kinds, kind # "vty_shell",
         threads' = Register(threads, Entry(kind, 0)),
         UNCHANGED <<session, client_fd>>
  PROVE  TableInv'
<1> DEFINE id == RegisteredId(threads)
<1>1. threads \in Seq(Entries) /\ FREE \in Entries /\ Entry(kind, 0) \in Entries
  BY EntryIsEntry, FreeIsEntry DEF TableInv
<1>2. /\ threads' \in Seq(Entries)
      /\ DOMAIN threads \subseteq DOMAIN threads'
      /\ id # 0 => id \in DOMAIN threads' /\ threads'[id] = Entry(kind, 0)
      /\ \A e \in DOMAIN threads' \ {id} : e \in DOMAIN threads /\ threads'[e] = threads[e]
      /\ id \in DOMAIN threads => threads[id] = FREE
  <2> DEFINE who == Entry(kind, 0)
  <2>1. who \in Entries
    BY <1>1
  <2> HIDE DEF who
  <2>2. threads' = Register(threads, who)
    BY DEF who
  <2>3. /\ Register(threads, who) \in Seq(Entries)
        /\ DOMAIN threads \subseteq DOMAIN Register(threads, who)
        /\ id # 0 =>
             /\ id \in DOMAIN Register(threads, who)
             /\ Register(threads, who)[id] = who
        /\ \A e \in DOMAIN Register(threads, who) \ {id} :
             e \in DOMAIN threads /\ Register(threads, who)[e] = threads[e]
        /\ id \in DOMAIN threads => threads[id] = FREE
    BY <1>1, <2>1, RegisterOne
  <2> QED
    BY <2>2, <2>3 DEF who
<1>3. Entry(kind, 0).kind # "vty_shell"
  BY EntryIsEntry
<1>4. ASSUME NEW i \in Slots, session[i].thread_id # 0
      PROVE  /\ session[i].thread_id \in DOMAIN threads'
             /\ threads'[session[i].thread_id] = Entry("vty_shell", i)
  <2>1. /\ session[i].thread_id \in DOMAIN threads
        /\ threads[session[i].thread_id] = Entry("vty_shell", i)
    BY <1>4 DEF TableInv, EntryOwned
  <2>2. Entry("vty_shell", i) # FREE
    BY SessionEntry
  <2> QED
    BY <1>2, <2>1, <2>2
<1>5. ASSUME NEW e \in DOMAIN threads', threads'[e].kind = "vty_shell"
      PROVE  threads'[e].of \in Slots /\ session[threads'[e].of].thread_id = e
  <2>1. e # id
    BY <1>1, <1>2, <1>3, <1>5
  <2>2. e \in DOMAIN threads /\ threads'[e] = threads[e]
    BY <1>2, <2>1
  <2> QED
    BY <1>5, <2>2 DEF TableInv, EntryOwned
<1> QED
  BY <1>2, <1>4, <1>5 DEF TableInv, EntryOwned

(* The end of a session. *)
LEMMA EndSessionKeeps ==
  ASSUME TableInv, NEW i \in Slots, NEW f, EndSession(i, f)
  PROVE  TableInv' /\ AllContinue
<1> DEFINE id == session[i].thread_id
<1>1. /\ session' = [session EXCEPT ![i] = NoSession]
      /\ client_fd' = [client_fd EXCEPT ![i] = -1]
      /\ threads' = IF id = 0 THEN threads ELSE [threads EXCEPT ![id] = FREE]
  BY DEF EndSession, Unregister
<1>2. /\ threads \in Seq(Entries)
      /\ id # 0 => id \in DOMAIN threads
  BY DEF TableInv, EntryOwned
<1>3. /\ threads' \in Seq(Entries)
      /\ DOMAIN threads' = DOMAIN threads
      /\ \A e \in DOMAIN threads : threads'[e] = IF e = id /\ id # 0 THEN FREE ELSE threads[e]
  <2> HIDE DEF id
  <2> QED
    BY <1>1, <1>2, FreeIsEntry
<1>4. /\ session'[i] = NoSession /\ client_fd'[i] = -1
      /\ \A j \in Slots \ {i} : session'[j] = session[j] /\ client_fd'[j] = client_fd[j]
      /\ session' = [j \in Slots |-> session'[j]]
      /\ client_fd' = [j \in Slots |-> client_fd'[j]]
  BY <1>1 DEF TableInv
<1>5. /\ IsSession(NoSession) /\ NoSession.thread_id = 0 /\ NoSession.state = "none"
      /\ FREE.kind # "vty_shell"
  BY DEF IsSession, NoSession, FREE
<1>6. ASSUME NEW j \in Slots, session'[j].thread_id # 0
      PROVE  /\ session'[j].thread_id \in DOMAIN threads'
             /\ threads'[session'[j].thread_id] = Entry("vty_shell", j)
  <2>1. j # i /\ session'[j] = session[j]
    BY <1>4, <1>5, <1>6
  <2>2. /\ session[j].thread_id \in DOMAIN threads
        /\ threads[session[j].thread_id] = Entry("vty_shell", j)
    BY <1>6, <2>1 DEF TableInv, EntryOwned
  <2>3. id # 0 => threads[id] = Entry("vty_shell", i)
    BY DEF TableInv, EntryOwned
  <2>4. Entry("vty_shell", i) # Entry("vty_shell", j)
    BY <2>1, SessionEntry
  <2> QED
    BY <1>3, <2>1, <2>2, <2>3, <2>4
<1>7. ASSUME NEW e \in DOMAIN threads', threads'[e].kind = "vty_shell"
      PROVE  threads'[e].of \in Slots /\ session'[threads'[e].of].thread_id = e
  <2>1. e \in DOMAIN threads /\ threads'[e] = threads[e] /\ ~(e = id /\ id # 0)
    BY <1>3, <1>5, <1>7
  <2>2. threads[e].of \in Slots /\ session[threads[e].of].thread_id = e
    BY <1>7, <2>1 DEF TableInv, EntryOwned
  <2>3. e # 0
    BY <1>2, <2>1
  <2>4. threads[e].of # i
    BY <2>1, <2>2, <2>3
  <2> QED
    BY <1>4, <2>1, <2>2, <2>4
<1>8. ASSUME NEW j \in Slots
      PROVE  /\ IsSession(session'[j])
             /\ session'[j].thread_id \in Nat
             /\ session'[j].state # "running" => session'[j].thread_id = 0
             /\ client_fd'[j] = -1 => session'[j].state = "none"
  BY <1>4, <1>5 DEF TableInv
<1>9. AllContinue
  BY <1>4, <1>5 DEF AllContinue, Continues
<1> QED
  BY <1>3, <1>4, <1>6, <1>7, <1>8, <1>9 DEF TableInv, EntryOwned
(* vty_server() gives a free slot a session that has not started. *)
LEMMA AcceptKeeps == TableInv /\ Accept => TableInv' /\ AllContinue
<1> SUFFICES ASSUME TableInv, Accept PROVE TableInv' /\ AllContinue
  OBVIOUS
<1>1. CASE FreeSlots = {} \/ FreeFds(fds) = {}
  <2>1. UNCHANGED <<threads, client_fd, session>>
    BY <1>1 DEF Accept
  <2> QED
    BY <2>1 DEF TableInv, EntryOwned, AllContinue, Continues
<1>2. CASE FreeSlots # {} /\ FreeFds(fds) # {}
  <2> DEFINE i == Min(FreeSlots)
             fd == Lowest(fds)
             new == [NoSession EXCEPT !.state = "created"]
             crowd == Crowd(session, 1)
  <2>1. i \in Slots /\ client_fd[i] = -1
    <3>1. FreeSlots \subseteq Nat
      BY SlotsAreNumbers DEF FreeSlots
    <3>2. i \in FreeSlots
      BY <1>2, <3>1, MinIsElement
    <3> QED
      BY <3>2 DEF FreeSlots
  <2>2. fd # -1
    <3>1. FreeFds(fds) \subseteq Nat
      BY SessionsAssumption DEF FreeFds, Fds
    <3>2. fd \in FreeFds(fds)
      BY <1>2, <3>1, MinIsElement DEF Lowest
    <3> QED
      BY <3>1, <3>2
  <2>3. /\ threads' = threads
        /\ client_fd' = [client_fd EXCEPT ![i] = fd]
        /\ session' = [crowd EXCEPT ![i] = new]
    BY <1>2 DEF Accept
  <2>4. IsSession(new) /\ new.thread_id = 0 /\ new.state = "created"
    <3>1. IsSession(NoSession) /\ NoSession.thread_id = 0
      BY DEF IsSession, NoSession
    <3>2. ASSUME NEW q, IsSession(q)
          PROVE  /\ IsSession([q EXCEPT !.state = "created"])
                 /\ [q EXCEPT !.state = "created"].thread_id = q.thread_id
                 /\ [q EXCEPT !.state = "created"].state = "created"
      BY <3>2 DEF IsSession
    <3> QED
      BY <3>1, <3>2
  <2>5. /\ crowd = [j \in Slots |-> crowd[j]]
        /\ \A j \in Slots : /\ IsSession(crowd[j])
                            /\ crowd[j].thread_id = session[j].thread_id
                            /\ crowd[j].state = session[j].state
    BY CrowdSame
  <2> HIDE DEF i, fd, new, crowd
  <2>6. /\ client_fd' = [j \in Slots |-> IF j = i THEN fd ELSE client_fd[j]]
        /\ session' = [j \in Slots |-> IF j = i THEN new ELSE crowd[j]]
    BY <2>1, <2>3, <2>5 DEF TableInv
  <2>7. session[i].thread_id = 0
    BY <2>1 DEF TableInv
  <2>8. ASSUME NEW j \in Slots
        PROVE  /\ IsSession(session'[j])
               /\ session'[j].thread_id = session[j].thread_id
               /\ session'[j].thread_id \in Nat
               /\ session'[j].state # "running" => session'[j].thread_id = 0
               /\ client_fd'[j] = -1 => session'[j].state = "none"
    <3>1. CASE j = i
      BY <2>1, <2>2, <2>4, <2>6, <2>7, <3>1
    <3>2. CASE j # i
      BY <2>5, <2>6, <3>2 DEF TableInv
    <3> QED
      BY <3>1, <3>2
  <2>9. EntryOwned'
    BY <2>3, <2>8, SameOwned DEF TableInv
  <2>10. AllContinue
    BY <2>4, <2>5, <2>6 DEF AllContinue, Continues
  <2> QED
    BY <2>3, <2>6, <2>8, <2>9, <2>10 DEF TableInv
<1> QED
  BY <1>1, <1>2

(* vty_shell() registers itself. *)
LEMMA VtyStartKeeps ==
  ASSUME TableInv, NEW i \in Slots, VtyStart(i)
  PROVE  /\ TableInv'
         /\ session'[i].thread_id = RegisteredId(threads)
         /\ \A j \in Slots \ {i} : Continues(j)
<1> DEFINE who == Entry("vty_shell", i)
           id == RegisteredId(threads)
           crowd == Crowd(session, 1)
<1>1. /\ threads' = Register(threads, who)
      /\ session' = [crowd EXCEPT ![i].state = "running", ![i].thread_id = id]
      /\ client_fd' = client_fd
      /\ session[i].state = "created"
  BY DEF VtyStart
<1>2. /\ crowd = [j \in Slots |-> crowd[j]]
      /\ \A j \in Slots : /\ IsSession(crowd[j])
                          /\ crowd[j].thread_id = session[j].thread_id
                          /\ crowd[j].state = session[j].state
  BY CrowdSame
<1>3. who \in Entries /\ who.kind = "vty_shell" /\ who.of = i /\ who # FREE
  BY SessionEntry
<1>4. threads \in Seq(Entries)
  BY DEF TableInv
<1> HIDE DEF who, crowd
<1>5. /\ threads' \in Seq(Entries)
      /\ DOMAIN threads \subseteq DOMAIN threads'
      /\ id \in Nat
      /\ id # 0 => id \in DOMAIN threads' /\ threads'[id] = who
      /\ \A e \in DOMAIN threads' \ {id} : e \in DOMAIN threads /\ threads'[e] = threads[e]
      /\ id \in DOMAIN threads => threads[id] = FREE
  BY <1>1, <1>3, <1>4, RegisterOne
<1> HIDE DEF id
<1>6. /\ session' = [j \in Slots |-> session'[j]]
      /\ IsSession(session'[i])
      /\ session'[i].state = "running" /\ session'[i].thread_id = id
      /\ \A j \in Slots \ {i} : session'[j] = crowd[j]
  <2> DEFINE r == crowd[i]
  <2>1. session' = [j \in Slots |-> IF j = i
                                    THEN [r EXCEPT !.state = "running", !.thread_id = id]
                                    ELSE crowd[j]]
    BY <1>1, <1>2
  <2>2. IsSession(r)
    BY <1>2
  <2> HIDE DEF r
  <2>4. /\ IsSession([r EXCEPT !.state = "running"])
        /\ [r EXCEPT !.state = "running"].state = "running"
    BY <2>2 DEF IsSession
  <2>5. ASSUME NEW q, IsSession(q)
        PROVE  /\ IsSession([q EXCEPT !.thread_id = id])
               /\ [q EXCEPT !.thread_id = id].state = q.state
               /\ [q EXCEPT !.thread_id = id].thread_id = id
    BY <2>5 DEF IsSession
  <2>6. [r EXCEPT !.state = "running", !.thread_id = id]
          = [[r EXCEPT !.state = "running"] EXCEPT !.thread_id = id]
    OBVIOUS
  <2>3. /\ IsSession([r EXCEPT !.state = "running", !.thread_id = id])
        /\ [r EXCEPT !.state = "running", !.thread_id = id].state = "running"
        /\ [r EXCEPT !.state = "running", !.thread_id = id].thread_id = id
    BY <2>4, <2>5, <2>6
  <2> QED
    BY <2>1, <2>3
<1>7. session[i].thread_id = 0
  BY <1>1 DEF TableInv
<1>8. ASSUME NEW j \in Slots, session'[j].thread_id # 0
      PROVE  /\ session'[j].thread_id \in DOMAIN threads'
             /\ threads'[session'[j].thread_id] = Entry("vty_shell", j)
  <2>1. CASE j = i
    BY <1>5, <1>6, <1>8, <2>1 DEF who
  <2>2. CASE j # i
    <3>1. session'[j].thread_id = session[j].thread_id
      BY <1>2, <1>6, <2>2
    <3>2. /\ session[j].thread_id \in DOMAIN threads
          /\ threads[session[j].thread_id] = Entry("vty_shell", j)
      BY <1>8, <3>1 DEF TableInv, EntryOwned
    <3>3. Entry("vty_shell", j) # FREE
      BY SessionEntry
    <3> QED
      BY <1>5, <3>1, <3>2, <3>3
  <2> QED
    BY <2>1, <2>2
<1>9. ASSUME NEW e \in DOMAIN threads', threads'[e].kind = "vty_shell"
      PROVE  threads'[e].of \in Slots /\ session'[threads'[e].of].thread_id = e
  <2>0. e # 0
    BY <1>5
  <2>1. CASE e = id
    BY <1>3, <1>5, <1>6, <2>0, <2>1
  <2>2. CASE e # id
    <3>1. e \in DOMAIN threads /\ threads'[e] = threads[e]
      BY <1>5, <2>2
    <3>2. threads[e].of \in Slots /\ session[threads[e].of].thread_id = e
      BY <1>9, <3>1 DEF TableInv, EntryOwned
    <3>3. threads[e].of # i
      BY <1>7, <2>0, <3>2
    <3> QED
      BY <1>2, <1>6, <3>1, <3>2, <3>3
  <2> QED
    BY <2>1, <2>2
<1>10. ASSUME NEW j \in Slots
       PROVE  /\ IsSession(session'[j])
              /\ session'[j].thread_id \in Nat
              /\ session'[j].state # "running" => session'[j].thread_id = 0
              /\ client_fd'[j] = -1 => session'[j].state = "none"
  <2>1. CASE j = i
    BY <1>1, <1>5, <1>6, <2>1 DEF TableInv
  <2>2. CASE j # i
    BY <1>1, <1>2, <1>6, <2>2 DEF TableInv
  <2> QED
    BY <2>1, <2>2
<1>11. client_fd' = [j \in Slots |-> client_fd'[j]]
  BY <1>1 DEF TableInv
<1>12. \A j \in Slots \ {i} : Continues(j)
  BY <1>2, <1>6 DEF Continues
<1>13. TableInv'
  BY <1>5, <1>6, <1>8, <1>9, <1>10, <1>11 DEF TableInv, EntryOwned
<1> QED
  BY <1>6, <1>12, <1>13 DEF id
(* The fields that the pager and the client change. *)
Same(q, r) == IsSession(q) /\ q.state = r.state /\ q.thread_id = r.thread_id

(* The fields about paging are not those about the thread table. *)
LEMMA FieldUpdates ==
  ASSUME NEW r, IsSession(r), NEW v
  PROVE  /\ Same([r EXCEPT !.eof = v], r)
         /\ Same([r EXCEPT !.is_paging = v], r)
         /\ Same([r EXCEPT !.pager = v], r)
         /\ Same([r EXCEPT !.pipefd = v], r)
         /\ Same([r EXCEPT !.opened = v], r)
BY DEF IsSession, Same

(* The same for several of them at once. *)
LEMMA ManyUpdates ==
  ASSUME NEW r, IsSession(r), NEW a, NEW b, NEW c, NEW d
  PROVE  /\ Same([r EXCEPT !.is_paging = a, !.pager = b, !.pipefd = c], r)
         /\ Same([r EXCEPT !.is_paging = a, !.opened = d, !.pager = b, !.pipefd = c], r)
<1> DEFINE r1 == [r EXCEPT !.is_paging = a]
           r2 == [r1 EXCEPT !.pager = b]
           r3 == [r2 EXCEPT !.pipefd = c]
           q2 == [r1 EXCEPT !.opened = d]
           q3 == [q2 EXCEPT !.pager = b]
           q4 == [q3 EXCEPT !.pipefd = c]
<1>1. Same(r1, r)
  BY FieldUpdates
<1>2. Same(r2, r1) /\ Same(q2, r1)
  <2> HIDE DEF r1
  <2> QED
    BY <1>1, FieldUpdates DEF Same
<1>3. Same(r3, r2) /\ Same(q3, q2)
  <2> HIDE DEF r2, q2
  <2> QED
    BY <1>2, FieldUpdates DEF Same
<1>4. Same(q4, q3)
  <2> HIDE DEF q3
  <2> QED
    BY <1>3, FieldUpdates DEF Same
<1>5. Same(r3, r) /\ Same(q4, r)
  <2> HIDE DEF r1, r2, r3, q2, q3, q4
  <2> QED
    BY <1>1, <1>2, <1>3, <1>4 DEF Same
<1>6. /\ [r EXCEPT !.is_paging = a, !.pager = b, !.pipefd = c] = r3
      /\ [r EXCEPT !.is_paging = a, !.opened = d, !.pager = b, !.pipefd = c] = q4
  OBVIOUS
<1> QED
  BY <1>5, <1>6

(* An action that changes one session and leaves its entry alone. *)
LEMMA OneSessionSame ==
  ASSUME TableInv, NEW i \in Slots, NEW new, Same(new, session[i]),
         session' = [session EXCEPT ![i] = new],
         UNCHANGED <<threads, client_fd>>
  PROVE  SameEntries
<1>1. session' = [j \in Slots |-> IF j = i THEN new ELSE session[j]]
  BY DEF TableInv
<1> QED
  BY <1>1 DEF TableInv, SameEntries, Same

(* A session whose pager is gone. *)
LEMMA PagerGoneSame ==
  ASSUME TableInv, NEW i \in Slots,
         session' = [session EXCEPT ![i].is_paging = FALSE, ![i].pager = "none",
                                    ![i].pipefd = -1],
         UNCHANGED <<threads, client_fd>>
  PROVE  SameEntries
<1> DEFINE r == session[i]
           new == [r EXCEPT !.is_paging = FALSE, !.pager = "none", !.pipefd = -1]
<1>1. IsSession(r) /\ session = [j \in Slots |-> session[j]]
  BY DEF TableInv
<1>2. session' = [session EXCEPT ![i] = new]
  BY <1>1
<1>3. Same(new, r)
  BY <1>1, ManyUpdates
<1> QED
  BY <1>2, <1>3, OneSessionSame

(* The pager and the client. *)
LEMMA PagerSame ==
  ASSUME TableInv, NEW i \in Slots,
         HangUp(i) \/ PagedCommand(i) \/ PagerFails(i) \/ PagerQuits(i) \/ PagingTurn(i)
  PROVE  SameEntries
<1> DEFINE r == session[i]
<1>0. IsSession(r) /\ session = [j \in Slots |-> session[j]]
  BY DEF TableInv
<1>1. CASE HangUp(i)
  <2> DEFINE new == [r EXCEPT !.eof = TRUE]
  <2>1. /\ session' = [session EXCEPT ![i] = new]
        /\ UNCHANGED <<threads, client_fd>>
    BY <1>0, <1>1 DEF HangUp
  <2>2. Same(new, r)
    BY <1>0, FieldUpdates
  <2> QED
    BY <2>1, <2>2, OneSessionSame
<1>2. CASE PagerQuits(i)
  <2> DEFINE new == [r EXCEPT !.pager = "gone"]
  <2>1. /\ session' = [session EXCEPT ![i] = new]
        /\ UNCHANGED <<threads, client_fd>>
    BY <1>0, <1>2 DEF PagerQuits
  <2>2. Same(new, r)
    BY <1>0, FieldUpdates
  <2> QED
    BY <2>1, <2>2, OneSessionSame
<1>3. CASE PagingTurn(i)
  <2>1. /\ UNCHANGED <<threads, client_fd>>
        /\ \/ session' = session
           \/ session' = [session EXCEPT ![i].is_paging = FALSE, ![i].pager = "none",
                                         ![i].pipefd = -1]
    BY <1>3 DEF PagingTurn
  <2>2. CASE session' = session
    BY <2>1, <2>2 DEF TableInv, SameEntries
  <2> QED
    BY <2>1, <2>2, PagerGoneSame
<1>4. CASE PagerFails(i)
  <2>1. UNCHANGED <<threads, client_fd>> /\ (session' = session \/ session' = Crowd(session, 2))
    BY <1>4 DEF PagerFails
  <2>2. CASE session' = session
    BY <2>1, <2>2 DEF TableInv, SameEntries
  <2>3. CASE session' = Crowd(session, 2)
    BY <2>1, <2>3, CrowdSame DEF SameEntries
  <2> QED
    BY <2>1, <2>2, <2>3
<1>5. CASE PagedCommand(i)
  <2> DEFINE crowd == Crowd(session, 1)
  <2>1. PICK gone \in BOOLEAN :
          session' = [crowd EXCEPT
                         ![i].is_paging = ~gone, ![i].opened = 0,
                         ![i].pager = IF gone THEN "none" ELSE "shows",
                         ![i].pipefd = IF gone THEN -1 ELSE PagerFds(fds).writer]
    BY <1>5 DEF PagedCommand
  <2>2. UNCHANGED <<threads, client_fd>>
    BY <1>5 DEF PagedCommand
  <2>3. /\ crowd = [j \in Slots |-> crowd[j]]
        /\ \A j \in Slots : Same(crowd[j], session[j])
    BY CrowdSame DEF Same
  <2> DEFINE a == ~gone
             b == IF gone THEN "none" ELSE "shows"
             c == IF gone THEN -1 ELSE PagerFds(fds).writer
             q == crowd[i]
             new == [q EXCEPT !.is_paging = a, !.opened = 0, !.pager = b, !.pipefd = c]
  <2>4. session' = [crowd EXCEPT ![i].is_paging = a, ![i].opened = 0, ![i].pager = b,
                                 ![i].pipefd = c]
    BY <2>1
  <2> HIDE DEF a, b, c, crowd
  <2>5. session' = [j \in Slots |-> IF j = i THEN new ELSE crowd[j]]
    BY <2>3, <2>4
  <2>6. IsSession(q)
    BY <2>3 DEF Same
  <2>7. Same(new, q)
    <3> HIDE DEF q
    <3> QED
      BY <2>6, ManyUpdates
  <2>8. Same(new, session[i])
    <3> HIDE DEF new
    <3> QED
      BY <2>3, <2>7 DEF Same
  <2> HIDE DEF new
  <2> QED
    BY <2>2, <2>3, <2>5, <2>8 DEF SameEntries, Same
<1> QED
  BY <1>1, <1>2, <1>3, <1>4, <1>5

-----------------------------------------------------------------------------
(* The table is right at the start. *)
LEMMA InitTable == Init => TableInv
<1> SUFFICES ASSUME Init PROVE TableInv
  OBVIOUS
<1> DEFINE a == Entry("lthread_main", 0)
           b == Entry("vty_server", 0)
           c == Entry("startup_config", 0)
<1>1. /\ a \in Entries /\ b \in Entries /\ c \in Entries
      /\ a.kind # "vty_shell" /\ b.kind # "vty_shell" /\ c.kind # "vty_shell"
  BY EntryIsEntry DEF Kinds
<1>2. threads = <<a, b, c>>
  BY DEF Init
<1> HIDE DEF a, b, c
<1>3. threads \in Seq(Entries) /\ \A e \in DOMAIN threads : threads[e].kind # "vty_shell"
  BY <1>1, <1>2
<1>4. session = [i \in Slots |-> NoSession] /\ client_fd = [i \in Slots |-> -1]
  BY DEF Init
<1>5. IsSession(NoSession) /\ NoSession.thread_id = 0 /\ NoSession.state = "none"
  BY DEF IsSession, NoSession
<1> QED
  BY <1>3, <1>4, <1>5 DEF TableInv, EntryOwned

(* The operator starts a worker or an lthread. *)
Started == \E kind \in {"worker", "rib_manager", "stat_collector"} : Starts(kind)

(* The two commands do. *)
LEMMA StartsAreStarted == StartWorker \/ StartLthread => Started
BY DEF StartWorker, StartLthread, Started

(* A step keeps the table, and but for a session that registers itself no   *)
(* session begins its loop.                                                 *)
LEMMA NextTable ==
  ASSUME TableInv, [Next]_vars
  PROVE  /\ TableInv'
         /\ \/ AllContinue
            \/ \E i \in Slots : /\ VtyStart(i)
                                /\ session'[i].thread_id = RegisteredId(threads)
                                /\ \A j \in Slots \ {i} : Continues(j)
<1>1. CASE StartupEnds
  <2>1. AllContinue
    BY <1>1 DEF StartupEnds, AllContinue, Continues
  <2> QED
    BY <1>1, <2>1, RegisterOther DEF StartupEnds, Kinds
<1>2. CASE Accept
  BY <1>2, AcceptKeeps
<1>3. ASSUME NEW i \in Slots, VtyStart(i)
      PROVE  /\ TableInv'
             /\ session'[i].thread_id = RegisteredId(threads)
             /\ \A j \in Slots \ {i} : Continues(j)
  BY <1>3, VtyStartKeeps
<1>4. ASSUME NEW i \in Slots,
             HangUp(i) \/ PagedCommand(i) \/ PagerFails(i) \/ PagerQuits(i) \/ PagingTurn(i)
      PROVE  TableInv' /\ AllContinue
  BY <1>4, PagerSame, SameEntriesKeep
<1>5. ASSUME NEW i \in Slots, ReadEof(i) \/ VtyExit(i) \/ SessionEnds(i)
      PROVE  TableInv' /\ AllContinue
  <2>1. \E f \in {fds, Close(fds, client_fd[i])} : EndSession(i, f)
    BY <1>5 DEF ReadEof, VtyExit, SessionEnds
  <2> QED
    BY <2>1, EndSessionKeeps
<1>6. CASE WaitpidReturns
  <2>1. PICK i \in blocked :
          session' = [session EXCEPT ![i].is_paging = FALSE, ![i].pager = "none",
                                     ![i].pipefd = -1]
    BY <1>6 DEF WaitpidReturns
  <2>2. UNCHANGED <<threads, client_fd>>
    BY <1>6 DEF WaitpidReturns
  <2>3. SameEntries
    <3>1. CASE i \in Slots
      BY <2>1, <2>2, <3>1, PagerGoneSame
    <3>2. CASE i \notin Slots
      <4>1. session' = session
        BY <2>1, <3>2 DEF TableInv
      <4> QED
        BY <2>2, <4>1 DEF TableInv, SameEntries
    <3> QED
      BY <3>1, <3>2
  <2> QED
    BY <2>3, SameEntriesKeep
<1>7. CASE StartWorker \/ StartLthread
  <2>1. PICK kind \in {"worker", "rib_manager", "stat_collector"} : Starts(kind)
    BY <1>7, StartsAreStarted DEF Started
  <2>2. /\ threads' = Register(threads, Entry(kind, 0))
        /\ UNCHANGED <<session, client_fd>>
    BY <2>1 DEF Starts
  <2>3. kind \in Kinds /\ kind # "vty_shell"
    BY DEF Kinds
  <2>4. AllContinue
    BY <2>2 DEF AllContinue, Continues
  <2> QED
    BY <2>2, <2>3, <2>4, RegisterOther
<1>8. CASE Quit \/ LoopEnds \/ UNCHANGED vars
  <2>1. UNCHANGED <<threads, client_fd, session>>
    BY <1>8 DEF Quit, LoopEnds, vars
  <2>2. SameEntries
    BY <2>1 DEF TableInv, SameEntries
  <2> QED
    BY <2>2, SameEntriesKeep
<1> QED
  BY <1>1, <1>2, <1>3, <1>4, <1>5, <1>6, <1>7, <1>8 DEF Next, SessionTurn

(* The entry a session has in the thread table is its own from              *)
(* thread_register() to thread_unregister(), and no entry outlives its      *)
(* session, whatever is registered and removed in between.                  *)
THEOREM EntriesOwned == Spec => []EntryOwned
<1>1. TableInv => EntryOwned
  BY DEF TableInv
<1>2. TableInv /\ [Next]_vars => TableInv'
  BY NextTable
<1> QED
  BY InitTable, <1>1, <1>2, PTL DEF Spec
-----------------------------------------------------------------------------
(* The struct of the ghosts. *)
Ghosts(served, paged, slaves, starts, wild, crowded) ==
  [served |-> served, paged |-> paged, slaves |-> slaves, starts |-> starts,
   wild |-> wild, crowded |-> crowded]

(* The record of the counters, field by field. *)
IsCount(c) ==
  /\ c = Ghosts(c.served, c.paged, c.slaves, c.starts, c.wild, c.crowded)
  /\ {c.served, c.paged, c.slaves, c.starts} \subseteq Nat

(* Its fields. *)
LEMMA GhostFields ==
  ASSUME NEW a \in Nat, NEW b \in Nat, NEW c \in Nat, NEW d \in Nat, NEW e, NEW f
  PROVE  LET g == Ghosts(a, b, c, d, e, f)
         IN  /\ IsCount(g)
             /\ g.served = a /\ g.paged = b /\ g.slaves = c /\ g.starts = d
             /\ g.wild = e /\ g.crowded = f
BY DEF IsCount, Ghosts

(* An update of one of its fields. *)
LEMMA CountUpdates ==
  ASSUME NEW c, IsCount(c), NEW v, NEW n, NEW m
  PROVE  /\ [c EXCEPT !.served = n] =
              Ghosts(n, c.paged, c.slaves, c.starts, c.wild, c.crowded)
         /\ [c EXCEPT !.paged = n] =
              Ghosts(c.served, n, c.slaves, c.starts, c.wild, c.crowded)
         /\ [c EXCEPT !.paged = n, !.slaves = m] =
              Ghosts(c.served, n, m, c.starts, c.wild, c.crowded)
         /\ [c EXCEPT !.starts = n] =
              Ghosts(c.served, c.paged, c.slaves, n, c.wild, c.crowded)
         /\ [c EXCEPT !.wild = v] =
              Ghosts(c.served, c.paged, c.slaves, c.starts, v, c.crowded)
         /\ [c EXCEPT !.crowded = v] =
              Ghosts(c.served, c.paged, c.slaves, c.starts, c.wild, v)
<1> DEFINE p == [c EXCEPT !.paged = n]
<1>1. /\ [c EXCEPT !.served = n] =
           Ghosts(n, c.paged, c.slaves, c.starts, c.wild, c.crowded)
      /\ p = Ghosts(c.served, n, c.slaves, c.starts, c.wild, c.crowded)
      /\ [c EXCEPT !.starts = n] =
           Ghosts(c.served, c.paged, c.slaves, n, c.wild, c.crowded)
      /\ [c EXCEPT !.wild = v] =
           Ghosts(c.served, c.paged, c.slaves, c.starts, v, c.crowded)
      /\ [c EXCEPT !.crowded = v] =
           Ghosts(c.served, c.paged, c.slaves, c.starts, c.wild, v)
  BY DEF IsCount, Ghosts
<1>2. [c EXCEPT !.paged = n, !.slaves = m] = [p EXCEPT !.slaves = m]
  OBVIOUS
<1>3. [p EXCEPT !.slaves = m] =
        Ghosts(c.served, n, m, c.starts, c.wild, c.crowded)
  <2> HIDE DEF p
  <2> QED
    BY <1>1 DEF Ghosts
<1> QED
  BY <1>1, <1>2, <1>3

(* The counters that each step moves. *)
LEMMA CountSteps ==
  ASSUME IsCount(count), [Next]_vars
  PROVE  /\ IsCount(count')
         /\ \/ count'.starts = count.starts
            \/ Started /\ count'.starts = count.starts + 1
         /\ \/ count'.wild = count.wild
            \/ \E i \in Slots : Live(i) /\ count'.wild = Wild(i)
         /\ count.crowded => count'.crowded
<1>1. {count.served, count.paged, count.slaves, count.starts} \subseteq Nat
  BY DEF IsCount
<1>2. CASE UNCHANGED count
  BY <1>2
<1>3. CASE Started
  <2>1. count' = [count EXCEPT !.starts = count.starts + 1]
    BY <1>3 DEF Started, Starts
  <2>2. count' = Ghosts(count.served, count.paged, count.slaves, count.starts + 1,
                        count.wild, count.crowded)
    BY <2>1, CountUpdates
  <2> QED
    BY <1>1, <1>3, <2>2, GhostFields
<1>4. CASE Accept
  <2>1. count' = count \/ count' = [count EXCEPT !.served = count.served + 1]
    BY <1>4 DEF Accept
  <2>2. CASE count' = [count EXCEPT !.served = count.served + 1]
    <3>1. count' = Ghosts(count.served + 1, count.paged, count.slaves, count.starts,
                          count.wild, count.crowded)
      BY <2>2, CountUpdates
    <3> QED
      BY <1>1, <3>1, GhostFields
  <2> QED
    BY <1>2, <2>1, <2>2
<1>5. ASSUME NEW i \in Slots, PagedCommand(i) \/ PagerFails(i)
      PROVE  IsCount(count') /\ count'.starts = count.starts
             /\ count'.wild = count.wild /\ count'.crowded = count.crowded
  <2>1. \/ count' = count
        \/ count' = [count EXCEPT !.paged = count.paged + 1]
        \/ count' = [count EXCEPT !.paged = count.paged + 1, !.slaves = count.slaves + 1]
    BY <1>5 DEF PagedCommand, PagerFails
  <2> DEFINE a == count.paged + 1
             b == count.slaves + 1
  <2>2. a \in Nat /\ b \in Nat
    BY <1>1
  <2> HIDE DEF a, b
  <2>3. CASE count' = [count EXCEPT !.paged = a]
    <3>1. count' = Ghosts(count.served, a, count.slaves, count.starts,
                          count.wild, count.crowded)
      BY <2>3, CountUpdates
    <3> QED
      BY <1>1, <2>2, <3>1, GhostFields
  <2>4. CASE count' = [count EXCEPT !.paged = a, !.slaves = b]
    <3>1. count' = Ghosts(count.served, a, b, count.starts, count.wild, count.crowded)
      BY <2>4, CountUpdates
    <3> QED
      BY <1>1, <2>2, <3>1, GhostFields
  <2> QED
    BY <2>1, <2>3, <2>4 DEF a, b
<1>6. ASSUME NEW i \in Slots, PagingTurn(i)
      PROVE  IsCount(count') /\ count'.starts = count.starts
             /\ count'.wild = count.wild /\ (count.crowded => count'.crowded)
  <2> DEFINE v == count.crowded \/ Crowded
  <2>1. count' = [count EXCEPT !.crowded = v]
    BY <1>6 DEF PagingTurn, Watch
  <2> HIDE DEF v
  <2>2. count' = Ghosts(count.served, count.paged, count.slaves, count.starts,
                        count.wild, v)
    BY <2>1, CountUpdates
  <2>3. IsCount(count') /\ count'.starts = count.starts
        /\ count'.wild = count.wild /\ count'.crowded = v
    BY <1>1, <2>2, GhostFields
  <2> QED
    BY <2>3 DEF v
<1>7. ASSUME NEW i \in Slots, ReadEof(i) \/ VtyExit(i) \/ SessionEnds(i)
      PROVE  IsCount(count') /\ count'.starts = count.starts
             /\ count'.wild = Wild(i) /\ count'.crowded = count.crowded /\ Live(i)
  <2>1. count' = [count EXCEPT !.wild = Wild(i)] /\ Live(i)
    BY <1>7 DEF ReadEof, VtyExit, SessionEnds
  <2>2. count' = Ghosts(count.served, count.paged, count.slaves, count.starts,
                        Wild(i), count.crowded)
    BY <2>1, CountUpdates
  <2> QED
    BY <1>1, <2>1, <2>2, GhostFields
<1>8. ASSUME NEW i \in Slots, VtyStart(i) \/ HangUp(i) \/ PagerQuits(i)
      PROVE  UNCHANGED count
  BY <1>8 DEF VtyStart, HangUp, PagerQuits
<1>9. StartupEnds \/ WaitpidReturns \/ Quit \/ LoopEnds \/ UNCHANGED vars => UNCHANGED count
  BY DEF StartupEnds, WaitpidReturns, Quit, LoopEnds, vars
<1> QED
  BY <1>2, <1>3, <1>4, <1>5, <1>6, <1>7, <1>8, <1>9, StartsAreStarted
     DEF Next, SessionTurn
-----------------------------------------------------------------------------
(* Entries of lthreads and workers, which nobody removes. *)
Others == {e \in DOMAIN threads : threads[e] # FREE /\ threads[e].kind # "vty_shell"}

(* The entries that start up takes: the console's comes when it is over. *)
StartupEntries == IF StartingUp THEN 3 ELSE 4

(* There may be more lthreads, workers and sessions than entries. *)
Overfull == 4 + count.starts + VTY_CLIENT_MAX > THREAD_INFO_LIMIT

(* The table holds no more of the others than were ever started, so that a  *)
(* session finds it full only if it may overflow.                           *)
FullInv ==
  /\ IsCount(count)
  /\ Cardinality(Others) <= StartupEntries + count.starts
  /\ \A i \in Slots :
       session[i].state = "running" /\ session[i].thread_id = 0 => Overfull
  /\ count.wild => Overfull

(* The indexes of a table can be counted. *)
LEMMA DomainFinite ==
  ASSUME NEW t \in Seq(Entries)
  PROVE  /\ DOMAIN t \subseteq Nat \ {0}
         /\ IsFiniteSet(DOMAIN t) /\ Cardinality(DOMAIN t) = Len(t)
<1>1. DOMAIN t = 1 .. Len(t) /\ Len(t) \in Nat
  OBVIOUS
<1>2. IsFiniteSet(1 .. Len(t)) /\ Cardinality(1 .. Len(t)) = Len(t)
  <2>1. /\ IsFiniteSet(1 .. Len(t))
        /\ Cardinality(1 .. Len(t)) = IF 1 > Len(t) THEN 0 ELSE Len(t) - 1 + 1
    BY <1>1, FS_Interval
  <2> QED
    BY <1>1, <2>1
<1> QED
  BY <1>1, <1>2

(* There are VTY_CLIENT_MAX slots. *)
LEMMA SlotsFinite == IsFiniteSet(Slots) /\ Cardinality(Slots) = VTY_CLIENT_MAX
<1>1. VTY_CLIENT_MAX \in Nat \ {0}
  BY SessionsAssumption
<1>2. /\ 0 \in Int /\ VTY_CLIENT_MAX - 1 \in Int
      /\ ~(0 > VTY_CLIENT_MAX - 1) /\ VTY_CLIENT_MAX - 1 - 0 + 1 = VTY_CLIENT_MAX
  BY <1>1
<1> QED
  BY <1>2, FS_Interval DEF Slots

(* A session that has no entry yet finds the table full only if it may      *)
(* overflow: each of the other sessions has one entry at most.              *)
LEMMA FullTable ==
  ASSUME TableInv, FullInv, NEW i \in Slots, session[i].thread_id = 0,
         RegisteredId(threads) = 0
  PROVE  Overfull
<1> DEFINE D == DOMAIN threads
           Shells == {e \in D : threads[e].kind = "vty_shell"}
           Rest == Slots \ {i}
           f == [e \in Shells |-> threads[e].of]
<1>1. /\ threads \in Seq(Entries) /\ Len(threads) \in Nat
      /\ D \subseteq Nat \ {0} /\ IsFiniteSet(D) /\ Cardinality(D) = Len(threads)
  BY DomainFinite DEF TableInv
<1>2. /\ VTY_CLIENT_MAX \in Nat \ {0} /\ THREAD_INFO_LIMIT \in Nat \ {0}
      /\ count.starts \in Nat
  BY SessionsAssumption DEF FullInv, IsCount
<1>3. D = Others \cup Shells
  <2>1. FreeEntries(threads) = {}
    <3> SUFFICES ASSUME FreeEntries(threads) # {} PROVE FALSE
      OBVIOUS
    <3>1. FreeEntries(threads) \subseteq Nat \ {0}
      BY <1>1 DEF FreeEntries
    <3>2. Min(FreeEntries(threads)) \in FreeEntries(threads)
      BY <3>1, MinIsElement
    <3> QED
      BY <3>1, <3>2 DEF RegisteredId
  <2> QED
    BY <2>1 DEF FreeEntries, Others
<1>4. Len(threads) >= THREAD_INFO_LIMIT
  <2>1. CASE Len(threads) < THREAD_INFO_LIMIT
    <3>1. RegisteredId(threads) # 0
      <4>1. FreeEntries(threads) # {} => Min(FreeEntries(threads)) # 0
        <5>1. FreeEntries(threads) \subseteq Nat \ {0}
          BY <1>1 DEF FreeEntries
        <5> QED
          BY <5>1, MinIsElement
      <4> QED
        BY <1>1, <2>1, <4>1 DEF RegisteredId
    <3> QED
      BY <3>1
  <2> QED
    BY <1>1, <1>2, <2>1
<1>5. f \in Injection(Shells, Rest)
  <2>1. \A e \in Shells : e # 0 /\ f[e] \in Slots /\ session[f[e]].thread_id = e
    BY <1>1 DEF TableInv, EntryOwned
  <2>2. \A e \in Shells : f[e] \in Rest
    BY <2>1
  <2>3. \A d, e \in Shells : f[d] = f[e] => d = e
    BY <2>1
  <2>4. f \in [Shells -> Rest]
    <3> HIDE DEF Shells, Rest
    <3> QED
      BY <2>2
  <2> HIDE DEF Shells, Rest, f
  <2> QED
    BY <2>3, <2>4 DEF Injection, IsInjective
<1>6. IsFiniteSet(Rest) /\ Cardinality(Rest) = VTY_CLIENT_MAX - 1
  BY SlotsFinite, FS_RemoveElement
<1>7. IsFiniteSet(Shells) /\ IsFiniteSet(Others)
      /\ Cardinality(Shells) \in Nat /\ Cardinality(Others) \in Nat
      /\ Cardinality(Others \cap Shells) \in Nat
  <2>1. Shells \subseteq D /\ Others \subseteq D /\ Others \cap Shells \subseteq D
    BY DEF Others
  <2> HIDE DEF Shells, D
  <2> QED
    BY <1>1, <2>1, FS_Subset, FS_CardinalityType
<1> HIDE DEF D, Shells, Rest, f
<1>8. Cardinality(Shells) <= Cardinality(Rest)
  BY <1>5, <1>6, FS_Injection
<1>9. Cardinality(D) = Cardinality(Others) + Cardinality(Shells)
                         - Cardinality(Others \cap Shells)
  BY <1>3, <1>7, FS_Union
<1>10. Cardinality(Others) <= 4 + count.starts
  <2>1. StartupEntries \in {3, 4}
    BY DEF StartupEntries
  <2> QED
    BY <1>2, <1>7, <2>1 DEF FullInv
<1> QED
  BY <1>1, <1>2, <1>4, <1>6, <1>7, <1>8, <1>9, <1>10 DEF Overfull

(* The others: one more for each that is started, none less. *)
LEMMA OthersSteps ==
  ASSUME TableInv, [Next]_vars
  PROVE  /\ IsFiniteSet(Others) /\ IsFiniteSet(Others')
         /\ \/ Others' \subseteq Others
            \/ /\ StartupEnds \/ Started
               /\ \E e : Others' \subseteq Others \cup {e}
<1>1. IsFiniteSet(Others) /\ IsFiniteSet(Others')
  <2>1. threads \in Seq(Entries) /\ threads' \in Seq(Entries)
    BY NextTable DEF TableInv
  <2>2. Others \subseteq DOMAIN threads /\ Others' \subseteq DOMAIN threads'
    BY DEF Others
  <2> QED
    BY <2>1, <2>2, DomainFinite, FS_Subset
<1>2. ASSUME NEW who \in Entries, threads' = Register(threads, who)
      PROVE  /\ Others' \subseteq Others \cup {RegisteredId(threads)}
             /\ who.kind = "vty_shell" => Others' \subseteq Others
  <2> DEFINE id == RegisteredId(threads)
  <2>1. threads \in Seq(Entries)
    BY DEF TableInv
  <2>2. /\ id # 0 => threads'[id] = who
        /\ \A e \in DOMAIN threads' \ {id} : e \in DOMAIN threads /\ threads'[e] = threads[e]
        /\ threads' \in Seq(Entries)
    BY <1>2, <2>1, RegisterOne
  <2>3. 0 \notin DOMAIN threads'
    BY <2>2
  <2> HIDE DEF id
  <2> QED
    BY <2>2, <2>3 DEF Others, id
<1>3. CASE StartupEnds \/ Started
  <2>1. \E k \in {"console_shell", "worker", "rib_manager", "stat_collector"} :
          threads' = Register(threads, Entry(k, 0))
    BY <1>3 DEF StartupEnds, Started, Starts
  <2>2. PICK who \in Entries : threads' = Register(threads, who)
    BY <2>1, EntryIsEntry DEF Kinds
  <2> QED
    BY <1>1, <1>2, <1>3, <2>2
<1>4. ASSUME NEW i \in Slots, VtyStart(i) PROVE Others' \subseteq Others
  <2>1. threads' = Register(threads, Entry("vty_shell", i))
    BY <1>4 DEF VtyStart
  <2> QED
    BY <1>2, <2>1, SessionEntry
<1>5. ASSUME NEW i \in Slots, ReadEof(i) \/ VtyExit(i) \/ SessionEnds(i)
      PROVE  Others' \subseteq Others
  <2> DEFINE id == session[i].thread_id
  <2>1. threads' = IF id = 0 THEN threads ELSE [threads EXCEPT ![id] = FREE]
    BY <1>5 DEF ReadEof, VtyExit, SessionEnds, EndSession, Unregister
  <2> HIDE DEF id
  <2> QED
    BY <2>1 DEF Others
<1>6. ASSUME UNCHANGED threads PROVE Others' \subseteq Others
  BY <1>6 DEF Others
<1>7. ASSUME NEW i \in Slots,
             HangUp(i) \/ PagedCommand(i) \/ PagerFails(i) \/ PagerQuits(i) \/ PagingTurn(i)
      PROVE  UNCHANGED threads
  BY <1>7 DEF HangUp, PagedCommand, PagerFails, PagerQuits, PagingTurn
<1>8. Accept \/ WaitpidReturns \/ Quit \/ LoopEnds \/ UNCHANGED vars => UNCHANGED threads
  BY DEF Accept, WaitpidReturns, Quit, LoopEnds, vars
<1> QED
  BY <1>1, <1>3, <1>4, <1>5, <1>6, <1>7, <1>8, StartsAreStarted DEF Next, SessionTurn

(* Start up is over once. *)
LEMMA StartupSteps ==
  ASSUME [Next]_vars
  PROVE  /\ StartupEnds => StartupEntries = 3 /\ StartupEntries' = 4
         /\ ~StartupEnds => StartupEntries' = StartupEntries
         /\ StartupEntries \in {3, 4}
<1> DEFINE e == Entry("startup_config", 0)
<1>1. StartupEnds => StartupEntries = 3 /\ StartupEntries' = 4
  <2>1. Entry("console_shell", 0) # e
    BY DEF Entry
  <2> QED
    BY <2>1 DEF StartupEnds, StartingUp, StartupEntries
<1>2. LoopEnds \/ StartLthread => StartupEntries' = StartupEntries
  <2>1. \A n : Entry("rib_manager", n) # e /\ Entry("stat_collector", n) # e
    BY DEF Entry
  <2>2. LoopEnds => (e \in lthreads' <=> e \in lthreads)
    BY DEF LoopEnds
  <2>3. StartLthread => (e \in lthreads' <=> e \in lthreads)
    <3> HIDE DEF e
    <3> QED
      BY <2>1 DEF StartLthread
  <2> QED
    BY <2>2, <2>3 DEF StartingUp, StartupEntries
<1>3. ~StartupEnds /\ ~LoopEnds /\ ~StartLthread => UNCHANGED lthreads
  BY DEF Next, SessionTurn, Accept, VtyStart, PagingTurn, SessionEnds, HangUp, ReadEof,
         PagedCommand, PagerFails, PagerQuits, WaitpidReturns, VtyExit, StartWorker,
         Quit, vars
<1> QED
  BY <1>1, <1>2, <1>3 DEF StartingUp, StartupEntries

(* Every step keeps the count of the entries in use. *)
LEMMA FullStep ==
  ASSUME TableInv, FullInv, [Next]_vars
  PROVE  FullInv'
<1>1. /\ IsCount(count')
      /\ \/ count'.starts = count.starts
         \/ Started /\ count'.starts = count.starts + 1
      /\ \/ count'.wild = count.wild
         \/ \E i \in Slots : Live(i) /\ count'.wild = Wild(i)
  BY CountSteps DEF FullInv
<1>2. /\ count.starts \in Nat /\ count'.starts \in Nat
      /\ VTY_CLIENT_MAX \in Nat /\ THREAD_INFO_LIMIT \in Nat
  BY <1>1, SessionsAssumption DEF FullInv, IsCount
<1>3. Overfull => Overfull'
  BY <1>1, <1>2 DEF Overfull
<1>4. Cardinality(Others') <= StartupEntries' + count'.starts
  <2>1. /\ Cardinality(Others) \in Nat /\ Cardinality(Others') \in Nat
        /\ IsFiniteSet(Others)
    BY OthersSteps, FS_CardinalityType
  <2>2. Cardinality(Others) <= StartupEntries + count.starts
    BY DEF FullInv
  <2>3. CASE Others' \subseteq Others
    <3>1. Cardinality(Others') <= Cardinality(Others)
      BY <2>1, <2>3, FS_Subset
    <3>2. StartupEntries <= StartupEntries' /\ StartupEntries \in Nat /\ StartupEntries' \in Nat
      BY StartupSteps
    <3> QED
      BY <1>1, <1>2, <2>1, <2>2, <3>1, <3>2
  <2>4. CASE /\ StartupEnds \/ Started
             /\ \E e : Others' \subseteq Others \cup {e}
    <3>1. PICK e : Others' \subseteq Others \cup {e}
      BY <2>4
    <3>2. /\ IsFiniteSet(Others \cup {e})
          /\ Cardinality(Others \cup {e}) <= Cardinality(Others) + 1
          /\ Cardinality(Others \cup {e}) \in Nat
      <4>1. /\ IsFiniteSet(Others \cup {e})
            /\ Cardinality(Others \cup {e}) =
                 IF e \in Others THEN Cardinality(Others) ELSE Cardinality(Others) + 1
        BY <2>1, FS_AddElement
      <4> QED
        BY <2>1, <4>1
    <3>3. Cardinality(Others') <= Cardinality(Others \cup {e})
      BY <3>1, <3>2, FS_Subset
    <3>4. Cardinality(Others') <= Cardinality(Others) + 1
      BY <2>1, <3>2, <3>3
    <3>5. CASE StartupEnds
      BY <1>1, <1>2, <2>1, <2>2, <3>4, <3>5, StartupSteps
    <3>6. CASE Started /\ ~StartupEnds
      <4>1. count'.starts = count.starts + 1
        <5>1. count' = [count EXCEPT !.starts = count.starts + 1]
          BY <3>6 DEF Started, Starts
        <5>2. count' = Ghosts(count.served, count.paged, count.slaves, count.starts + 1,
                              count.wild, count.crowded)
          BY <5>1, CountUpdates DEF FullInv
        <5> QED
          BY <1>2, <5>2, GhostFields DEF FullInv, IsCount
      <4> QED
        BY <1>2, <2>1, <2>2, <3>4, <3>6, <4>1, StartupSteps
    <3> QED
      BY <2>4, <3>5, <3>6
  <2> QED
    BY <2>3, <2>4, OthersSteps
<1>5. ASSUME NEW j \in Slots, session'[j].state = "running", session'[j].thread_id = 0
      PROVE  Overfull'
  <2>1. CASE Continues(j)
    BY <1>3, <1>5, <2>1 DEF Continues, FullInv
  <2>2. CASE VtyStart(j) /\ session'[j].thread_id = RegisteredId(threads)
    <3>1. session[j].thread_id = 0
      BY <2>2 DEF VtyStart, TableInv
    <3> QED
      BY <1>3, <1>5, <2>2, <3>1, FullTable
  <2> QED
    BY <2>1, <2>2, NextTable DEF AllContinue
<1>6. count'.wild => Overfull'
  BY <1>1, <1>3 DEF FullInv, Live, Wild
<1> QED
  BY <1>1, <1>4, <1>5, <1>6 DEF FullInv

(* thread_unregister() writes outside the thread table only if the four     *)
(* entries of start up, the workers, rib managers and statistics collectors *)
(* ever started and the client slots together are more than it holds: for   *)
(* every number of sessions served, of starts and of client slots.          *)
THEOREM TableIsLargeEnough == Spec => []TableSuffices
<1>1. Init => FullInv
  <2> SUFFICES ASSUME Init PROVE FullInv
    OBVIOUS
  <2>1. IsCount(count) /\ count.starts = 0 /\ ~count.wild
    BY DEF Init, IsCount, Ghosts
  <2>2. Cardinality(Others) <= 3
    <3>1. threads \in Seq(Entries) /\ Len(threads) = 3
      <4> DEFINE a == Entry("lthread_main", 0)
                 b == Entry("vty_server", 0)
                 c == Entry("startup_config", 0)
      <4>1. threads = <<a, b, c>> /\ threads \in Seq(Entries)
        BY InitTable DEF TableInv, Init
      <4> HIDE DEF a, b, c
      <4> QED
        BY <4>1
    <3>2. IsFiniteSet(DOMAIN threads) /\ Cardinality(DOMAIN threads) = 3
      BY <3>1, DomainFinite
    <3>3. Others \subseteq DOMAIN threads
      BY DEF Others
    <3> QED
      BY <3>2, <3>3, FS_Subset
  <2>3. StartupEntries = 3
    BY DEF Init, StartingUp, StartupEntries
  <2>4. \A i \in Slots : session[i].state = "none"
    BY DEF Init, NoSession
  <2>5. Cardinality(Others) <= StartupEntries + count.starts
    BY <2>1, <2>2, <2>3
  <2> QED
    BY <2>1, <2>4, <2>5 DEF FullInv
<1>2. TableInv /\ FullInv /\ [Next]_vars => TableInv' /\ FullInv'
  BY NextTable, FullStep
<1>3. FullInv => TableSuffices
  BY DEF FullInv, TableSuffices, Overfull
<1> QED
  BY InitTable, <1>1, <1>2, <1>3, PTL DEF Spec
=============================================================================
