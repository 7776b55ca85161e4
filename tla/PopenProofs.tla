----------------------------- MODULE PopenProofs -----------------------------
(***************************************************************************)
(* Proofs about popen, pclose and system (Popen), for every number of      *)
(* threads, descriptors and calls, and every set of faults: the list and   *)
(* the descriptors; that no child is forgotten; and what a command finds   *)
(* open when it runs.                                                      *)
(***************************************************************************)
EXTENDS Popen, NatMinimum, SequenceTheorems, FiniteSetTheorems, TLAPS

-----------------------------------------------------------------------------
(* The inductive invariant, in parts.                                      *)

Places == {"idle", "malloc", "lock", "fork", "undo", "close", "fdopen", "cloexec",
           "node", "opened", "failed", "plock", "find", "unlock", "fclose", "wait"}

Local == [pc : Places, call : 0 .. MaxCalls,
          mode : {"none", "r", "w", "system", "pclose"},
          parent : Fd, own : Fd, pid : 0 .. MaxCalls]

Child == [state : {"none", "forked", "running", "exited", "reaped"},
          mode : {"none", "r", "w", "system"}, target : {0, 1},
          fds : [Fd -> Descriptor], stuck : BOOLEAN, parent : Fd, own : Fd,
          others : SUBSET Fd]

Node == [fd : Fd, pid : Call]

Types ==
  /\ popen_lock \in Threads \cup {NoThread}
  /\ malloc_lock \in Threads \cup {NoThread}
  /\ pid_list \in Seq(Node)
  /\ fds \in [Fd -> Descriptor]
  /\ \A d \in Fd : fds[d].pipe = 0 <=> fds[d].end \notin {"r", "w"}
  /\ child \in [Call -> Child]
  /\ \A n \in Call : n > calls => child[n] = NoChild
  /\ streams \in SUBSET [fd : Fd, call : Call]
  /\ calls \in 0 .. MaxCalls
  /\ th \in [Threads -> Local]

\* What a thread knows at its place.
AtPlace(t) ==
  /\ th[t].call = 0 <=> th[t].pc \in {"idle", "malloc"}
  /\ th[t].pc \in {"lock", "fork", "undo", "close", "fdopen", "cloexec", "node",
                   "opened", "failed"} => th[t].mode \in {"r", "w"} /\ th[t].pid = 0
  /\ th[t].pc \in {"plock", "find"} => th[t].pid = 0
  /\ th[t].pc \in {"plock", "find", "unlock", "fclose"} => th[t].mode = "pclose"
  /\ th[t].pc \in {"unlock", "fclose", "wait"} => th[t].pid = th[t].call

\* A call has one owner: a thread in it, or the stream it returned.
OneOwner ==
  /\ \A t, u \in Threads : th[t].call # 0 /\ th[t].call = th[u].call => t = u
  /\ \A t \in Threads, s \in streams : th[t].call # s.call
  /\ \A r, s \in streams : r.call = s.call => r = s
  /\ \A t \in Threads : th[t].call <= calls
  /\ \A s \in streams : s.call <= calls

\* The descriptors of a thread, and of a call.
Ends(t) ==
  CASE th[t].pc \in {"lock", "fork", "undo", "close"} -> {th[t].parent, th[t].own}
    [] th[t].pc \in {"fdopen", "cloexec", "node", "opened",
                     "plock", "find", "unlock", "fclose"} -> {th[t].parent}
    [] OTHER -> {}

Holds(n, d) == \/ \E t \in Threads : th[t].call = n /\ d \in Ends(t)
               \/ [fd |-> d, call |-> n] \in streams

\* Every end of a pipe is a descriptor of the call that made the pipe.
EndsHeld == \A n \in Call, d \in Fd : fds[d].pipe = n <=> Holds(n, d)

\* The child's end of a pipe that was not forked or closed yet.
OwnEnd(t) ==
  th[t].pc \in {"lock", "fork", "undo", "close"} =>
    /\ th[t].parent # th[t].own
    /\ fds[th[t].own].end = (IF th[t].mode = "r" THEN "w" ELSE "r")
    /\ ~fds[th[t].own].cloexec

\* The node of a call is on the list from NewNode to Unlink.
Keeps(n, d) ==
  \/ \E t \in Threads : /\ th[t].call = n /\ th[t].parent = d
                        /\ th[t].pc \in {"opened", "plock", "find"}
  \/ [fd |-> d, call |-> n] \in streams

NodesKept ==
  /\ \A n \in Call, d \in Fd :
       Keeps(n, d) <=> \E i \in 1 .. Len(pid_list) : pid_list[i] = [fd |-> d, pid |-> n]
  /\ \A i, j \in 1 .. Len(pid_list) : pid_list[i].pid = pid_list[j].pid => i = j

Inherited ==
  /\ \A t \in Threads : th[t].pc = "node" => fds[th[t].parent].cloexec
  /\ \A n \in Call, d \in Fd : Keeps(n, d) => fds[d].cloexec

PopenInv ==
  /\ Types /\ (\A t \in Threads : AtPlace(t)) /\ OneOwner
  /\ EndsHeld /\ (\A t \in Threads : OwnEnd(t)) /\ NodesKept /\ Inherited

-----------------------------------------------------------------------------
(* What a step does to the threads, the descriptors and the list.          *)

USE PopenAssumption

LEMMA Fields ==
  ASSUME Types, NEW t \in Threads
  PROVE  /\ th[t].pc \in Places /\ th[t].call \in 0 .. MaxCalls
         /\ th[t].mode \in {"none", "r", "w", "system", "pclose"}
         /\ th[t].parent \in Fd /\ th[t].own \in Fd /\ th[t].pid \in 0 .. MaxCalls
<1>1. th[t] \in Local
  BY DEF Types
<1>2. QED
  BY <1>1 DEF Local

\* Only t moves.
Moved(t) == /\ th' \in [Threads -> Local]
            /\ \A u \in Threads : u # t => th'[u] = th[u]

LEMMA SetMoves ==
  ASSUME Types, NEW t \in Threads, NEW r \in Local, th' = [th EXCEPT ![t] = r]
  PROVE  Moved(t) /\ th'[t] = r
BY DEF Types, Moved

LEMMA GotoMoves ==
  ASSUME Types, NEW t \in Threads, NEW p \in Places, Goto(t, p)
  PROVE  /\ Moved(t) /\ th'[t].pc = p
         /\ th'[t].call = th[t].call /\ th'[t].mode = th[t].mode
         /\ th'[t].parent = th[t].parent /\ th'[t].own = th[t].own
         /\ th'[t].pid = th[t].pid
<1> DEFINE r == [th[t] EXCEPT !.pc = p]
<1>1. th[t] \in Local
  BY DEF Types
<1>2. r \in Local /\ r.pc = p /\ r.call = th[t].call /\ r.mode = th[t].mode
      /\ r.parent = th[t].parent /\ r.own = th[t].own /\ r.pid = th[t].pid
  BY <1>1 DEF Local
<1>3. th' = [th EXCEPT ![t] = r]
  BY DEF Goto
<1> HIDE DEF r
<1>4. Moved(t) /\ th'[t] = r
  BY <1>2, <1>3, SetMoves
<1>5. QED
  BY <1>2, <1>4

LEMMA RestingType ==
  /\ Resting \in Local /\ Resting.pc = "idle" /\ Resting.call = 0
  /\ Resting.mode = "none" /\ Resting.pid = 0
BY DEF Resting, Local, Places, Fd

LEMMA DoneMoves ==
  ASSUME Types, NEW t \in Threads, Done(t)
  PROVE  /\ Moved(t) /\ th'[t].pc = "idle" /\ th'[t].call = 0
         /\ th'[t].mode = "none" /\ th'[t].pid = 0
<1>1. Moved(t) /\ th'[t] = Resting
  BY RestingType, SetMoves DEF Done
<1>2. QED
  BY <1>1, RestingType

LEMMA ClosedType ==
  /\ Closed \in Descriptor /\ Closed.pipe = 0 /\ Closed.end = "closed"
  /\ Closed.cloexec = FALSE
BY DEF Closed, Descriptor

LEMMA LowestIsLeast ==
  ASSUME NEW S, S \subseteq Nat, S # {}
  PROVE  Lowest(S) \in S
<1>1. \E d \in S : \A e \in S : d <= e
  BY LeastNat
<1>2. QED
  BY <1>1 DEF Lowest

\* The ends of the two tables of owners.
LEMMA HoldsKept ==
  ASSUME NEW t \in Threads, Moved(t), th'[t].call = th[t].call,
         Ends(t)' = Ends(t), streams' = streams, NEW n, NEW d
  PROVE  Holds(n, d)' <=> Holds(n, d)
<1>1. \A u \in Threads : Ends(u)' = Ends(u) /\ th'[u].call = th[u].call
  BY DEF Moved, Ends
<1>2. QED
  BY <1>1 DEF Holds

Listing == {"opened", "plock", "find"}

LEMMA KeepsKept ==
  ASSUME NEW t \in Threads, Moved(t), streams' = streams,
         \/ /\ th'[t].call = th[t].call /\ th'[t].parent = th[t].parent
            /\ th'[t].pc \in Listing <=> th[t].pc \in Listing
         \/ th[t].pc \notin Listing /\ th'[t].pc \notin Listing,
         NEW n, NEW d
  PROVE  Keeps(n, d)' <=> Keeps(n, d)
<1>1. \A u \in Threads : u # t => th'[u] = th[u]
  BY DEF Moved
<1>2. QED
  BY <1>1 DEF Keeps, Listing

LEMMA KeepsHolds ==
  ASSUME NEW n, NEW d, Keeps(n, d)
  PROVE  Holds(n, d)
BY DEF Keeps, Holds, Ends

LEMMA OneOwnerKept ==
  ASSUME PopenInv, NEW t \in Threads, Moved(t), streams' = streams, calls' = calls,
         th'[t].call \in {0, th[t].call}
  PROVE  OneOwner'
<1>1. \A u \in Threads : th'[u].call \in {0, th[u].call}
  BY DEF Moved
<1>2. \A s \in streams : s.call # 0 /\ s.call \in Nat
  BY DEF PopenInv, Types, Call
<1>3. calls \in Nat
  BY DEF PopenInv, Types
<1>4. \A u, v \in Threads : th'[u].call # 0 /\ th'[u].call = th'[v].call => u = v
  BY <1>1 DEF PopenInv, OneOwner
<1>5. \A u \in Threads, s \in streams : th'[u].call # s.call
  BY <1>1, <1>2 DEF PopenInv, OneOwner
<1>6. \A u \in Threads : th'[u].call <= calls
  BY <1>1, <1>3 DEF PopenInv, OneOwner
<1>7. QED
  BY <1>4, <1>5, <1>6 DEF PopenInv, OneOwner

\* What belongs to the call of t belongs to t.
LEMMA MineAlone ==
  ASSUME PopenInv, NEW t \in Threads, th[t].call # 0, NEW d \in Fd
  PROVE  /\ th[t].call \in Call
         /\ Holds(th[t].call, d) <=> d \in Ends(t)
         /\ fds[d].pipe = th[t].call <=> d \in Ends(t)
         /\ Keeps(th[t].call, d) <=> th[t].pc \in Listing /\ th[t].parent = d
         /\ d \in Ends(t) => fds[d].end \in {"r", "w"}
<1>1. th[t].call \in Call
  BY Fields DEF PopenInv, Call
<1>2. \A u \in Threads : th[u].call = th[t].call => u = t
  BY DEF PopenInv, OneOwner
<1>3. [fd |-> d, call |-> th[t].call] \notin streams
  BY DEF PopenInv, OneOwner
<1>4. Holds(th[t].call, d) <=> d \in Ends(t)
  BY <1>2, <1>3 DEF Holds
<1>5. Keeps(th[t].call, d) <=> th[t].pc \in Listing /\ th[t].parent = d
  BY <1>2, <1>3 DEF Keeps, Listing
<1>6. fds[d].pipe = th[t].call <=> d \in Ends(t)
  BY <1>1, <1>4 DEF PopenInv, EndsHeld
<1>7. d \in Ends(t) => fds[d].end \in {"r", "w"}
  BY <1>1, <1>6 DEF PopenInv, Types
<1>8. QED
  BY <1>1, <1>4, <1>5, <1>6, <1>7

LEMMA EndsType ==
  ASSUME PopenInv, NEW t \in Threads
  PROVE  /\ Ends(t) \subseteq Fd /\ (Ends(t) # {} => th[t].call # 0)
         /\ th[t].pc \notin {"idle", "malloc"} => th[t].call # 0
<1>1. th[t].parent \in Fd /\ th[t].own \in Fd /\ AtPlace(t)
  BY Fields DEF PopenInv
<1>2. QED
  BY <1>1 DEF Ends, AtPlace

LEMMA CallOf ==
  ASSUME PopenInv, NEW t \in Threads, th[t].call # 0
  PROVE  th[t].call \in Call
BY Fields DEF PopenInv, Call

LEMMA OtherEnds ==
  ASSUME PopenInv, NEW t \in Threads, NEW u \in Threads, u # t, NEW d \in Ends(t)
  PROVE  d \notin Ends(u)
<1>1. SUFFICES ASSUME d \in Ends(u) PROVE FALSE
  OBVIOUS
<1>2. d \in Fd /\ th[t].call # 0 /\ th[u].call # 0
  BY <1>1, EndsType
<1>3. fds[d].pipe = th[t].call /\ fds[d].pipe = th[u].call
  BY <1>1, <1>2, MineAlone
<1>4. QED
  BY <1>2, <1>3 DEF PopenInv, OneOwner

-----------------------------------------------------------------------------
(* Three kinds of step.                                                    *)

\* t moves to a place where it has the same descriptors and the same node.
LEMMA QuietStep ==
  ASSUME PopenInv, NEW t \in Threads, Moved(t), Types', AtPlace(t)', OwnEnd(t)',
         th'[t].call = th[t].call, Ends(t)' = Ends(t),
         th'[t].parent = th[t].parent,
         th'[t].pc \in Listing <=> th[t].pc \in Listing,
         th'[t].pc = "node" => fds[th'[t].parent].cloexec,
         UNCHANGED <<pid_list, fds, streams, calls>>
  PROVE  PopenInv'
<1>1. \A n, d : Holds(n, d)' <=> Holds(n, d)
  BY HoldsKept
<1>2. \A n, d : Keeps(n, d)' <=> Keeps(n, d)
  BY KeepsKept
<1>3. OneOwner'
  BY OneOwnerKept
<1>4. \A u \in Threads : AtPlace(u)' /\ OwnEnd(u)'
  BY DEF Moved, PopenInv, AtPlace, OwnEnd
<1>5. EndsHeld'
  BY <1>1 DEF PopenInv, EndsHeld
<1>6. NodesKept'
  BY <1>2 DEF PopenInv, NodesKept
<1>7. Inherited'
  <2>1. \A u \in Threads : th'[u].pc = "node" => fds[th'[u].parent].cloexec
    BY DEF Moved, PopenInv, Inherited
  <2>2. QED
    BY <1>2, <2>1 DEF PopenInv, Inherited
<1>8. QED
  BY <1>3, <1>4, <1>5, <1>6, <1>7 DEF PopenInv

\* t closes some of its descriptors, none of them that of a node.
LEMMA ClosingStep ==
  ASSUME PopenInv, NEW t \in Threads, Moved(t), Types', AtPlace(t)', OwnEnd(t)',
         NEW D, D \subseteq Ends(t), Ends(t)' = Ends(t) \ D,
         \A d \in Fd : fds'[d] = IF d \in D THEN Closed ELSE fds[d],
         th'[t].call = th[t].call \/ (th'[t].call = 0 /\ D = Ends(t)),
         th[t].pc \notin Listing, th'[t].pc \notin Listing \cup {"node"},
         UNCHANGED <<pid_list, streams, calls>>
  PROVE  PopenInv'
<1>1. \A n, d : Keeps(n, d)' <=> Keeps(n, d)
  BY KeepsKept
<1>2. OneOwner'
  BY OneOwnerKept
<1>3. \A u \in Threads : u # t => Ends(u)' = Ends(u) /\ th'[u] = th[u]
  BY DEF Moved, Ends
<1>4. \A u \in Threads : u # t => Ends(u) \cap D = {}
  BY OtherEnds
<1>5. ASSUME NEW n \in Call, NEW d \in Fd, d \in D PROVE ~Holds(n, d)
                                                       \/ n = th[t].call
  <2>1. th[t].call # 0 /\ fds[d].pipe = th[t].call
    BY <1>5, EndsType, MineAlone
  <2>2. QED
    BY <2>1 DEF PopenInv, EndsHeld
<1>6. EndsHeld'
  <2> SUFFICES ASSUME NEW n \in Call, NEW d \in Fd
               PROVE  fds'[d].pipe = n <=> Holds(n, d)'
    BY DEF EndsHeld
  <2>0. n # 0 /\ (fds[d].pipe = n <=> Holds(n, d))
    BY DEF Call, PopenInv, EndsHeld
  <2>1. CASE d \in D
    <3>1. fds'[d].pipe # n
      BY <2>0, <2>1, ClosedType
    <3>2. [fd |-> d, call |-> n] \notin streams
      <4>1. th[t].call # 0 /\ Holds(th[t].call, d) /\ fds[d].pipe = th[t].call
        BY <2>1, EndsType, MineAlone
      <4>2. [fd |-> d, call |-> n] \in streams => n = th[t].call
        BY <2>0, <4>1 DEF Holds
      <4>3. [fd |-> d, call |-> th[t].call] \notin streams
        BY DEF PopenInv, OneOwner
      <4>4. QED
        BY <4>2, <4>3
    <3>3. \A u \in Threads : d \notin Ends(u)'
      BY <1>3, <1>4, <2>1
    <3>4. QED
      BY <3>1, <3>2, <3>3 DEF Holds
  <2>2. CASE d \notin D
    <3>1. fds'[d] = fds[d]
      BY <2>2
    <3>2. \A u \in Threads : (th'[u].call = n /\ d \in Ends(u)')
                                <=> (th[u].call = n /\ d \in Ends(u))
      BY <1>3, <2>0, <2>2
    <3>3. Holds(n, d)' <=> Holds(n, d)
      BY <3>2 DEF Holds
    <3>4. QED
      BY <2>0, <3>1, <3>3
  <2>3. QED
    BY <2>1, <2>2
<1>7. \A u \in Threads : AtPlace(u)' /\ OwnEnd(u)'
  <2>1. ASSUME NEW u \in Threads, u # t PROVE AtPlace(u)' /\ OwnEnd(u)'
    <3>1. AtPlace(u) /\ OwnEnd(u) /\ th'[u] = th[u] /\ th[u].own \in Fd
      BY <1>3, <2>1, Fields DEF PopenInv
    <3>2. th[u].pc \in {"lock", "fork", "undo", "close"} => fds'[th[u].own] = fds[th[u].own]
      BY <1>4, <2>1, <3>1 DEF Ends
    <3>3. QED
      BY <3>1, <3>2 DEF AtPlace, OwnEnd
  <2>2. QED
    BY <2>1
<1>8. NodesKept'
  BY <1>1 DEF PopenInv, NodesKept
<1>9. Inherited'
  <2>1. ASSUME NEW u \in Threads, th'[u].pc = "node" PROVE fds'[th'[u].parent].cloexec
    <3>1. u # t /\ th'[u] = th[u]
      BY <1>3, <2>1
    <3>2. th[u].parent \in Fd /\ th[u].parent \notin D
      BY <1>4, <2>1, <3>1, Fields DEF PopenInv, Ends
    <3>3. QED
      BY <2>1, <3>1, <3>2 DEF PopenInv, Inherited
  <2>2. ASSUME NEW n \in Call, NEW d \in Fd, Keeps(n, d) PROVE fds'[d].cloexec
    <3>1. d \notin D
      <4>1. SUFFICES ASSUME d \in D PROVE FALSE
        OBVIOUS
      <4>2. n = th[t].call
        BY <1>5, <2>2, <4>1, KeepsHolds
      <4>3. QED
        BY <2>2, <4>1, <4>2, EndsType, MineAlone
    <3>2. QED
      BY <2>2, <3>1 DEF PopenInv, Inherited
  <2>3. QED
    BY <1>1, <2>1, <2>2 DEF Inherited
<1>10. QED
  BY <1>2, <1>6, <1>7, <1>8, <1>9 DEF PopenInv

\* A thread with no descriptors and no node leaves its call.
LEMMA LeavingStep ==
  ASSUME PopenInv, NEW t \in Threads, Moved(t), Types', AtPlace(t)', Ends(t) = {},
         th[t].pc \notin Listing, th'[t].pc = "idle", th'[t].call = 0,
         UNCHANGED <<pid_list, fds, streams, calls>>
  PROVE  PopenInv'
<1>1. Ends(t)' = {} /\ OwnEnd(t)'
  BY DEF Ends, OwnEnd
<1>2. \A d \in Fd : fds'[d] = IF d \in {} THEN Closed ELSE fds[d]
  OBVIOUS
<1>3. th'[t].pc \notin Listing \cup {"node"}
  BY DEF Listing
<1>4. QED
  BY <1>1, <1>2, <1>3, ClosingStep

-----------------------------------------------------------------------------
(* The steps.                                                              *)

PopenPlaces == {"lock", "fork", "undo", "close", "fdopen", "cloexec", "node"}

\* What holds of a step with Goto that only takes locks or forks.
LEMMA QuietGoto ==
  ASSUME PopenInv, NEW t \in Threads, NEW p \in Places, Goto(t, p), AtPlace(t)',
         Ends(t)' = Ends(t), p \in Listing <=> th[t].pc \in Listing,
         p \in {"lock", "fork", "undo", "close"} => OwnEnd(t)
                    /\ th[t].pc \in {"lock", "fork", "undo", "close"},
         p # "node",
         popen_lock' \in Threads \cup {NoThread},
         malloc_lock' \in Threads \cup {NoThread},
         child' \in [Call -> Child], \A n \in Call : n > calls => child'[n] = NoChild,
         UNCHANGED <<pid_list, fds, streams, calls>>
  PROVE  PopenInv'
<1>1. /\ Moved(t) /\ th'[t].pc = p /\ th'[t].call = th[t].call
      /\ th'[t].mode = th[t].mode /\ th'[t].parent = th[t].parent
      /\ th'[t].own = th[t].own
  BY GotoMoves DEF PopenInv
<1>2. OwnEnd(t)'
  BY <1>1 DEF OwnEnd
<1>3. Types'
  BY <1>1 DEF PopenInv, Types, Moved
<1>4. QED
  BY <1>1, <1>2, <1>3, QuietStep

LEMMA LockStep ==
  ASSUME PopenInv, NEW t \in Threads, PopenLock(t) \/ PcloseLock(t)
  PROVE  PopenInv'
<1>1. PICK p \in Places : /\ Goto(t, p)
                          /\ \/ th[t].pc = "lock" /\ p = "fork"
                             \/ th[t].pc = "plock" /\ p = "find"
  BY DEF PopenLock, PcloseLock, At, Places
<1>2. UNCHANGED <<pid_list, malloc_lock, fds, child, streams, calls>> /\ popen_lock' = t
  BY DEF PopenLock, PcloseLock
<1>3. /\ th'[t].pc = p /\ th'[t].call = th[t].call /\ th'[t].mode = th[t].mode
      /\ th'[t].parent = th[t].parent /\ th'[t].own = th[t].own /\ th'[t].pid = th[t].pid
  BY <1>1, GotoMoves DEF PopenInv
<1>4. AtPlace(t)' /\ OwnEnd(t)
  BY <1>1, <1>3 DEF PopenInv, AtPlace
<1>5. Ends(t)' = Ends(t) /\ (p \in Listing <=> th[t].pc \in Listing)
  BY <1>1, <1>3 DEF Ends, Listing
<1>6. QED
  BY <1>1, <1>2, <1>4, <1>5, QuietGoto DEF PopenInv, Types

LEMMA CopyType ==
  ASSUME PopenInv, NEW t \in Threads, th[t].pc = "fork"
  PROVE  /\ Copy(t) \in Child /\ Copy(t).state = "forked"
         /\ Copy(t).mode = th[t].mode /\ Copy(t).fds = fds
         /\ Copy(t).target = (IF th[t].mode = "r" THEN 1 ELSE 0)
         /\ Copy(t).parent = th[t].parent /\ Copy(t).own = th[t].own
         /\ Copy(t).others = {pid_list[i].fd : i \in DOMAIN pid_list}
<1>1. \A i \in DOMAIN pid_list : pid_list[i].fd \in Fd
  <2>1. \A i \in DOMAIN pid_list : pid_list[i] \in Node
    BY DEF PopenInv, Types
  <2>2. QED
    BY <2>1 DEF Node
<1>2. th[t].mode \in {"r", "w"}
  BY DEF PopenInv, AtPlace
<1>3. {pid_list[i].fd : i \in DOMAIN pid_list} \in SUBSET Fd
  BY <1>1
<1>4. fds \in [Fd -> Descriptor] /\ th[t].parent \in Fd /\ th[t].own \in Fd
  BY Fields DEF PopenInv, Types
<1>5. QED
  BY <1>2, <1>3, <1>4 DEF Copy, NoChild, Child

LEMMA NoChildType == NoChild \in Child
<1>1. 0 \in Fd /\ \A d \in Fd : Closed \in Descriptor
  BY ClosedType DEF Fd
<1>2. QED
  BY <1>1 DEF NoChild, Child

LEMMA ForkStep ==
  ASSUME PopenInv, NEW t \in Threads, Fork(t) \/ ForkFails(t)
  PROVE  PopenInv'
<1>1. PICK p \in Places : Goto(t, p) /\ th[t].pc = "fork" /\ p \in {"close", "undo"}
  BY DEF Fork, ForkFails, At, Places
<1>2. UNCHANGED <<pid_list, malloc_lock, fds, streams, calls>>
      /\ popen_lock' \in Threads \cup {NoThread}
  BY DEF Fork, ForkFails, PopenInv, Types
<1>3. /\ th'[t].pc = p /\ th'[t].call = th[t].call /\ th'[t].mode = th[t].mode
      /\ th'[t].parent = th[t].parent /\ th'[t].own = th[t].own /\ th'[t].pid = th[t].pid
  BY <1>1, GotoMoves DEF PopenInv
<1>4. AtPlace(t)' /\ OwnEnd(t)
  BY <1>1, <1>3 DEF PopenInv, AtPlace
<1>5. Ends(t)' = Ends(t) /\ (p \in Listing <=> th[t].pc \in Listing)
  BY <1>1, <1>3 DEF Ends, Listing
<1>6. child' \in [Call -> Child] /\ \A n \in Call : n > calls => child'[n] = NoChild
  <2>1. th[t].call \in Call /\ th[t].call <= calls
    BY <1>1, EndsType, MineAlone DEF PopenInv, OneOwner, Ends
  <2>2. \A n \in Call : n > calls => n # th[t].call
    BY <2>1 DEF PopenInv, Types, Call
  <2>3. child \in [Call -> Child] /\ \A n \in Call : n > calls => child[n] = NoChild
    BY DEF PopenInv, Types
  <2>4. Copy(t) \in Child
    BY <1>1, CopyType
  <2>5. child' = child \/ child' = [child EXCEPT ![th[t].call] = Copy(t)]
    BY DEF Fork, ForkFails
  <2>6. QED
    BY <2>1, <2>2, <2>3, <2>4, <2>5
<1>7. QED
  BY <1>1, <1>2, <1>4, <1>5, <1>6, QuietGoto DEF PopenInv, Types

LEMMA FdopenStep ==
  ASSUME PopenInv, NEW t \in Threads, Fdopen(t)
  PROVE  PopenInv'
<1>1. Goto(t, "cloexec") /\ "cloexec" \in Places /\ th[t].pc = "fdopen"
  BY DEF Fdopen, At, Places
<1>2. UNCHANGED <<popen_lock, pid_list, malloc_lock, fds, child, streams, calls>>
  BY DEF Fdopen
<1>3. /\ th'[t].pc = "cloexec" /\ th'[t].call = th[t].call /\ th'[t].mode = th[t].mode
      /\ th'[t].parent = th[t].parent /\ th'[t].own = th[t].own /\ th'[t].pid = th[t].pid
  BY <1>1, GotoMoves DEF PopenInv
<1>4. AtPlace(t)' /\ OwnEnd(t)
  BY <1>1, <1>3 DEF PopenInv, AtPlace
<1>5. Ends(t)' = Ends(t) /\ ("cloexec" \in Listing <=> th[t].pc \in Listing)
  BY <1>1, <1>3 DEF Ends, Listing
<1>6. QED
  BY <1>1, <1>2, <1>4, <1>5, QuietGoto DEF PopenInv, Types

LEMMA HeapStep ==
  ASSUME PopenInv, NEW t \in Threads, Malloc(t) \/ MallocReturns(t)
  PROVE  PopenInv'
<1>1. PICK p \in Places : /\ Goto(t, p)
                          /\ \/ th[t].pc = "idle" /\ p = "malloc"
                             \/ th[t].pc = "malloc" /\ p = "idle"
  BY DEF Malloc, MallocReturns, At, Places
<1>2. UNCHANGED <<popen_lock, pid_list, fds, child, streams, calls>>
      /\ malloc_lock' \in Threads \cup {NoThread}
  BY DEF Malloc, MallocReturns
<1>3. /\ th'[t].pc = p /\ th'[t].call = th[t].call /\ th'[t].mode = th[t].mode
      /\ th'[t].parent = th[t].parent /\ th'[t].own = th[t].own /\ th'[t].pid = th[t].pid
  BY <1>1, GotoMoves DEF PopenInv
<1>4. AtPlace(t)' /\ OwnEnd(t)
  BY <1>1, <1>3 DEF PopenInv, AtPlace
<1>5. Ends(t)' = Ends(t) /\ (p \in Listing <=> th[t].pc \in Listing)
  BY <1>1, <1>3 DEF Ends, Listing
<1>6. QED
  BY <1>1, <1>2, <1>4, <1>5, QuietGoto DEF PopenInv, Types

\* pclose has the node of its own stream.
LEMMA PcloseUnlockStep ==
  ASSUME PopenInv, NEW t \in Threads, PcloseUnlock(t)
  PROVE  PopenInv' /\ th[t].pid # 0
<1>1. th[t].pc = "unlock" /\ AtPlace(t)
  BY DEF PcloseUnlock, At, PopenInv
<1>2. th[t].pid = th[t].call /\ th[t].pid # 0
  BY <1>1 DEF AtPlace
<1>3. Goto(t, "fclose") /\ "fclose" \in Places
  BY <1>2 DEF PcloseUnlock, Places
<1>4. UNCHANGED <<pid_list, malloc_lock, fds, child, streams, calls>>
      /\ popen_lock' \in Threads \cup {NoThread}
  BY DEF PcloseUnlock
<1>5. /\ th'[t].pc = "fclose" /\ th'[t].call = th[t].call /\ th'[t].mode = th[t].mode
      /\ th'[t].parent = th[t].parent /\ th'[t].own = th[t].own /\ th'[t].pid = th[t].pid
  BY <1>3, GotoMoves DEF PopenInv
<1>6. AtPlace(t)'
  BY <1>1, <1>5 DEF AtPlace
<1>7. Ends(t)' = Ends(t) /\ ("fclose" \in Listing <=> th[t].pc \in Listing)
  BY <1>1, <1>5 DEF Ends, Listing
<1>8. QED
  BY <1>2, <1>3, <1>4, <1>6, <1>7, QuietGoto DEF PopenInv, Types

\* The descriptor table when some are closed.
LEMMA ClosedTypes ==
  ASSUME PopenInv, NEW D, fds' \in [Fd -> Descriptor],
         \A d \in Fd : fds'[d] = IF d \in D THEN Closed ELSE fds[d]
  PROVE  \A d \in Fd : fds'[d].pipe = 0 <=> fds'[d].end \notin {"r", "w"}
BY ClosedType DEF PopenInv, Types

LEMMA UndoStep ==
  ASSUME PopenInv, NEW t \in Threads, Undo(t)
  PROVE  PopenInv'
<1>1. th[t].pc = "undo" /\ Done(t)
      /\ fds' = [fds EXCEPT ![th[t].parent] = Closed, ![th[t].own] = Closed]
      /\ UNCHANGED <<popen_lock, pid_list, malloc_lock, child, streams, calls>>
  BY DEF Undo, At
<1>2. Moved(t) /\ th'[t].pc = "idle" /\ th'[t].call = 0
  BY <1>1, DoneMoves DEF PopenInv
<1>3. Ends(t) = {th[t].parent, th[t].own} /\ Ends(t)' = {}
  BY <1>1, <1>2 DEF Ends
<1>4. th[t].parent \in Fd /\ th[t].own \in Fd
  BY Fields DEF PopenInv
<1>5. /\ fds' \in [Fd -> Descriptor]
      /\ \A d \in Fd : fds'[d] = IF d \in Ends(t) THEN Closed ELSE fds[d]
  <2>1. fds \in [Fd -> Descriptor]
    BY DEF PopenInv, Types
  <2>2. QED
    BY <1>1, <1>3, <1>4, <2>1, ClosedType
<1>6. Types'
  <2>1. \A d \in Fd : fds'[d].pipe = 0 <=> fds'[d].end \notin {"r", "w"}
    BY <1>5, ClosedTypes
  <2>2. QED
    BY <1>1, <1>2, <1>5, <2>1 DEF PopenInv, Types, Moved
<1>7. AtPlace(t)' /\ OwnEnd(t)'
  BY <1>1, <1>2, DoneMoves DEF AtPlace, OwnEnd, PopenInv
<1>8. th[t].pc \notin Listing /\ th'[t].pc \notin Listing \cup {"node"}
  BY <1>1, <1>2 DEF Listing
<1>9. QED
  BY <1>1, <1>2, <1>3, <1>5, <1>6, <1>7, <1>8, ClosingStep

LEMMA CloseTypes ==
  ASSUME PopenInv, NEW x \in Fd, Close(x)
  PROVE  /\ fds' \in [Fd -> Descriptor]
         /\ \A d \in Fd : fds'[d] = IF d \in {x} THEN Closed ELSE fds[d]
         /\ \A d \in Fd : fds'[d].pipe = 0 <=> fds'[d].end \notin {"r", "w"}
<1>1. fds \in [Fd -> Descriptor] /\ fds' = [fds EXCEPT ![x] = Closed]
  BY DEF PopenInv, Types, Close
<1>2. /\ fds' \in [Fd -> Descriptor]
      /\ \A d \in Fd : fds'[d] = IF d \in {x} THEN Closed ELSE fds[d]
  BY <1>1, ClosedType
<1>3. QED
  BY <1>2, ClosedTypes

LEMMA CloseOwnStep ==
  ASSUME PopenInv, NEW t \in Threads, CloseOwn(t)
  PROVE  PopenInv'
<1>1. th[t].pc = "close" /\ Goto(t, "fdopen") /\ "fdopen" \in Places /\ Close(th[t].own)
      /\ UNCHANGED <<popen_lock, pid_list, malloc_lock, child, streams, calls>>
  BY DEF CloseOwn, At, Places
<1>2. /\ Moved(t) /\ th'[t].pc = "fdopen"
      /\ th'[t].call = th[t].call /\ th'[t].mode = th[t].mode
      /\ th'[t].parent = th[t].parent /\ th'[t].own = th[t].own /\ th'[t].pid = th[t].pid
  BY <1>1, GotoMoves DEF PopenInv
<1>3. th[t].parent # th[t].own
  BY <1>1 DEF PopenInv, OwnEnd
<1>4. Ends(t) = {th[t].parent, th[t].own} /\ Ends(t)' = {th[t].parent}
  BY <1>1, <1>2 DEF Ends
<1>5. th[t].own \in Fd
  BY Fields DEF PopenInv
<1>6. /\ fds' \in [Fd -> Descriptor]
      /\ \A d \in Fd : fds'[d] = IF d \in {th[t].own} THEN Closed ELSE fds[d]
      /\ \A d \in Fd : fds'[d].pipe = 0 <=> fds'[d].end \notin {"r", "w"}
  BY <1>1, <1>5, CloseTypes
<1>7. Types'
  BY <1>1, <1>2, <1>6 DEF PopenInv, Types, Moved
<1>8. AtPlace(t)' /\ OwnEnd(t)'
  BY <1>1, <1>2 DEF AtPlace, OwnEnd, PopenInv
<1>9. th[t].pc \notin Listing /\ th'[t].pc \notin Listing \cup {"node"}
  BY <1>1, <1>2 DEF Listing
<1>10. PICK D : D = {th[t].own}
  OBVIOUS
<1>11. D \subseteq Ends(t) /\ Ends(t)' = Ends(t) \ D
  BY <1>3, <1>4, <1>10
<1>12. \A d \in Fd : fds'[d] = IF d \in D THEN Closed ELSE fds[d]
  BY <1>6, <1>10
<1>13. QED
  BY <1>1, <1>2, <1>7, <1>8, <1>9, <1>11, <1>12, ClosingStep

LEMMA CloseParentStep ==
  ASSUME PopenInv, NEW t \in Threads, FdopenFails(t) \/ NewNodeFails(t) \/ Fclose(t)
  PROVE  PopenInv'
<1>1. /\ Close(th[t].parent)
      /\ UNCHANGED <<popen_lock, pid_list, malloc_lock, child, streams, calls>>
  BY DEF FdopenFails, NewNodeFails, Fclose
<1>2. \/ th[t].pc = "fdopen" /\ Done(t)
      \/ th[t].pc = "node" /\ Goto(t, "failed") /\ "failed" \in Places
      \/ th[t].pc = "fclose" /\ Goto(t, "wait") /\ "wait" \in Places
  BY DEF FdopenFails, NewNodeFails, Fclose, At, Places
<1>3. /\ Moved(t) /\ AtPlace(t)'
      /\ \/ th'[t].pc = "idle" /\ th'[t].call = 0
         \/ th'[t].pc \in {"failed", "wait"} /\ th'[t].call = th[t].call
  <2>1. AtPlace(t) /\ Types
    BY DEF PopenInv
  <2>2. CASE th[t].pc = "fdopen" /\ Done(t)
    BY <2>1, <2>2, DoneMoves DEF AtPlace
  <2>3. CASE th[t].pc = "node" /\ Goto(t, "failed") /\ "failed" \in Places
    BY <2>1, <2>3, GotoMoves DEF AtPlace
  <2>4. CASE th[t].pc = "fclose" /\ Goto(t, "wait") /\ "wait" \in Places
    BY <2>1, <2>4, GotoMoves DEF AtPlace
  <2>5. QED
    BY <1>2, <2>2, <2>3, <2>4
<1>4. Ends(t) = {th[t].parent} /\ Ends(t)' = {}
  BY <1>2, <1>3 DEF Ends
<1>5. th[t].parent \in Fd
  BY Fields DEF PopenInv
<1>6. /\ fds' \in [Fd -> Descriptor]
      /\ \A d \in Fd : fds'[d] = IF d \in {th[t].parent} THEN Closed ELSE fds[d]
      /\ \A d \in Fd : fds'[d].pipe = 0 <=> fds'[d].end \notin {"r", "w"}
  BY <1>1, <1>5, CloseTypes
<1>7. Types'
  BY <1>1, <1>3, <1>6 DEF PopenInv, Types, Moved
<1>8. OwnEnd(t)'
  BY <1>3 DEF OwnEnd
<1>9. th[t].pc \notin Listing /\ th'[t].pc \notin Listing \cup {"node"}
  BY <1>2, <1>3 DEF Listing
<1>10. QED
  BY <1>1, <1>3, <1>4, <1>6, <1>7, <1>8, <1>9, ClosingStep

LEMMA LeaveStep ==
  ASSUME PopenInv, NEW t \in Threads, Reaped(t) \/ Interrupted(t)
  PROVE  PopenInv'
<1>1. th[t].pc = "wait" /\ Done(t)
      /\ UNCHANGED <<popen_lock, pid_list, malloc_lock, fds, streams, calls>>
  BY DEF Reaped, Interrupted, At
<1>2. Moved(t) /\ th'[t].pc = "idle" /\ th'[t].call = 0
  BY <1>1, DoneMoves DEF PopenInv
<1>3. Ends(t) = {} /\ th[t].pc \notin Listing
  BY <1>1 DEF Ends, Listing
<1>4. child' \in [Call -> Child] /\ \A n \in Call : n > calls => child'[n] = NoChild
  <2>1. child \in [Call -> Child] /\ \A n \in Call : n > calls => child[n] = NoChild
    BY DEF PopenInv, Types
  <2>2. CASE Reaped(t)
    <3>1. PICK m : m = th[t].pid
      OBVIOUS
    <3>2. m \in Call /\ m <= calls
      <4>1. m = th[t].call /\ th[t].call # 0
        BY <1>1, <3>1, EndsType DEF PopenInv, AtPlace
      <4>2. m \in Call
        BY <3>1, <4>1, Fields DEF PopenInv, Call
      <4>3. QED
        BY <4>1, <4>2 DEF PopenInv, OneOwner
    <3>3. child' = [child EXCEPT ![m] = [child[m] EXCEPT !.state = "reaped"]]
      BY <2>2, <3>1 DEF Reaped
    <3>4. child[m] \in Child
      BY <2>1, <3>2
    <3>5. [child[m] EXCEPT !.state = "reaped"] \in Child
      BY <3>4 DEF Child
    <3>6. \A n \in Call : n > calls => n # m
      BY <3>2 DEF PopenInv, Types, Call
    <3>7. QED
      BY <2>1, <3>2, <3>3, <3>5, <3>6
  <2>3. CASE Interrupted(t)
    BY <2>1, <2>3 DEF Interrupted
  <2>4. QED
    BY <2>2, <2>3
<1>5. Types'
  BY <1>1, <1>2, <1>4 DEF PopenInv, Types, Moved
<1>6. AtPlace(t)'
  BY <1>1, <1>2, DoneMoves DEF AtPlace, PopenInv
<1>7. QED
  BY <1>1, <1>2, <1>3, <1>5, <1>6, LeavingStep

LEMMA SetCloexecStep ==
  ASSUME PopenInv, NEW t \in Threads, SetCloexec(t)
  PROVE  PopenInv'
<1>1. /\ th[t].pc = "cloexec" /\ Goto(t, "node") /\ "node" \in Places
      /\ fds' = [fds EXCEPT ![th[t].parent].cloexec = TRUE]
      /\ UNCHANGED <<popen_lock, pid_list, malloc_lock, child, streams, calls>>
  BY DEF SetCloexec, At, Places
<1>2. /\ Moved(t) /\ th'[t].pc = "node"
      /\ th'[t].call = th[t].call /\ th'[t].mode = th[t].mode
      /\ th'[t].parent = th[t].parent /\ th'[t].own = th[t].own /\ th'[t].pid = th[t].pid
  BY <1>1, GotoMoves DEF PopenInv
<1>3. PICK p \in Fd : p = th[t].parent
  BY Fields DEF PopenInv
<1>4. /\ fds' \in [Fd -> Descriptor]
      /\ \A d \in Fd : /\ fds'[d].pipe = fds[d].pipe /\ fds'[d].end = fds[d].end
                       /\ d # p => fds'[d] = fds[d]
      /\ fds'[p].cloexec
  <2>1. fds \in [Fd -> Descriptor] /\ fds[p] \in Descriptor
    BY DEF PopenInv, Types
  <2>2. PICK e : e = [fds[p] EXCEPT !.cloexec = TRUE]
    OBVIOUS
  <2>3. e \in Descriptor /\ e.pipe = fds[p].pipe /\ e.end = fds[p].end /\ e.cloexec
    BY <2>1, <2>2 DEF Descriptor
  <2>4. fds' = [fds EXCEPT ![p] = e]
    BY <1>1, <1>3, <2>2
  <2>5. QED
    BY <2>1, <2>3, <2>4
<1>5. Ends(t) = {p} /\ Ends(t)' = {p}
  BY <1>1, <1>2, <1>3 DEF Ends
<1>6. \A n, d : Holds(n, d)' <=> Holds(n, d)
  BY <1>1, <1>2, <1>5, HoldsKept
<1>7. \A n, d : Keeps(n, d)' <=> Keeps(n, d)
  BY <1>1, <1>2, KeepsKept DEF Listing
<1>8. Types'
  BY <1>1, <1>2, <1>4 DEF PopenInv, Types, Moved
<1>9. OneOwner'
  BY <1>1, <1>2, OneOwnerKept
<1>10. EndsHeld'
  BY <1>4, <1>6 DEF PopenInv, EndsHeld
<1>11. ASSUME NEW u \in Threads PROVE AtPlace(u)' /\ OwnEnd(u)'
  <2>1. CASE u = t
    BY <1>1, <1>2, <2>1 DEF PopenInv, AtPlace, OwnEnd
  <2>2. CASE u # t
    <3>1. AtPlace(u) /\ OwnEnd(u) /\ th'[u] = th[u] /\ th[u].own \in Fd
      BY <1>2, <2>2, Fields DEF PopenInv, Moved
    <3>2. p \notin Ends(u)
      BY <1>5, <2>2, OtherEnds
    <3>3. th[u].pc \in {"lock", "fork", "undo", "close"} => fds'[th[u].own] = fds[th[u].own]
      BY <1>4, <3>1, <3>2 DEF Ends
    <3>4. QED
      BY <3>1, <3>3 DEF AtPlace, OwnEnd
  <2>3. QED
    BY <2>1, <2>2
<1>12. NodesKept'
  BY <1>1, <1>7 DEF PopenInv, NodesKept
<1>13. Inherited'
  <2>1. \A d \in Fd : fds[d].cloexec => fds'[d].cloexec
    BY <1>4
  <2>2. ASSUME NEW u \in Threads, th'[u].pc = "node" PROVE fds'[th'[u].parent].cloexec
    <3>1. CASE u = t
      BY <1>2, <1>3, <1>4, <3>1
    <3>2. CASE u # t
      BY <1>2, <2>1, <2>2, <3>2, Fields DEF PopenInv, Moved, Inherited
    <3>3. QED
      BY <3>1, <3>2
  <2>3. QED
    BY <1>7, <2>1, <2>2 DEF PopenInv, Inherited
<1>14. QED
  BY <1>8, <1>9, <1>10, <1>11, <1>12, <1>13 DEF PopenInv

LEMMA NewNodeStep ==
  ASSUME PopenInv, NEW t \in Threads, NewNode(t)
  PROVE  PopenInv'
<1>1. /\ th[t].pc = "node" /\ Goto(t, "opened") /\ "opened" \in Places
      /\ pid_list' = <<[fd |-> th[t].parent, pid |-> th[t].call]>> \o pid_list
      /\ UNCHANGED <<popen_lock, malloc_lock, fds, child, streams, calls>>
  BY DEF NewNode, At, Places
<1>2. /\ Moved(t) /\ th'[t].pc = "opened"
      /\ th'[t].call = th[t].call /\ th'[t].mode = th[t].mode
      /\ th'[t].parent = th[t].parent /\ th'[t].own = th[t].own /\ th'[t].pid = th[t].pid
  BY <1>1, GotoMoves DEF PopenInv
<1>3. PICK p \in Fd, c \in Call : p = th[t].parent /\ c = th[t].call /\ th[t].call # 0
  BY <1>1, Fields, EndsType, MineAlone DEF PopenInv
<1>4. PICK node : node = [fd |-> p, pid |-> c]
  OBVIOUS
<1>5. node \in Node /\ node.fd = p /\ node.pid = c
  BY <1>4 DEF Node
<1>6. PICK k \in Nat : k = Len(pid_list) /\ pid_list \in Seq(Node)
  BY DEF PopenInv, Types
<1>7. /\ pid_list' \in Seq(Node) /\ Len(pid_list') = k + 1 /\ pid_list'[1] = node
      /\ \A i \in 1 .. k : pid_list'[i + 1] = pid_list[i]
  BY <1>1, <1>3, <1>4, <1>5, <1>6
<1>8. \A i \in 1 .. k + 1 : i = 1 \/ \E j \in 1 .. k : i = j + 1
  <2>1. TAKE i \in 1 .. k + 1
  <2>2. i # 1 => i - 1 \in 1 .. k /\ i = (i - 1) + 1
    OBVIOUS
  <2>3. QED
    BY <2>2
<1>9. \A n \in Call, d \in Fd :
        (\E i \in 1 .. k + 1 : pid_list'[i] = [fd |-> d, pid |-> n])
          <=> \/ n = c /\ d = p
              \/ \E i \in 1 .. k : pid_list[i] = [fd |-> d, pid |-> n]
  <2>1. SUFFICES ASSUME NEW n \in Call, NEW d \in Fd
                 PROVE  (\E i \in 1 .. k + 1 : pid_list'[i] = [fd |-> d, pid |-> n])
                          <=> \/ n = c /\ d = p
                              \/ \E i \in 1 .. k : pid_list[i] = [fd |-> d, pid |-> n]
    OBVIOUS
  <2>2. node = [fd |-> d, pid |-> n] <=> n = c /\ d = p
    BY <1>4
  <2>3. 1 \in 1 .. k + 1 /\ \A i \in 1 .. k : i + 1 \in 1 .. k + 1
    OBVIOUS
  <2>4. (\E i \in 1 .. k + 1 : pid_list'[i] = [fd |-> d, pid |-> n])
          => \/ n = c /\ d = p
             \/ \E i \in 1 .. k : pid_list[i] = [fd |-> d, pid |-> n]
    <3>1. SUFFICES ASSUME NEW i \in 1 .. k + 1, pid_list'[i] = [fd |-> d, pid |-> n],
                          ~(n = c /\ d = p)
                   PROVE  \E j \in 1 .. k : pid_list[j] = [fd |-> d, pid |-> n]
      OBVIOUS
    <3>2. i # 1
      BY <1>7, <2>2, <3>1
    <3>3. PICK j \in 1 .. k : i = j + 1
      BY <1>8, <3>2
    <3>4. pid_list[j] = pid_list'[i]
      BY <1>7, <3>3
    <3>5. QED
      BY <3>1, <3>4
  <2>5. n = c /\ d = p => \E i \in 1 .. k + 1 : pid_list'[i] = [fd |-> d, pid |-> n]
    BY <1>7, <2>2, <2>3
  <2>6. (\E i \in 1 .. k : pid_list[i] = [fd |-> d, pid |-> n])
          => \E i \in 1 .. k + 1 : pid_list'[i] = [fd |-> d, pid |-> n]
    BY <1>7, <2>3
  <2>7. QED
    BY <2>4, <2>5, <2>6
<1>10. ASSUME NEW n \in Call, NEW d \in Fd
      PROVE  Keeps(n, d)' <=> Keeps(n, d) \/ (n = c /\ d = p)
  <2>1. \A u \in Threads : u # t => th'[u] = th[u]
    BY <1>2 DEF Moved
  <2>2. QED
    BY <1>1, <1>2, <1>3, <2>1 DEF Keeps
<1>11. \A i \in 1 .. k : pid_list[i].pid # c
  <2>1. SUFFICES ASSUME NEW i \in 1 .. k, pid_list[i].pid = c PROVE FALSE
    OBVIOUS
  <2>2. pid_list[i] \in Node
    BY <1>6
  <2>3. PICK d \in Fd : pid_list[i] = [fd |-> d, pid |-> c]
    BY <2>1, <2>2 DEF Node
  <2>4. Keeps(c, d)
    BY <1>6, <2>3 DEF PopenInv, NodesKept
  <2>5. th[t].pc \in Listing
    BY <1>3, <2>4, MineAlone
  <2>6. QED
    BY <1>1, <2>5 DEF Listing
<1>12. NodesKept'
  <2>1. \A n \in Call, d \in Fd :
          Keeps(n, d)' <=> \E i \in 1 .. k + 1 : pid_list'[i] = [fd |-> d, pid |-> n]
    BY <1>6, <1>9, <1>10 DEF PopenInv, NodesKept
  <2>2. ASSUME NEW i \in 1 .. k + 1, NEW j \in 1 .. k + 1, pid_list'[i].pid = pid_list'[j].pid
        PROVE  i = j
    <3>1. \A x, y \in 1 .. k : pid_list[x].pid = pid_list[y].pid => x = y
      BY <1>6 DEF PopenInv, NodesKept
    <3>2. CASE i = 1 /\ j = 1
      BY <3>2
    <3>3. CASE i = 1 /\ j # 1
      BY <1>5, <1>7, <1>8, <1>11, <2>2, <3>3
    <3>4. CASE i # 1 /\ j = 1
      BY <1>5, <1>7, <1>8, <1>11, <2>2, <3>4, SMTT(20)
    <3>5. CASE i # 1 /\ j # 1
      <4>1. PICK x \in 1 .. k, y \in 1 .. k : i = x + 1 /\ j = y + 1
        BY <1>8, <3>5
      <4>2. QED
        BY <1>7, <2>2, <3>1, <4>1
    <3>6. QED
      BY <3>2, <3>3, <3>4, <3>5
  <2>3. \A i, j \in 1 .. k + 1 : pid_list'[i].pid = pid_list'[j].pid => i = j
    BY <2>2
  <2>4. Len(pid_list') = k + 1
    BY <1>7
  <2>5. QED
    BY <2>1, <2>3, <2>4 DEF NodesKept
<1>13. Ends(t)' = Ends(t)
  BY <1>1, <1>2 DEF Ends
<1>14. EndsHeld'
  BY <1>1, <1>2, <1>13, HoldsKept DEF PopenInv, EndsHeld
<1>15. Types'
  BY <1>1, <1>2, <1>7 DEF PopenInv, Types, Moved
<1>16. OneOwner'
  BY <1>1, <1>2, OneOwnerKept
<1>17. ASSUME NEW u \in Threads PROVE AtPlace(u)' /\ OwnEnd(u)'
  BY <1>1, <1>2 DEF PopenInv, AtPlace, OwnEnd, Moved
<1>18. Inherited'
  <2>1. fds[p].cloexec
    BY <1>1, <1>3 DEF PopenInv, Inherited
  <2>2. \A u \in Threads : th'[u].pc = "node" => fds[th'[u].parent].cloexec
    BY <1>2 DEF PopenInv, Inherited, Moved
  <2>3. QED
    BY <1>1, <1>10, <2>1, <2>2 DEF PopenInv, Inherited
<1>19. QED
  BY <1>12, <1>14, <1>15, <1>16, <1>17, <1>18 DEF PopenInv

\* A call changes its owner, from a thread to the stream it returns or back.
LEMMA HandedOver ==
  ASSUME PopenInv, NEW t \in Threads, Moved(t), Types', AtPlace(t)',
         th'[t].pc \in {"idle", "plock"}, OneOwner',
         \A n \in Call, d \in Fd : (Holds(n, d)' <=> Holds(n, d))
                                   /\ (Keeps(n, d)' <=> Keeps(n, d)),
         UNCHANGED <<pid_list, fds, calls>>
  PROVE  PopenInv'
<1>1. ASSUME NEW u \in Threads PROVE AtPlace(u)' /\ OwnEnd(u)'
  BY DEF PopenInv, AtPlace, OwnEnd, Moved
<1>2. EndsHeld' /\ NodesKept'
  BY DEF PopenInv, EndsHeld, NodesKept
<1>3. Inherited'
  BY DEF PopenInv, Inherited, Moved
<1>4. QED
  BY <1>1, <1>2, <1>3 DEF PopenInv

LEMMA PopenReturnsStep ==
  ASSUME PopenInv, NEW t \in Threads, PopenReturns(t)
  PROVE  PopenInv'
<1>1. /\ th[t].pc \in {"opened", "failed"} /\ popen_lock' = NoThread /\ Done(t)
      /\ UNCHANGED <<pid_list, malloc_lock, fds, child, calls>>
  BY DEF PopenReturns
<1>2. Moved(t) /\ th'[t].pc = "idle" /\ th'[t].call = 0 /\ th'[t].pid = 0
  BY <1>1, DoneMoves DEF PopenInv
<1>3. AtPlace(t)'
  BY <1>2 DEF AtPlace
<1>4. CASE th[t].pc = "failed"
  <2>1. streams' = streams
    BY <1>4 DEF PopenReturns, At
  <2>2. Ends(t) = {} /\ th[t].pc \notin Listing
    BY <1>4 DEF Ends, Listing
  <2>3. Types'
    BY <1>1, <1>2, <2>1 DEF PopenInv, Types, Moved
  <2>4. QED
    BY <1>1, <1>2, <1>3, <2>1, <2>2, <2>3, LeavingStep
<1>5. CASE th[t].pc = "opened"
  <2>1. PICK p \in Fd, c \in Call : p = th[t].parent /\ c = th[t].call /\ th[t].call # 0
    BY <1>5, Fields, EndsType, MineAlone DEF PopenInv
  <2>2. streams' = streams \cup {[fd |-> p, call |-> c]}
    BY <1>5, <2>1 DEF PopenReturns, At
  <2>3. Types'
    <3>1. [fd |-> p, call |-> c] \in [fd : Fd, call : Call]
      OBVIOUS
    <3>2. QED
      BY <1>1, <1>2, <2>2, <3>1 DEF PopenInv, Types, Moved
  <2>4. Ends(t) = {p} /\ Ends(t)' = {}
    BY <1>2, <1>5, <2>1 DEF Ends
  <2>5. \A u \in Threads : u # t => th'[u] = th[u] /\ Ends(u)' = Ends(u)
    BY <1>2 DEF Moved, Ends
  <2>6. ASSUME NEW n \in Call, NEW d \in Fd
        PROVE  (Holds(n, d)' <=> Holds(n, d)) /\ (Keeps(n, d)' <=> Keeps(n, d))
    <3>1. [fd |-> d, call |-> n] \in streams' <=>
            [fd |-> d, call |-> n] \in streams \/ (n = c /\ d = p)
      BY <2>2
    <3>2. n # 0
      BY DEF Call
    <3>3. Holds(n, d)' <=> Holds(n, d)
      BY <1>2, <2>1, <2>4, <2>5, <3>1, <3>2 DEF Holds
    <3>4. Keeps(n, d)' <=> Keeps(n, d)
      BY <1>2, <1>5, <2>1, <2>5, <3>1, <3>2 DEF Keeps
    <3>5. QED
      BY <3>3, <3>4
  <2>7. OneOwner'
    <3>1. \A u, v \in Threads : th'[u].call # 0 /\ th'[u].call = th'[v].call => u = v
      BY <1>2, <2>5 DEF PopenInv, OneOwner
    <3>2. ASSUME NEW u \in Threads, NEW s \in streams' PROVE th'[u].call # s.call
      <4>1. s \in streams \/ s.call = c
        BY <2>2
      <4>2. s.call # 0
        BY <2>1, <4>1 DEF PopenInv, Types, Call
      <4>3. QED
        BY <1>2, <2>1, <2>5, <4>1, <4>2 DEF PopenInv, OneOwner
    <3>3. \A r, s \in streams' : r.call = s.call => r = s
      BY <2>1, <2>2 DEF PopenInv, OneOwner
    <3>4. \A u \in Threads : th'[u].call <= calls
      BY <1>2, <2>5 DEF PopenInv, OneOwner, Types
    <3>5. \A s \in streams' : s.call <= calls
      BY <2>1, <2>2 DEF PopenInv, OneOwner
    <3>6. QED
      BY <1>1, <3>1, <3>2, <3>3, <3>4, <3>5 DEF OneOwner
  <2>8. QED
    BY <1>1, <1>2, <1>3, <2>3, <2>6, <2>7, HandedOver
<1>6. QED
  BY <1>1, <1>4, <1>5

LEMMA PcloseStartMoves ==
  ASSUME PopenInv, NEW t \in Threads, PcloseStart(t)
  PROVE  \E s \in streams :
           /\ th[t].pc = "idle" /\ th[t].call = 0 /\ streams' = streams \ {s}
           /\ UNCHANGED <<popen_lock, pid_list, malloc_lock, fds, child, calls>>
           /\ s.fd \in Fd /\ s.call \in Call /\ s.call # 0
           /\ \A d, n : [fd |-> d, call |-> n] = s <=> d = s.fd /\ n = s.call
           /\ Moved(t) /\ th'[t].pc = "plock" /\ th'[t].mode = "pclose" /\ th'[t].pid = 0
           /\ th'[t].parent = s.fd /\ th'[t].call = s.call
<1>1. PICK s \in streams :
        /\ th[t].pc = "idle" /\ streams' = streams \ {s}
        /\ th' = [th EXCEPT ![t] = [Resting EXCEPT !.pc = "plock", !.mode = "pclose",
                                                   !.parent = s.fd, !.call = s.call]]
        /\ UNCHANGED <<popen_lock, pid_list, malloc_lock, fds, child, calls>>
  BY DEF PcloseStart, At
<1>2. /\ s.fd \in Fd /\ s.call \in Call /\ s.call # 0
      /\ \A d, n : [fd |-> d, call |-> n] = s <=> d = s.fd /\ n = s.call
  <2>1. s \in [fd : Fd, call : Call]
    BY DEF PopenInv, Types
  <2>2. QED
    BY <2>1 DEF Call
<1>3. /\ Moved(t) /\ th'[t].pc = "plock" /\ th'[t].mode = "pclose" /\ th'[t].pid = 0
      /\ th'[t].parent = s.fd /\ th'[t].call = s.call
  <2>1. PICK r : r = [Resting EXCEPT !.pc = "plock", !.mode = "pclose",
                                     !.parent = s.fd, !.call = s.call]
    OBVIOUS
  <2>2. /\ r \in Local /\ r.pc = "plock" /\ r.mode = "pclose" /\ r.pid = 0
        /\ r.parent = s.fd /\ r.call = s.call
    <3>1. 0 \in Fd /\ s.call \in 0 .. MaxCalls /\ 0 \in 0 .. MaxCalls
      BY <1>2 DEF Fd, Call
    <3>2. r = [pc |-> "plock", call |-> s.call, mode |-> "pclose",
               parent |-> s.fd, own |-> 0, pid |-> 0]
      BY <2>1 DEF Resting
    <3>3. QED
      BY <1>2, <3>1, <3>2 DEF Local, Places
  <2>3. QED
    BY <1>1, <2>1, <2>2, SetMoves, ZenonT(30) DEF PopenInv
<1>4. th[t].call = 0
  BY <1>1 DEF PopenInv, AtPlace
<1>5. QED
  BY <1>1, <1>2, <1>3, <1>4

LEMMA PcloseStartStep ==
  ASSUME PopenInv, NEW t \in Threads, PcloseStart(t)
  PROVE  PopenInv'
<1>1. PICK s \in streams :
        /\ th[t].pc = "idle" /\ th[t].call = 0 /\ streams' = streams \ {s}
        /\ UNCHANGED <<popen_lock, pid_list, malloc_lock, fds, child, calls>>
        /\ s.fd \in Fd /\ s.call \in Call /\ s.call # 0
        /\ \A d, n : [fd |-> d, call |-> n] = s <=> d = s.fd /\ n = s.call
        /\ Moved(t) /\ th'[t].pc = "plock" /\ th'[t].mode = "pclose" /\ th'[t].pid = 0
        /\ th'[t].parent = s.fd /\ th'[t].call = s.call
  BY PcloseStartMoves
<1>2. /\ s.fd \in Fd /\ s.call \in Call /\ s.call # 0
      /\ \A d, n : [fd |-> d, call |-> n] = s <=> d = s.fd /\ n = s.call
  BY <1>1
<1>3. /\ Moved(t) /\ th'[t].pc = "plock" /\ th'[t].mode = "pclose" /\ th'[t].pid = 0
      /\ th'[t].parent = s.fd /\ th'[t].call = s.call
  BY <1>1
<1>4. th[t].call = 0
  BY <1>1
<1>5. AtPlace(t)'
  BY <1>2, <1>3 DEF AtPlace
<1>6. Types'
  BY <1>1, <1>3 DEF PopenInv, Types, Moved
<1>7. Ends(t) = {} /\ Ends(t)' = {s.fd}
  BY <1>1, <1>3 DEF Ends
<1>8. \A u \in Threads : u # t => th'[u] = th[u] /\ Ends(u)' = Ends(u)
  BY <1>3 DEF Moved, Ends
<1>9. ASSUME NEW n \in Call, NEW d \in Fd
      PROVE  (Holds(n, d)' <=> Holds(n, d)) /\ (Keeps(n, d)' <=> Keeps(n, d))
  <2>1. [fd |-> d, call |-> n] \in streams <=>
          [fd |-> d, call |-> n] \in streams' \/ (n = s.call /\ d = s.fd)
    BY <1>1, <1>2
  <2>2. Holds(n, d)' <=> Holds(n, d)
    BY <1>3, <1>7, <1>8, <2>1 DEF Holds
  <2>3. Keeps(n, d)' <=> Keeps(n, d)
    BY <1>1, <1>3, <1>8, <2>1 DEF Keeps
  <2>4. QED
    BY <2>2, <2>3
<1>10. OneOwner'
  <2>1. \A u \in Threads : u # t => th[u].call # s.call
    BY DEF PopenInv, OneOwner
  <2>2. \A u, v \in Threads : th'[u].call # 0 /\ th'[u].call = th'[v].call => u = v
    BY <1>3, <1>8, <2>1 DEF PopenInv, OneOwner
  <2>3. \A u \in Threads, r \in streams' : th'[u].call # r.call
    BY <1>1, <1>3, <1>8 DEF PopenInv, OneOwner
  <2>4. \A u \in Threads : th'[u].call <= calls
    BY <1>3, <1>8 DEF PopenInv, OneOwner
  <2>5. QED
    BY <1>1, <2>2, <2>3, <2>4 DEF PopenInv, OneOwner
<1>11. QED
  BY <1>1, <1>3, <1>5, <1>6, <1>9, <1>10, HandedOver

LEMMA RemoveAtProperties ==
  ASSUME NEW S, NEW s \in Seq(S), NEW i \in 1 .. Len(s)
  PROVE  /\ RemoveAt(s, i) \in Seq(S)
         /\ Len(RemoveAt(s, i)) = Len(s) - 1
         /\ \A k \in 1 .. Len(s) - 1 :
              RemoveAt(s, i)[k] = IF k < i THEN s[k] ELSE s[k + 1]
<1>1. PICK n \in Nat : n = Len(s)
  OBVIOUS
<1>2. PICK a, b : a = SubSeq(s, 1, i - 1) /\ b = SubSeq(s, i + 1, n)
  OBVIOUS
<1>3. a \in Seq(S) /\ Len(a) = i - 1 /\ \A k \in 1 .. i - 1 : a[k] = s[k]
  BY <1>1, <1>2
<1>4. b \in Seq(S) /\ Len(b) = n - i /\ \A k \in 1 .. n - i : b[k] = s[i + k]
  BY <1>1, <1>2
<1>5. RemoveAt(s, i) = a \o b
  BY <1>1, <1>2 DEF RemoveAt
<1>6. a \o b \in Seq(S) /\ Len(a \o b) = n - 1
  BY <1>1, <1>3, <1>4
<1>7. \A k \in 1 .. n - 1 : (a \o b)[k] = IF k < i THEN s[k] ELSE s[k + 1]
  <2>1. TAKE k \in 1 .. n - 1
  <2>2. CASE k < i
    BY <1>1, <1>3, <1>4, <2>2
  <2>3. CASE ~(k < i)
    <3>1. k - (i - 1) \in 1 .. n - i /\ i + (k - (i - 1)) = k + 1
      BY <1>1, <2>3
    <3>2. (a \o b)[k] = b[k - (i - 1)]
      BY <1>1, <1>3, <1>4, <2>3
    <3>3. QED
      BY <1>4, <2>3, <3>1, <3>2
  <2>4. QED
    BY <2>2, <2>3
<1>8. QED
  BY <1>1, <1>5, <1>6, <1>7

\* The node that pclose finds by the descriptor is that of its stream.
LEMMA OwnNode ==
  ASSUME PopenInv, NEW t \in Threads, th[t].pc = "find"
  PROVE  /\ Found(th[t].parent) # {}
         /\ Found(th[t].parent) \subseteq 1 .. Len(pid_list)
         /\ \A i \in Found(th[t].parent) :
              pid_list[i] = [fd |-> th[t].parent, pid |-> th[t].call]
<1>1. PICK p \in Fd, c \in Call : p = th[t].parent /\ c = th[t].call /\ th[t].call # 0
  BY Fields, EndsType, MineAlone DEF PopenInv
<1>2. Keeps(c, p)
  BY <1>1, MineAlone DEF Listing
<1>3. PICK i \in 1 .. Len(pid_list) : pid_list[i] = [fd |-> p, pid |-> c]
  BY <1>1, <1>2 DEF PopenInv, NodesKept
<1>4. DOMAIN pid_list = 1 .. Len(pid_list)
  BY DEF PopenInv, Types
<1>5. i \in Found(p)
  BY <1>3, <1>4 DEF Found
<1>6. ASSUME NEW j \in Found(p) PROVE pid_list[j] = [fd |-> p, pid |-> c]
  <2>1. j \in 1 .. Len(pid_list) /\ pid_list[j].fd = p
    BY <1>4 DEF Found
  <2>2. pid_list[j] \in Node
    BY <2>1 DEF PopenInv, Types
  <2>3. PICK m \in Call : pid_list[j] = [fd |-> p, pid |-> m]
    BY <2>1, <2>2 DEF Node
  <2>4. Keeps(m, p)
    BY <2>1, <2>3 DEF PopenInv, NodesKept
  <2>5. Holds(m, p) /\ Holds(c, p)
    BY <1>2, <2>4, KeepsHolds
  <2>6. m = c
    BY <2>5 DEF PopenInv, EndsHeld
  <2>7. QED
    BY <2>3, <2>6
<1>7. QED
  BY <1>1, <1>4, <1>5, <1>6 DEF Found

\* pclose finds its own node, and takes the pid in it.
LEMMA UnlinkMoves ==
  ASSUME PopenInv, NEW t \in Threads, Unlink(t)
  PROVE  /\ th[t].pc = "find" /\ th[t].call # 0 /\ th[t].call \in Call
         /\ UNCHANGED <<popen_lock, malloc_lock, fds, child, streams, calls>>
         /\ Moved(t) /\ th'[t].pc = "unlock" /\ th'[t].pid = th[t].call
         /\ th'[t].call = th[t].call /\ th'[t].mode = th[t].mode
         /\ th'[t].parent = th[t].parent /\ th'[t].own = th[t].own
         /\ \E i \in 1 .. Len(pid_list) :
              /\ pid_list[i] = [fd |-> th[t].parent, pid |-> th[t].call]
              /\ pid_list' = RemoveAt(pid_list, i)
<1>1. /\ th[t].pc = "find"
      /\ UNCHANGED <<popen_lock, malloc_lock, fds, child, streams, calls>>
  BY DEF Unlink, At
<1>2. PICK p \in Fd, c \in Call : p = th[t].parent /\ c = th[t].call /\ th[t].call # 0
  BY <1>1, Fields, EndsType, MineAlone DEF PopenInv
<1>3. PICK i : i = Lowest(Found(p))
  OBVIOUS
<1>4. i \in 1 .. Len(pid_list) /\ pid_list[i] = [fd |-> p, pid |-> c]
  <2>1. /\ Found(p) # {} /\ Found(p) \subseteq 1 .. Len(pid_list)
        /\ \A j \in Found(p) : pid_list[j] = [fd |-> p, pid |-> c]
    BY <1>1, <1>2, OwnNode
  <2>2. Found(p) \subseteq Nat
    BY <2>1
  <2>3. i \in Found(p)
    BY <1>3, <2>1, <2>2, LowestIsLeast
  <2>4. QED
    BY <2>1, <2>3
<1>5. /\ pid_list' = RemoveAt(pid_list, i)
      /\ th' = [th EXCEPT ![t].pc = "unlock", ![t].pid = c]
  BY <1>1, <1>2, <1>3, <1>4, OwnNode DEF Unlink
<1>6. /\ Moved(t) /\ th'[t].pc = "unlock" /\ th'[t].pid = c
      /\ th'[t].call = th[t].call /\ th'[t].mode = th[t].mode
      /\ th'[t].parent = th[t].parent /\ th'[t].own = th[t].own
  <2>1. PICK r : r = [th[t] EXCEPT !.pc = "unlock", !.pid = c]
    OBVIOUS
  <2>2. th[t] \in Local /\ c \in 0 .. MaxCalls
    BY DEF PopenInv, Types, Call
  <2>3. /\ r \in Local /\ r.pc = "unlock" /\ r.pid = c
        /\ r.call = th[t].call /\ r.mode = th[t].mode
        /\ r.parent = th[t].parent /\ r.own = th[t].own
    BY <2>1, <2>2 DEF Local, Places
  <2>4. th' = [th EXCEPT ![t] = r]
    BY <1>5, <2>1
  <2>5. Moved(t) /\ th'[t] = r
    BY <2>3, <2>4, SetMoves DEF PopenInv
  <2>6. QED
    BY <2>3, <2>5
<1>7. QED
  BY <1>1, <1>2, <1>4, <1>5, <1>6

LEMMA UnlinkStep ==
  ASSUME PopenInv, NEW t \in Threads, Unlink(t)
  PROVE  PopenInv'
<1>1. /\ th[t].pc = "find"
      /\ UNCHANGED <<popen_lock, malloc_lock, fds, child, streams, calls>>
  BY UnlinkMoves
<1>2. PICK p \in Fd, c \in Call : p = th[t].parent /\ c = th[t].call /\ th[t].call # 0
  BY <1>1, Fields, EndsType, MineAlone DEF PopenInv
<1>4. PICK i \in 1 .. Len(pid_list) :
        pid_list[i] = [fd |-> p, pid |-> c] /\ pid_list' = RemoveAt(pid_list, i)
  BY <1>2, UnlinkMoves
<1>5. pid_list' = RemoveAt(pid_list, i)
  BY <1>4
<1>6. /\ Moved(t) /\ th'[t].pc = "unlock" /\ th'[t].pid = c
      /\ th'[t].call = th[t].call /\ th'[t].mode = th[t].mode
      /\ th'[t].parent = th[t].parent /\ th'[t].own = th[t].own
  BY <1>2, UnlinkMoves
<1>7. AtPlace(t)' /\ OwnEnd(t)'
  BY <1>1, <1>2, <1>6 DEF PopenInv, AtPlace, OwnEnd
<1>8. Ends(t)' = Ends(t)
  BY <1>1, <1>6 DEF Ends
<1>9. PICK k \in Nat : k + 1 = Len(pid_list) /\ pid_list \in Seq(Node)
  <2>1. Len(pid_list) \in Nat /\ Len(pid_list) # 0 /\ pid_list \in Seq(Node)
    BY <1>4 DEF PopenInv, Types
  <2>2. Len(pid_list) - 1 \in Nat /\ (Len(pid_list) - 1) + 1 = Len(pid_list)
    BY <2>1
  <2>3. QED
    BY <2>1, <2>2
<1>10. /\ pid_list' \in Seq(Node) /\ Len(pid_list') = k
       /\ \A j \in 1 .. k : pid_list'[j] = IF j < i THEN pid_list[j] ELSE pid_list[j + 1]
  <2>1. /\ RemoveAt(pid_list, i) \in Seq(Node)
        /\ Len(RemoveAt(pid_list, i)) = Len(pid_list) - 1
        /\ \A j \in 1 .. Len(pid_list) - 1 :
             RemoveAt(pid_list, i)[j] = IF j < i THEN pid_list[j] ELSE pid_list[j + 1]
    BY <1>4, <1>9, RemoveAtProperties
  <2>2. Len(pid_list) - 1 = k
    BY <1>9
  <2>3. QED
    BY <1>5, <2>1, <2>2
<1>11. \A x, y \in 1 .. k + 1 : pid_list[x].pid = pid_list[y].pid => x = y
  BY <1>9 DEF PopenInv, NodesKept
<1>12. ASSUME NEW n \in Call, NEW d \in Fd
       PROVE  (\E j \in 1 .. k : pid_list'[j] = [fd |-> d, pid |-> n])
                <=> n # c /\ \E x \in 1 .. k + 1 : pid_list[x] = [fd |-> d, pid |-> n]
  <2>1. ASSUME NEW j \in 1 .. k, pid_list'[j] = [fd |-> d, pid |-> n]
        PROVE  n # c /\ \E x \in 1 .. k + 1 : pid_list[x] = [fd |-> d, pid |-> n]
    <3>1. PICK x \in 1 .. k + 1 : x # i /\ pid_list'[j] = pid_list[x]
      <4>1. CASE j < i
        BY <1>10, <4>1
      <4>2. CASE ~(j < i)
        <5>1. j + 1 \in 1 .. k + 1 /\ j + 1 # i
          BY <1>4, <1>9, <4>2
        <5>2. QED
          BY <1>10, <4>2, <5>1
      <4>3. QED
        BY <4>1, <4>2
    <3>2. pid_list[x].pid = n /\ pid_list[i].pid = c /\ i \in 1 .. k + 1
      BY <1>4, <1>9, <2>1, <3>1
    <3>3. n # c
      BY <1>11, <3>1, <3>2
    <3>4. QED
      BY <2>1, <3>1, <3>3
  <2>2. ASSUME NEW x \in 1 .. k + 1, pid_list[x] = [fd |-> d, pid |-> n], n # c
        PROVE  \E j \in 1 .. k : pid_list'[j] = [fd |-> d, pid |-> n]
    <3>1. x # i /\ i \in 1 .. k + 1
      BY <1>4, <1>9, <2>2
    <3>2. CASE x < i
      <4>1. x \in 1 .. k
        BY <3>1, <3>2
      <4>2. QED
        BY <1>10, <2>2, <3>2, <4>1
    <3>3. CASE ~(x < i)
      <4>1. x - 1 \in 1 .. k /\ ~(x - 1 < i) /\ (x - 1) + 1 = x
        BY <3>1, <3>3
      <4>2. pid_list'[x - 1] = pid_list[x]
        BY <1>10, <4>1
      <4>3. QED
        BY <2>2, <4>1, <4>2
    <3>4. QED
      BY <3>2, <3>3
  <2>3. QED
    BY <2>1, <2>2
<1>13. ASSUME NEW n \in Call, NEW d \in Fd
       PROVE  Keeps(n, d)' <=> Keeps(n, d) /\ n # c
  <2>1. \A u \in Threads : u # t => th'[u] = th[u] /\ th[u].call # c
    BY <1>2, <1>6 DEF Moved, PopenInv, OneOwner
  <2>2. \A e : [fd |-> e, call |-> c] \notin streams
    BY <1>2 DEF PopenInv, OneOwner
  <2>3. QED
    BY <1>1, <1>2, <1>6, <2>1, <2>2 DEF Keeps
<1>14. NodesKept'
  <2>1. \A n \in Call, d \in Fd :
          Keeps(n, d)' <=> \E j \in 1 .. k : pid_list'[j] = [fd |-> d, pid |-> n]
    BY <1>9, <1>12, <1>13 DEF PopenInv, NodesKept
  <2>2. ASSUME NEW x \in 1 .. k, NEW y \in 1 .. k, pid_list'[x].pid = pid_list'[y].pid
        PROVE  x = y
    <3>1. PICK a \in 1 .. k + 1 : pid_list'[x] = pid_list[a]
                                  /\ a = IF x < i THEN x ELSE x + 1
      BY <1>10
    <3>2. PICK b \in 1 .. k + 1 : pid_list'[y] = pid_list[b]
                                  /\ b = IF y < i THEN y ELSE y + 1
      BY <1>10
    <3>3. a = b
      BY <1>11, <2>2, <3>1, <3>2
    <3>4. QED
      BY <1>4, <3>1, <3>2, <3>3
  <2>3. \A x, y \in 1 .. k : pid_list'[x].pid = pid_list'[y].pid => x = y
    BY <2>2
  <2>4. QED
    BY <1>10, <2>1, <2>3 DEF NodesKept
<1>15. EndsHeld'
  BY <1>1, <1>6, <1>8, HoldsKept DEF PopenInv, EndsHeld
<1>16. Types'
  BY <1>1, <1>6, <1>10 DEF PopenInv, Types, Moved
<1>17. OneOwner'
  BY <1>1, <1>6, OneOwnerKept
<1>18. ASSUME NEW u \in Threads PROVE AtPlace(u)' /\ OwnEnd(u)'
  BY <1>1, <1>6, <1>7 DEF PopenInv, AtPlace, OwnEnd, Moved
<1>19. Inherited'
  <2>1. \A u \in Threads : th'[u].pc = "node" => fds[th'[u].parent].cloexec
    BY <1>6 DEF PopenInv, Inherited, Moved
  <2>2. QED
    BY <1>1, <1>13, <2>1 DEF PopenInv, Inherited
<1>20. QED
  BY <1>14, <1>15, <1>16, <1>17, <1>18, <1>19 DEF PopenInv

\* The number of a new call belongs to nobody.
LEMMA NewCall ==
  ASSUME PopenInv, calls < MaxCalls
  PROVE  /\ calls + 1 \in Call /\ calls \in Nat
         /\ \A u \in Threads : th[u].call # calls + 1
         /\ \A s \in streams : s.call # calls + 1
         /\ \A d \in Fd : fds[d].pipe # calls + 1
<1>1. calls + 1 \in Call /\ calls \in Nat
  BY DEF PopenInv, Types, Call
<1>2. \A m : m <= calls => m # calls + 1
  BY <1>1
<1>3. /\ \A u \in Threads : th[u].call # calls + 1
      /\ \A s \in streams : s.call # calls + 1
  BY <1>2 DEF PopenInv, OneOwner
<1>4. \A d \in Fd : ~Holds(calls + 1, d)
  BY <1>3 DEF Holds
<1>5. QED
  BY <1>1, <1>3, <1>4 DEF PopenInv, EndsHeld

\* t, that was idle, begins call number calls + 1 with the descriptors D.
LEMMA BeginStep ==
  ASSUME PopenInv, NEW t \in Threads, th[t].pc = "idle", calls < MaxCalls,
         Moved(t), Types', AtPlace(t)', OwnEnd(t)',
         th'[t].call = calls + 1, calls' = calls + 1,
         th'[t].pc \in {"lock", "wait"},
         \A d \in Fd : IF d \in Ends(t)' THEN fds[d].pipe = 0 /\ fds'[d].pipe = calls + 1
                       ELSE fds'[d] = fds[d],
         UNCHANGED <<pid_list, streams>>
  PROVE  PopenInv'
<1>1. /\ calls + 1 \in Call /\ calls \in Nat
      /\ \A u \in Threads : th[u].call # calls + 1
      /\ \A s \in streams : s.call # calls + 1
      /\ \A d \in Fd : fds[d].pipe # calls + 1
  BY NewCall
<1>2. th[t].call = 0 /\ Ends(t) = {}
  BY DEF PopenInv, AtPlace, Ends
<1>3. \A u \in Threads : u # t => th'[u] = th[u] /\ Ends(u)' = Ends(u)
  BY DEF Moved, Ends
<1>4. OneOwner'
  <2>1. \A u, v \in Threads : th'[u].call # 0 /\ th'[u].call = th'[v].call => u = v
    BY <1>1, <1>3 DEF PopenInv, OneOwner
  <2>2. \A u \in Threads, s \in streams : th'[u].call # s.call
    BY <1>1, <1>3 DEF PopenInv, OneOwner
  <2>3. \A u \in Threads : th'[u].call <= calls + 1
    <3>1. TAKE u \in Threads
    <3>2. CASE u = t
      BY <1>1, <3>2
    <3>3. CASE u # t
      <4>1. th'[u].call = th[u].call /\ th[u].call <= calls /\ th[u].call \in 0 .. MaxCalls
        BY <1>3, <3>3, Fields DEF PopenInv, OneOwner
      <4>2. QED
        BY <1>1, <4>1
    <3>4. QED
      BY <3>2, <3>3
  <2>4. \A s \in streams : s.call <= calls + 1
    <3>1. \A s \in streams : s.call <= calls /\ s.call \in Nat
      BY DEF PopenInv, OneOwner, Types, Call
    <3>2. QED
      BY <1>1, <3>1
  <2>5. QED
    BY <2>1, <2>2, <2>3, <2>4 DEF PopenInv, OneOwner
<1>5. ASSUME NEW n \in Call, NEW d \in Fd
      PROVE  Holds(n, d)' <=> Holds(n, d) \/ (n = calls + 1 /\ d \in Ends(t)')
  BY <1>2, <1>3 DEF Holds
<1>6. EndsHeld'
  <2> SUFFICES ASSUME NEW n \in Call, NEW d \in Fd
               PROVE  fds'[d].pipe = n <=> Holds(n, d)'
    BY DEF EndsHeld
  <2>1. n # 0 /\ (fds[d].pipe = n <=> Holds(n, d))
    BY DEF Call, PopenInv, EndsHeld
  <2>2. CASE d \in Ends(t)'
    BY <1>1, <1>5, <2>1, <2>2
  <2>3. CASE d \notin Ends(t)'
    BY <1>1, <1>5, <2>1, <2>3
  <2>4. QED
    BY <2>2, <2>3
<1>7. \A n, d : Keeps(n, d)' <=> Keeps(n, d)
  BY KeepsKept DEF Listing
<1>8. ASSUME NEW u \in Threads, u # t PROVE AtPlace(u)' /\ OwnEnd(u)'
  <2>1. AtPlace(u) /\ OwnEnd(u) /\ th'[u] = th[u] /\ th[u].own \in Fd
    BY <1>3, <1>8, Fields DEF PopenInv
  <2>2. \A d \in Fd : fds[d].pipe # 0 => fds'[d] = fds[d]
    OBVIOUS
  <2>3. th[u].pc \in {"lock", "fork", "undo", "close"} => fds[th[u].own].pipe # 0
    <3>1. th[u].pc \in {"lock", "fork", "undo", "close"} =>
            fds[th[u].own].end \in {"r", "w"}
      BY <2>1 DEF OwnEnd
    <3>2. QED
      BY <2>1, <3>1 DEF PopenInv, Types
  <2>4. QED
    BY <2>1, <2>2, <2>3 DEF AtPlace, OwnEnd
<1>9. NodesKept'
  BY <1>7 DEF PopenInv, NodesKept
<1>10. Inherited'
  <2>1. ASSUME NEW n \in Call, NEW d \in Fd, Holds(n, d) PROVE fds'[d] = fds[d]
    <3>1. fds[d].pipe = n /\ n # 0
      BY <2>1 DEF PopenInv, EndsHeld, Call
    <3>2. QED
      BY <3>1
  <2>2. ASSUME NEW u \in Threads, th'[u].pc = "node" PROVE fds'[th'[u].parent].cloexec
    <3>1. u # t /\ th'[u] = th[u] /\ th[u].parent \in Fd /\ th[u].parent \in Ends(u)
      BY <1>3, <2>2, Fields DEF PopenInv, Ends
    <3>2. th[u].call \in Call /\ Holds(th[u].call, th[u].parent)
      BY <3>1, EndsType, MineAlone
    <3>3. QED
      BY <2>1, <2>2, <3>1, <3>2 DEF PopenInv, Inherited
  <2>3. QED
    BY <1>7, <2>1, <2>2, KeepsHolds DEF PopenInv, Inherited
<1>11. QED
  BY <1>4, <1>6, <1>8, <1>9, <1>10 DEF PopenInv

LEMMA PipeMoves ==
  ASSUME PopenInv, NEW t \in Threads, NEW m \in {"r", "w"}, Pipe(t, m)
  PROVE  /\ th[t].pc = "idle" /\ calls + 1 \in Call /\ calls \in Nat /\ calls' = calls + 1
         /\ UNCHANGED <<popen_lock, pid_list, malloc_lock, child, streams>>
         /\ Moved(t) /\ th'[t].pc = "lock" /\ th'[t].mode = m /\ th'[t].pid = 0
         /\ th'[t].call = calls + 1
         /\ \E r, w \in Fd :
              /\ r # w /\ fds[r] = Closed /\ fds[w] = Closed
              /\ fds' = [fds EXCEPT ![r] = End(calls + 1, "r"), ![w] = End(calls + 1, "w")]
              /\ th'[t].parent = (IF m = "r" THEN r ELSE w)
              /\ th'[t].own = (IF m = "r" THEN w ELSE r)
<1>1. PICK r, w : r = Lowest(FreeFds) /\ w = Lowest(FreeFds \ {r})
  OBVIOUS
<1>2. /\ th[t].pc = "idle" /\ calls < MaxCalls /\ Cardinality(FreeFds) >= 2
      /\ fds' = [fds EXCEPT ![r] = End(calls + 1, "r"), ![w] = End(calls + 1, "w")]
      /\ calls' = calls + 1
      /\ th' = [th EXCEPT ![t] =
           [Resting EXCEPT !.pc = "lock", !.call = calls + 1, !.mode = m,
                           !.parent = IF m = "r" THEN r ELSE w,
                           !.own = IF m = "r" THEN w ELSE r]]
      /\ UNCHANGED <<popen_lock, pid_list, malloc_lock, child, streams>>
  BY <1>1 DEF Pipe, At
<1>3. calls + 1 \in Call /\ calls \in Nat
  BY <1>2, NewCall
<1>4. r \in FreeFds /\ w \in FreeFds /\ r # w
  <2>1. FreeFds \subseteq Fd /\ Fd \subseteq Nat /\ IsFiniteSet(Fd)
    BY FS_Interval DEF FreeFds, Fd
  <2>2. IsFiniteSet(FreeFds)
    BY <2>1, FS_Subset
  <2>3. FreeFds # {}
    <3>1. FreeFds = {} => Cardinality(FreeFds) = 0
      BY FS_EmptySet
    <3>2. ~(0 >= 2)
      OBVIOUS
    <3>3. QED
      BY <1>2, <3>1, <3>2
  <2>4. r \in FreeFds
    BY <1>1, <2>1, <2>3, LowestIsLeast
  <2>5. Cardinality(FreeFds \ {r}) = Cardinality(FreeFds) - 1
    BY <2>2, <2>4, FS_RemoveElement
  <2>6. FreeFds \ {r} # {}
    <3>1. Cardinality(FreeFds) \in Nat
      BY <2>2, FS_CardinalityType
    <3>2. Cardinality(FreeFds \ {r}) # 0
      BY <1>2, <2>5, <3>1
    <3>3. QED
      BY <3>2, FS_EmptySet
  <2>7. FreeFds \ {r} \subseteq Nat
    BY <2>1
  <2>8. w \in FreeFds \ {r}
    BY <1>1, <2>6, <2>7, LowestIsLeast
  <2>9. QED
    BY <2>4, <2>8
<1>5. r \in Fd /\ w \in Fd /\ fds[r] = Closed /\ fds[w] = Closed
  BY <1>4 DEF FreeFds, OpenFds
<1>6. /\ Moved(t) /\ th'[t].pc = "lock" /\ th'[t].mode = m /\ th'[t].pid = 0
      /\ th'[t].call = calls + 1
      /\ th'[t].parent = (IF m = "r" THEN r ELSE w)
      /\ th'[t].own = (IF m = "r" THEN w ELSE r)
  <2>1. PICK x : x = [Resting EXCEPT !.pc = "lock", !.call = calls + 1, !.mode = m,
                                     !.parent = IF m = "r" THEN r ELSE w,
                                     !.own = IF m = "r" THEN w ELSE r]
    OBVIOUS
  <2>2. calls + 1 \in 0 .. MaxCalls
    BY <1>3 DEF Call
  <2>3. /\ x \in Local /\ x.pc = "lock" /\ x.call = calls + 1 /\ x.mode = m
        /\ x.parent = (IF m = "r" THEN r ELSE w)
        /\ x.own = (IF m = "r" THEN w ELSE r) /\ x.pid = 0
    BY <1>5, <2>1, <2>2, RestingType DEF Local, Places
  <2>4. th' = [th EXCEPT ![t] = x]
    BY <1>2, <2>1
  <2>5. Moved(t) /\ th'[t] = x
    BY <2>3, <2>4, SetMoves DEF PopenInv
  <2>6. QED
    BY <2>3, <2>5
<1>7. QED
  BY <1>2, <1>3, <1>4, <1>5, <1>6

LEMMA PipeStep ==
  ASSUME PopenInv, NEW t \in Threads, NEW m \in {"r", "w"}, Pipe(t, m)
  PROVE  PopenInv'
<1>2. /\ th[t].pc = "idle" /\ calls' = calls + 1 /\ calls < MaxCalls
      /\ UNCHANGED <<popen_lock, pid_list, malloc_lock, child, streams>>
  BY PipeMoves DEF Pipe
<1>3. calls + 1 \in Call /\ calls \in Nat
  BY PipeMoves
<1>4. PICK r, w \in Fd :
        /\ r # w /\ fds[r] = Closed /\ fds[w] = Closed
        /\ fds' = [fds EXCEPT ![r] = End(calls + 1, "r"), ![w] = End(calls + 1, "w")]
        /\ th'[t].parent = (IF m = "r" THEN r ELSE w)
        /\ th'[t].own = (IF m = "r" THEN w ELSE r)
  BY PipeMoves
<1>5. r \in Fd /\ w \in Fd /\ fds[r] = Closed /\ fds[w] = Closed
  BY <1>4
<1>6. /\ Moved(t) /\ th'[t].pc = "lock" /\ th'[t].mode = m /\ th'[t].pid = 0
      /\ th'[t].call = calls + 1
      /\ th'[t].parent = (IF m = "r" THEN r ELSE w)
      /\ th'[t].own = (IF m = "r" THEN w ELSE r)
  BY <1>4, PipeMoves
<1>7. Ends(t)' = {r, w}
  BY <1>6 DEF Ends
<1>8. /\ End(calls + 1, "r") \in Descriptor /\ End(calls + 1, "w") \in Descriptor
      /\ \A e \in {"r", "w"} : /\ End(calls + 1, e).pipe = calls + 1
                               /\ End(calls + 1, e).end = e
                               /\ ~End(calls + 1, e).cloexec
  BY <1>3 DEF End, Descriptor, Call
<1>9. /\ fds' \in [Fd -> Descriptor]
      /\ fds'[r] = End(calls + 1, "r") /\ fds'[w] = End(calls + 1, "w")
      /\ \A d \in Fd : d \notin {r, w} => fds'[d] = fds[d]
  <2>1. fds \in [Fd -> Descriptor]
    BY DEF PopenInv, Types
  <2>2. QED
    BY <1>2, <1>4, <1>5, <1>8, <2>1
<1>10. \A d \in Fd : IF d \in Ends(t)' THEN fds[d].pipe = 0 /\ fds'[d].pipe = calls + 1
                     ELSE fds'[d] = fds[d]
  BY <1>5, <1>7, <1>8, <1>9, ClosedType
<1>11. AtPlace(t)' /\ OwnEnd(t)'
  <2>1. calls + 1 # 0
    BY <1>3
  <2>2. AtPlace(t)'
    BY <1>6, <2>1 DEF AtPlace
  <2>3. OwnEnd(t)'
    BY <1>4, <1>6, <1>8, <1>9 DEF OwnEnd
  <2>4. QED
    BY <2>2, <2>3
<1>12. Types'
  <2>1. \A d \in Fd : fds'[d].pipe = 0 <=> fds'[d].end \notin {"r", "w"}
    <3>1. calls + 1 # 0
      BY <1>3
    <3>2. QED
      BY <1>8, <1>9, <3>1 DEF PopenInv, Types
  <2>2. calls' \in 0 .. MaxCalls /\ \A n \in Call : n > calls' => n > calls
    BY <1>2, <1>3 DEF Call
  <2>3. QED
    BY <1>2, <1>6, <1>9, <2>1, <2>2 DEF PopenInv, Types, Moved
<1>13. QED
  BY <1>2, <1>6, <1>10, <1>11, <1>12, BeginStep

\* How system starts.
LEMMA SystemStarts ==
  ASSUME PopenInv, NEW t \in Threads, System(t)
  PROVE  /\ th[t].pc = "idle" /\ th[t].call = 0 /\ calls + 1 \in Call
         /\ calls' = calls + 1 /\ calls \in Nat
         /\ Moved(t) /\ th'[t].pc = "wait" /\ th'[t].mode = "system"
         /\ th'[t].call = calls + 1 /\ th'[t].pid = calls + 1
         /\ UNCHANGED <<popen_lock, pid_list, malloc_lock, fds, streams>>
         /\ child[calls + 1] = NoChild
         /\ \A n \in Call : n # calls + 1 => child'[n] = child[n]
         /\ child' \in [Call -> Child]
         /\ child'[calls + 1].state = "forked" /\ child'[calls + 1].mode = "system"
         /\ child'[calls + 1].fds = fds
<1>1. /\ th[t].pc = "idle" /\ calls < MaxCalls /\ calls' = calls + 1
      /\ UNCHANGED <<popen_lock, pid_list, malloc_lock, fds, streams>>
      /\ th' = [th EXCEPT ![t] = [Resting EXCEPT !.pc = "wait", !.mode = "system",
                                    !.call = calls + 1, !.pid = calls + 1]]
  BY DEF System, At
<1>2. calls + 1 \in Call /\ calls \in Nat
  BY <1>1, NewCall
<1>3. /\ Moved(t) /\ th'[t].pc = "wait" /\ th'[t].mode = "system"
      /\ th'[t].call = calls + 1 /\ th'[t].pid = calls + 1
  <2>1. PICK x : x = [Resting EXCEPT !.pc = "wait", !.mode = "system",
                                     !.call = calls + 1, !.pid = calls + 1]
    OBVIOUS
  <2>2. calls + 1 \in 0 .. MaxCalls
    BY <1>2 DEF Call
  <2>3. /\ x \in Local /\ x.pc = "wait" /\ x.mode = "system"
        /\ x.call = calls + 1 /\ x.pid = calls + 1
    BY <2>1, <2>2, RestingType DEF Local, Places
  <2>4. th' = [th EXCEPT ![t] = x]
    BY <1>1, <2>1
  <2>5. Moved(t) /\ th'[t] = x
    BY <2>3, <2>4, SetMoves DEF PopenInv
  <2>6. QED
    BY <2>3, <2>5
<1>4. th[t].call = 0
  BY <1>1 DEF PopenInv, AtPlace
<1>5. child[calls + 1] = NoChild
  <2>1. calls + 1 > calls
    BY <1>2
  <2>2. QED
    BY <1>2, <2>1 DEF PopenInv, Types
<1>6. PICK c : c = [NoChild EXCEPT !.state = "forked", !.mode = "system", !.fds = fds,
                                   !.stuck = malloc_lock # NoThread]
  OBVIOUS
<1>7. c \in Child /\ c.state = "forked" /\ c.mode = "system" /\ c.fds = fds
  BY <1>6, NoChildType DEF Child, PopenInv, Types
<1>8. child' = [child EXCEPT ![calls + 1] = c] /\ child \in [Call -> Child]
  BY <1>6 DEF System, PopenInv, Types
<1>9. /\ \A n \in Call : n # calls + 1 => child'[n] = child[n]
      /\ child'[calls + 1] = c /\ child' \in [Call -> Child]
  BY <1>2, <1>7, <1>8
<1>10. QED
  BY <1>1, <1>2, <1>3, <1>4, <1>5, <1>7, <1>9

LEMMA SystemStep ==
  ASSUME PopenInv, NEW t \in Threads, System(t)
  PROVE  PopenInv'
<1>1. /\ th[t].pc = "idle" /\ calls' = calls + 1 /\ calls < MaxCalls
      /\ UNCHANGED <<popen_lock, pid_list, malloc_lock, fds, streams>>
  BY SystemStarts DEF System
<1>2. calls + 1 \in Call /\ calls \in Nat
  BY SystemStarts
<1>3. /\ Moved(t) /\ th'[t].pc = "wait" /\ th'[t].mode = "system"
      /\ th'[t].pid = calls + 1 /\ th'[t].call = calls + 1
  BY SystemStarts
<1>4. Ends(t)' = {}
  BY <1>3 DEF Ends
<1>5. AtPlace(t)' /\ OwnEnd(t)'
  <2>1. calls + 1 # 0
    BY <1>2
  <2>2. QED
    BY <1>3, <2>1 DEF AtPlace, OwnEnd
<1>6. child' \in [Call -> Child] /\ \A n \in Call : n > calls' => child'[n] = NoChild
  <2>1. \A n \in Call : n > calls + 1 => n > calls /\ n # calls + 1
    BY <1>2 DEF Call
  <2>2. \A n \in Call : n > calls + 1 => child'[n] = child[n]
    BY <2>1, SystemStarts
  <2>3. QED
    BY <1>1, <2>1, <2>2, SystemStarts DEF PopenInv, Types
<1>7. Types'
  <2>1. calls' \in 0 .. MaxCalls
    BY <1>1, <1>2 DEF Call
  <2>2. QED
    BY <1>1, <1>3, <1>6, <2>1 DEF PopenInv, Types, Moved
<1>8. QED
  BY <1>1, <1>3, <1>4, <1>5, <1>7, BeginStep

\* Only a child moves.
LEMMA ChildKept ==
  ASSUME PopenInv, UNCHANGED <<popen_lock, pid_list, malloc_lock, fds, streams, calls, th>>,
         child' \in [Call -> Child], \A n \in Call : n > calls => child'[n] = NoChild
  PROVE  PopenInv'
<1>1. Types'
  BY DEF PopenInv, Types
<1>2. \A u \in Threads : AtPlace(u)' /\ OwnEnd(u)'
  BY DEF PopenInv, AtPlace, OwnEnd
<1>3. \A n, d : (Holds(n, d)' <=> Holds(n, d)) /\ (Keeps(n, d)' <=> Keeps(n, d))
  BY DEF Holds, Keeps, Ends
<1>4. OneOwner' /\ EndsHeld' /\ NodesKept' /\ Inherited'
  BY <1>3 DEF PopenInv, OneOwner, EndsHeld, NodesKept, Inherited
<1>5. QED
  BY <1>1, <1>2, <1>4 DEF PopenInv

LEMMA RedirectedType ==
  ASSUME NEW c \in Child
  PROVE  Redirected(c) \in [Fd -> Descriptor]
<1>1. PICK tab : tab = [d \in Fd |-> IF d \in c.others \cup {c.parent} THEN Closed
                                     ELSE c.fds[d]]
  OBVIOUS
<1>2. tab \in [Fd -> Descriptor] /\ c.own \in Fd
  BY <1>1, ClosedType DEF Child
<1>3. Redirected(c) = IF c.own = c.target THEN tab
                      ELSE [tab EXCEPT ![c.target] = tab[c.own], ![c.own] = Closed]
  BY <1>1 DEF Redirected
<1>4. PICK e \in Descriptor : e = tab[c.own]
  BY <1>2
<1>5. [tab EXCEPT ![c.target] = e, ![c.own] = Closed] \in [Fd -> Descriptor]
  BY <1>2, ClosedType
<1>6. QED
  BY <1>2, <1>3, <1>4, <1>5

LEMMA KeptType ==
  ASSUME NEW tab \in [Fd -> Descriptor]
  PROVE  Kept(tab) \in [Fd -> Descriptor]
BY ClosedType DEF Kept

\* What exec leaves of the child's descriptors.
Executed(c) == Kept(IF c.mode = "system" THEN c.fds ELSE Redirected(c))

LEMMA ExecType ==
  ASSUME PopenInv, NEW n \in Call, Exec(n)
  PROVE  /\ child[n].state = "forked" /\ child' \in [Call -> Child]
         /\ \A m \in Call : m # n => child'[m] = child[m]
         /\ child'[n] = [child[n] EXCEPT !.state = "running", !.fds = Executed(child[n])]
         /\ child'[n].state = "running" /\ child'[n].mode = child[n].mode
         /\ child'[n].fds = Executed(child[n])
<1>1. child \in [Call -> Child] /\ child[n] \in Child
  BY DEF PopenInv, Types
<1>2. PICK c : c = [child[n] EXCEPT !.state = "running", !.fds = Executed(child[n])]
  OBVIOUS
<1>3. child' = [child EXCEPT ![n] = c] /\ child[n].state = "forked"
  BY <1>1, <1>2 DEF Exec, Executed
<1>4. Executed(child[n]) \in [Fd -> Descriptor]
  <2>1. child[n].fds \in [Fd -> Descriptor]
    BY <1>1 DEF Child
  <2>2. QED
    BY <1>1, <2>1, RedirectedType, KeptType DEF Executed
<1>5. c \in Child /\ c.state = "running" /\ c.mode = child[n].mode
      /\ c.fds = Executed(child[n])
  BY <1>1, <1>2, <1>4 DEF Child
<1>6. QED
  BY <1>1, <1>2, <1>3, <1>5

LEMMA ExitType ==
  ASSUME PopenInv, NEW n \in Call, ExecFails(n) \/ Exit(n)
  PROVE  /\ child[n].state \in {"forked", "running"} /\ child' \in [Call -> Child]
         /\ \A m \in Call : m # n => child'[m] = child[m]
         /\ child'[n].state = "exited"
<1>1. child \in [Call -> Child] /\ child[n] \in Child
  BY DEF PopenInv, Types
<1>2. PICK c : c = [NoChild EXCEPT !.state = "exited", !.mode = child[n].mode]
  OBVIOUS
<1>3. child' = [child EXCEPT ![n] = c] /\ child[n].state \in {"forked", "running"}
  BY <1>2 DEF ExecFails, Exit, Ended
<1>4. c \in Child /\ c.state = "exited"
  <2>1. child[n].mode \in {"none", "r", "w", "system"}
    BY <1>1 DEF Child
  <2>2. QED
    BY <1>2, <2>1, NoChildType DEF Child, NoChild
<1>5. QED
  BY <1>1, <1>3, <1>4

LEMMA ChildStep ==
  ASSUME PopenInv, NEW n \in Call, InChild(n)
  PROVE  PopenInv'
<1>1. /\ child[n].state # "none" /\ child' \in [Call -> Child]
      /\ \A m \in Call : m # n => child'[m] = child[m]
  BY ExecType, ExitType DEF InChild
<1>2. \A m \in Call : m > calls => child'[m] = NoChild
  <2>1. \A m \in Call : m > calls => child[m] = NoChild /\ m # n
    BY <1>1 DEF PopenInv, Types, NoChild
  <2>2. QED
    BY <1>1, <2>1
<1>3. UNCHANGED <<popen_lock, pid_list, malloc_lock, fds, streams, calls, th>>
  BY DEF InChild, Exec, ExecFails, Exit, Ended
<1>4. QED
  BY <1>1, <1>2, <1>3, ChildKept

LEMMA PopenInvStep == PopenInv /\ [Next]_vars => PopenInv'
<1> SUFFICES ASSUME PopenInv, [Next]_vars PROVE PopenInv'
  OBVIOUS
<1>1. ASSUME NEW t \in Threads, Start(t) \/ PcloseStart(t) \/ Inside(t)
      PROVE  PopenInv'
  <2>1. CASE Start(t)
    BY <2>1, PipeStep, SystemStep, HeapStep DEF Start
  <2>2. CASE PcloseStart(t)
    BY <2>2, PcloseStartStep
  <2>3. CASE Popen(t)
    BY <2>3, LockStep, ForkStep, UndoStep, CloseOwnStep, FdopenStep, CloseParentStep,
       SetCloexecStep, NewNodeStep, PopenReturnsStep DEF Popen
  <2>4. CASE Pclose(t)
    BY <2>4, LockStep, UnlinkStep, PcloseUnlockStep, CloseParentStep, LeaveStep DEF Pclose
  <2>5. CASE MallocReturns(t)
    BY <2>5, HeapStep
  <2>6. QED
    BY <1>1, <2>1, <2>2, <2>3, <2>4, <2>5 DEF Inside
<1>2. ASSUME NEW n \in Call, InChild(n) PROVE PopenInv'
  BY <1>2, ChildStep
<1>3. CASE UNCHANGED vars
  BY <1>3, ChildKept DEF vars, PopenInv, Types
<1>4. QED
  BY <1>1, <1>2, <1>3 DEF Next

LEMMA PopenInvInit == Init => PopenInv
<1> SUFFICES ASSUME Init PROVE PopenInv
  OBVIOUS
<1>1. /\ popen_lock = NoThread /\ malloc_lock = NoThread /\ pid_list = <<>>
      /\ child = [n \in Call |-> NoChild] /\ streams = {} /\ calls = 0
      /\ th = [t \in Threads |-> Resting]
  BY DEF Init
<1>2. PICK std \in StdOpen : fds = [d \in Fd |-> IF d \in std THEN Std ELSE Closed]
  BY DEF Init
<1>3. Std \in Descriptor /\ Std.pipe = 0 /\ Std.end = "std"
  BY DEF Std, Descriptor
<1>4. fds \in [Fd -> Descriptor]
      /\ \A d \in Fd : fds[d].pipe = 0 /\ fds[d].end \notin {"r", "w"}
  BY <1>2, <1>3, ClosedType
<1>5. Types
  <2>1. pid_list \in Seq(Node) /\ calls \in 0 .. MaxCalls
    BY <1>1
  <2>2. child \in [Call -> Child] /\ \A n \in Call : child[n] = NoChild
    BY <1>1, NoChildType
  <2>3. th \in [Threads -> Local]
    BY <1>1, RestingType
  <2>4. QED
    BY <1>1, <1>4, <2>1, <2>2, <2>3 DEF Types
<1>6. \A t \in Threads : /\ th[t].pc = "idle" /\ th[t].call = 0
  BY <1>1, RestingType
<1>7. \A t \in Threads : AtPlace(t) /\ OwnEnd(t) /\ Ends(t) = {}
  BY <1>6 DEF AtPlace, OwnEnd, Ends
<1>8. OneOwner
  BY <1>1, <1>6 DEF OneOwner
<1>9. \A n \in Call, d \in Fd : ~Holds(n, d) /\ ~Keeps(n, d) /\ n # 0
  BY <1>1, <1>6, <1>7 DEF Holds, Keeps, Call
<1>10. EndsHeld
  BY <1>4, <1>9 DEF EndsHeld
<1>11. NodesKept
  BY <1>1, <1>9 DEF NodesKept
<1>12. Inherited
  BY <1>6, <1>9 DEF Inherited
<1>13. QED
  BY <1>5, <1>7, <1>8, <1>10, <1>11, <1>12 DEF PopenInv

\* What the calls in progress, the streams, the descriptors and the list have
\* in common, whatever fails.
THEOREM PopenInvariant == Spec => []PopenInv
BY PopenInvInit, PopenInvStep, PTL DEF Spec
-----------------------------------------------------------------------------
(* What the list promises.                                                 *)

\* A node of the list is that of a stream or of a call in progress: its
\* descriptor is an end of its own pipe.
LEMMA NodeOwned ==
  ASSUME PopenInv, NEW i \in 1 .. Len(pid_list)
  PROVE  /\ pid_list[i].fd \in Fd /\ pid_list[i].pid \in Call
         /\ pid_list[i].pid <= calls
         /\ fds[pid_list[i].fd].pipe = pid_list[i].pid
         /\ fds[pid_list[i].fd].cloexec
<1>1. pid_list[i] \in Node
  BY ElementOfSeq DEF PopenInv, Types
<1>2. PICK d \in Fd, n \in Call : pid_list[i] = [fd |-> d, pid |-> n]
  BY <1>1 DEF Node
<1>3. Keeps(n, d)
  BY <1>2 DEF PopenInv, NodesKept
<1>4. fds[d].pipe = n
  BY <1>3, KeepsHolds DEF PopenInv, EndsHeld
<1>5. fds[d].cloexec
  BY <1>3 DEF PopenInv, Inherited
<1>6. n <= calls
  BY <1>3 DEF Keeps, PopenInv, OneOwner
<1>7. QED
  BY <1>2, <1>4, <1>5, <1>6

\* There are no more nodes than calls.
LEMMA ListShort ==
  ASSUME PopenInv
  PROVE  Len(pid_list) <= calls
<1>1. pid_list \in Seq(Node) /\ calls \in Nat
  BY DEF PopenInv, Types
<1>2. PICK len \in Nat : len = Len(pid_list)
  BY <1>1, LenProperties
<1>3. PICK f : f = [i \in 1 .. len |-> pid_list[i].pid]
  OBVIOUS
<1>4. f \in [1 .. len -> 1 .. calls]
  <2>1. \A i \in 1 .. len : pid_list[i].pid \in 1 .. calls
    BY <1>1, <1>2, NodeOwned DEF Call
  <2>2. QED
    BY <1>3, <2>1
<1>5. \A i, j \in 1 .. len : f[i] = f[j] => i = j
  BY <1>2, <1>3 DEF PopenInv, NodesKept
<1>6. /\ IsFiniteSet(1 .. len) /\ Cardinality(1 .. len) = len
      /\ IsFiniteSet(1 .. calls) /\ Cardinality(1 .. calls) = calls
  <2>0. 1 \in Int /\ len \in Int
    BY <1>2
  <2>1. /\ IsFiniteSet(1 .. len)
        /\ Cardinality(1 .. len) = IF 1 > len THEN 0 ELSE len - 1 + 1
    BY <2>0, FS_Interval
  <2>2. /\ IsFiniteSet(1 .. calls)
        /\ Cardinality(1 .. calls) = IF 1 > calls THEN 0 ELSE calls - 1 + 1
    BY <1>1, FS_Interval
  <2>3. QED
    BY <1>1, <1>2, <2>1, <2>2
<1>7. ~(len > calls)
  <2>1. SUFFICES ASSUME len > calls PROVE FALSE
    OBVIOUS
  <2>2. \E i, j \in 1 .. len : i # j /\ f[i] = f[j]
    BY <1>4, <1>6, <2>1, FS_PigeonHole
  <2>3. QED
    BY <1>5, <2>2
<1>8. QED
  BY <1>1, <1>2, <1>7

LEMMA TypesOK == PopenInv => TypeOK
<1> SUFFICES ASSUME PopenInv PROVE TypeOK
  OBVIOUS
<1>1. pid_list \in Seq([fd : Fd, pid : Call]) /\ Len(pid_list) <= calls
  BY ListShort DEF PopenInv, Types, Node
<1>2. ASSUME NEW n \in Call
      PROVE  /\ child[n].state \in {"none", "forked", "running", "exited", "reaped"}
             /\ child[n].fds \in [Fd -> Descriptor]
             /\ n > calls => child[n] = NoChild
  <2>1. child[n] \in Child
    BY DEF PopenInv, Types
  <2>2. QED
    BY <2>1 DEF Child, PopenInv, Types
<1>3. QED
  BY <1>1, <1>2 DEF TypeOK, PopenInv, Types

LEMMA InvMatches == PopenInv => ListMatchesStreams
<1> SUFFICES ASSUME PopenInv PROVE ListMatchesStreams
  OBVIOUS
<1>1. DOMAIN pid_list = 1 .. Len(pid_list)
  BY DEF PopenInv, Types
<1>2. \A i, j \in DOMAIN pid_list : pid_list[i].fd = pid_list[j].fd => i = j
  <2> SUFFICES ASSUME NEW i \in 1 .. Len(pid_list), NEW j \in 1 .. Len(pid_list),
                      pid_list[i].fd = pid_list[j].fd
               PROVE  i = j
    BY <1>1
  <2>1. pid_list[i].pid = pid_list[j].pid
    BY NodeOwned
  <2>2. QED
    BY <2>1 DEF PopenInv, NodesKept
<1>3. \A s \in streams : \E i \in DOMAIN pid_list :
        pid_list[i] = [fd |-> s.fd, pid |-> s.call]
  <2> SUFFICES ASSUME NEW s \in streams
               PROVE  \E i \in DOMAIN pid_list : pid_list[i] = [fd |-> s.fd, pid |-> s.call]
    OBVIOUS
  <2>1. s \in [fd : Fd, call : Call]
    BY DEF PopenInv, Types
  <2>2. s.fd \in Fd /\ s.call \in Call /\ s = [fd |-> s.fd, call |-> s.call]
    BY <2>1
  <2>3. Keeps(s.call, s.fd)
    BY <2>2 DEF Keeps
  <2>4. QED
    BY <1>1, <2>2, <2>3 DEF PopenInv, NodesKept
<1>4. ASSUME \A t \in Threads : At(t, "idle"), NEW d \in Fd, fds[d].end \in {"r", "w"}
      PROVE  \E s \in streams : s.fd = d
  <2>1. PICK n : n = fds[d].pipe
    OBVIOUS
  <2>2. n \in Call
    <3>1. fds[d] \in Descriptor /\ n # 0
      BY <1>4, <2>1 DEF PopenInv, Types
    <3>2. n \in 0 .. MaxCalls
      BY <2>1, <3>1 DEF Descriptor
    <3>3. QED
      BY <3>1, <3>2 DEF Call
  <2>3. Holds(n, d)
    BY <2>1, <2>2 DEF PopenInv, EndsHeld
  <2>4. \A t \in Threads : Ends(t) = {}
    BY <1>4 DEF At, Ends
  <2>5. [fd |-> d, call |-> n] \in streams
    BY <2>3, <2>4 DEF Holds
  <2>6. QED
    BY <2>5
<1>5. QED
  BY <1>1, <1>2, <1>3, <1>4, NodeOwned, TypesOK DEF ListMatchesStreams

\* Every stream popen returned has one node, its own, no two nodes share a
\* descriptor, and when no call is in progress the open ends are those of the
\* streams: whatever fails, in any interleaving of the calls.
THEOREM ListMatchesStreamsAlways == Spec => []ListMatchesStreams
BY PopenInvariant, InvMatches, PTL

\* The steps that change a child.
LEMMA ChildMoves ==
  ASSUME Next
  PROVE  \/ UNCHANGED child
         \/ \E t \in Threads : Fork(t) \/ System(t) \/ Reaped(t)
         \/ \E n \in Call : InChild(n)
<1>1. ASSUME NEW t \in Threads, Start(t)
      PROVE  UNCHANGED child \/ System(t)
  BY <1>1 DEF Start, Pipe, Malloc
<1>2. ASSUME NEW t \in Threads, PcloseStart(t) \/ MallocReturns(t)
      PROVE  UNCHANGED child
  BY <1>2 DEF PcloseStart, MallocReturns
<1>3. ASSUME NEW t \in Threads, Popen(t)
      PROVE  UNCHANGED child \/ Fork(t)
  BY <1>3 DEF Popen, PopenLock, ForkFails, Undo, CloseOwn, Fdopen, FdopenFails,
              SetCloexec, NewNode, NewNodeFails, PopenReturns
<1>4. ASSUME NEW t \in Threads, Pclose(t)
       PROVE  UNCHANGED child \/ Reaped(t)
  BY <1>4 DEF Pclose, PcloseLock, Unlink, PcloseUnlock, Fclose, Interrupted
<1>5. QED
  BY <1>1, <1>2, <1>3, <1>4 DEF Next, Inside

LEMMA ReapStep ==
  ASSUME PopenInv, Next, NEW n \in Call,
         child[n].state # "reaped", child'[n].state = "reaped"
  PROVE  \E t \in Threads : At(t, "wait") /\ th[t].call = n
<1>1. child \in [Call -> Child]
  BY DEF PopenInv, Types
<1>2. CASE UNCHANGED child
  BY <1>2
<1>3. ASSUME NEW t \in Threads, Reaped(t)
      PROVE  \E u \in Threads : At(u, "wait") /\ th[u].call = n
  <2>1. th[t].pc = "wait" /\ th[t].pid = th[t].call /\ th[t].call \in Call
    BY <1>3, EndsType, MineAlone DEF Reaped, At, PopenInv, AtPlace
  <2>2. \A m \in Call : m # th[t].call => child'[m] = child[m]
    BY <1>1, <1>3, <2>1 DEF Reaped
  <2>3. QED
    BY <2>1, <2>2 DEF At
<1>4. ASSUME NEW t \in Threads, Fork(t) PROVE FALSE
  <2>1. th[t].pc = "fork" /\ child' = [child EXCEPT ![th[t].call] = Copy(t)]
    BY <1>4 DEF Fork, At
  <2>2. \A m \in Call : child'[m] = child[m] \/ child'[m] = Copy(t)
    BY <1>1, <2>1
  <2>3. QED
    BY <2>1, <2>2, CopyType
<1>5. ASSUME NEW t \in Threads, System(t) PROVE FALSE
  <2>1. PICK c : c = [NoChild EXCEPT !.state = "forked", !.mode = "system", !.fds = fds,
                                     !.stuck = malloc_lock # NoThread]
    OBVIOUS
  <2>2. child' = [child EXCEPT ![calls + 1] = c]
    BY <1>5, <2>1 DEF System
  <2>3. c.state = "forked"
    BY <2>1, NoChildType DEF Child
  <2>4. \A m \in Call : child'[m] = child[m] \/ child'[m] = c
    BY <1>1, <2>2
  <2>5. QED
    BY <2>3, <2>4
<1>6. ASSUME NEW m \in Call, InChild(m) PROVE FALSE
  <2>1. /\ \A k \in Call : k # m => child'[k] = child[k]
        /\ child'[m].state # "reaped"
    BY <1>6, ExecType, ExitType DEF InChild
  <2>2. QED
    BY <2>1
<1>7. QED
  BY <1>2, <1>3, <1>4, <1>5, <1>6, ChildMoves

\* pclose and system take the status of their own child and of no other,
\* though every thread changes the list they look it up in.
THEOREM ReapsItsOwnAlways == Spec => ReapsItsOwn
<1> DEFINE Own == \A n \in Call :
      child[n].state # "reaped" /\ child'[n].state = "reaped" =>
        \E t \in Threads : At(t, "wait") /\ th[t].call = n
<1>1. PopenInv /\ [Next]_vars => [Own]_vars
  <2>1. PopenInv /\ Next => Own
    BY ReapStep
  <2>2. QED
    BY <2>1
<1>2. Spec => [][Next]_vars
  BY DEF Spec
<1>3. ReapsItsOwn <=> [][Own]_vars
  BY DEF ReapsItsOwn
<1>4. QED
  BY <1>1, <1>2, <1>3, PopenInvariant, PTL

USE PopenAssumption

-----------------------------------------------------------------------------
(* No child is forgotten.                                                  *)

\* The program meets none of the failures after the fork: popen that fails
\* there has nobody wait for the child, and system that is interrupted either.
LosesNone ==
  /\ {"fdopen", "malloc"} \cap Faults = {}
  /\ "system" \in Calls => "EINTR" \notin Faults

Unforked == {"lock", "fork", "undo"}
Unwaited == {"forked", "running", "exited"}

\* A call that has not forked has no child.
BeforeFork(t) ==
  /\ th[t].pc \in Unforked => child[th[t].call] = NoChild
  /\ th[t].pc # "failed"
  /\ th[t].mode = "system" => "system" \in Calls

Known(n) == \/ \E t \in Threads : th[t].call = n
            \/ \E s \in streams : s.call = n

ChildKnown ==
  /\ \A t \in Threads : BeforeFork(t)
  /\ \A n \in Call : child[n].state \in Unwaited => Known(n)

LEMMA NoChildState == NoChild.state = "none"
BY DEF NoChild

\* A thread moves without a child, or leaves a call that has none.
LEMMA KnownKept ==
  ASSUME PopenInv, ChildKnown, NEW t \in Threads, Moved(t), UNCHANGED <<child, streams>>,
         th'[t].call = th[t].call \/ th[t].call = 0 \/ th[t].pc = "undo",
         BeforeFork(t)'
  PROVE  ChildKnown'
<1>1. \A u \in Threads : u # t => th'[u] = th[u]
  BY DEF Moved
<1>2. \A u \in Threads : BeforeFork(u)'
  BY <1>1 DEF ChildKnown, BeforeFork
<1>3. ASSUME NEW n \in Call, child[n].state \in Unwaited PROVE Known(n)'
  <2>1. CASE \E s \in streams : s.call = n
    BY <2>1 DEF Known
  <2>2. CASE \E u \in Threads : th[u].call = n
    <3>1. PICK u \in Threads : th[u].call = n
      BY <2>2
    <3>2. CASE u # t \/ th'[t].call = th[t].call
      BY <1>1, <3>1, <3>2 DEF Known
    <3>3. CASE u = t /\ th[t].call = 0
      BY <3>1, <3>3 DEF Call
    <3>4. CASE u = t /\ th[t].pc = "undo"
      <4>1. child[n] = NoChild
        BY <3>1, <3>4 DEF ChildKnown, BeforeFork, Unforked
      <4>2. QED
        BY <1>3, <4>1, NoChildState DEF Unwaited
    <3>5. QED
      BY <3>2, <3>3, <3>4
  <2>3. QED
    BY <1>3, <2>1, <2>2 DEF ChildKnown, Known
<1>4. QED
  BY <1>2, <1>3 DEF ChildKnown

LEMMA KnownGoto ==
  ASSUME PopenInv, ChildKnown, NEW t \in Threads, NEW p \in Places, Goto(t, p),
         UNCHANGED <<child, streams>>, p # "failed",
         p \in Unforked => th[t].pc \in Unforked
  PROVE  ChildKnown'
<1>1. Moved(t) /\ th'[t].pc = p /\ th'[t].call = th[t].call /\ th'[t].mode = th[t].mode
  BY GotoMoves DEF PopenInv
<1>2. BeforeFork(t)'
  BY <1>1 DEF ChildKnown, BeforeFork
<1>3. QED
  BY <1>1, <1>2, KnownKept

LEMMA KnownPopen ==
  ASSUME PopenInv, ChildKnown, NEW t \in Threads,
         \/ PopenLock(t) \/ ForkFails(t) \/ Undo(t) \/ CloseOwn(t) \/ Fdopen(t)
         \/ SetCloexec(t) \/ NewNode(t)
  PROVE  ChildKnown'
<1>1. CASE Undo(t)
  <2>1. /\ Moved(t) /\ th'[t].pc = "idle" /\ th'[t].mode = "none" /\ th[t].pc = "undo"
        /\ UNCHANGED <<child, streams>>
    BY <1>1, DoneMoves DEF Undo, At, PopenInv
  <2>2. BeforeFork(t)'
    BY <2>1 DEF BeforeFork, Unforked
  <2>3. QED
    BY <2>1, <2>2, KnownKept
<1>2. CASE PopenLock(t) \/ ForkFails(t)
  <2>1. PICK p \in Places : Goto(t, p) /\ p \in Unforked /\ th[t].pc \in Unforked
    BY <1>2 DEF PopenLock, ForkFails, At, Places, Unforked
  <2>2. UNCHANGED <<child, streams>> /\ p # "failed"
    BY <1>2, <2>1 DEF PopenLock, ForkFails, Unforked
  <2>3. QED
    BY <2>1, <2>2, KnownGoto
<1>3. CASE CloseOwn(t) \/ Fdopen(t) \/ SetCloexec(t) \/ NewNode(t)
  <2>1. PICK p \in Places : Goto(t, p) /\ p \notin Unforked \cup {"failed"}
    BY <1>3 DEF CloseOwn, Fdopen, SetCloexec, NewNode, Places, Unforked
  <2>2. UNCHANGED <<child, streams>>
    BY <1>3 DEF CloseOwn, Fdopen, SetCloexec, NewNode
  <2>3. QED
    BY <2>1, <2>2, KnownGoto
<1>4. QED
  BY <1>1, <1>2, <1>3

LEMMA KnownFork ==
  ASSUME PopenInv, ChildKnown, NEW t \in Threads, Fork(t)
  PROVE  ChildKnown'
<1>1. /\ th[t].pc = "fork" /\ Goto(t, "close") /\ "close" \in Places /\ streams' = streams
      /\ child' = [child EXCEPT ![th[t].call] = Copy(t)]
  BY DEF Fork, At, Places
<1>2. /\ Moved(t) /\ th'[t].pc = "close" /\ th'[t].call = th[t].call
      /\ th'[t].mode = th[t].mode
  BY <1>1, GotoMoves DEF PopenInv
<1>3. th[t].call # 0 /\ th[t].call \in Call
  BY <1>1, EndsType, CallOf
<1>4. \A n \in Call : n # th[t].call => child'[n] = child[n]
  BY <1>1 DEF PopenInv, Types
<1>5. \A u \in Threads : th'[u].call = th[u].call
  BY <1>2 DEF Moved
<1>6. ASSUME NEW u \in Threads PROVE BeforeFork(u)'
  <2>1. CASE u = t
    BY <1>2, <2>1 DEF ChildKnown, BeforeFork, Unforked
  <2>2. CASE u # t
    <3>1. th'[u] = th[u] /\ BeforeFork(u)
      BY <1>2, <2>2 DEF Moved, ChildKnown
    <3>2. th[u].pc \in Unforked => th[u].call \in Call /\ th[u].call # th[t].call
      <4>1. th[u].pc \in Unforked => th[u].call # 0
        BY EndsType DEF Unforked
      <4>2. QED
        BY <1>3, <2>2, <4>1, CallOf DEF PopenInv, OneOwner
    <3>3. QED
      BY <1>4, <3>1, <3>2 DEF BeforeFork
  <2>3. QED
    BY <2>1, <2>2
<1>7. \A n \in Call : child'[n].state \in Unwaited => Known(n)'
  BY <1>1, <1>4, <1>5 DEF ChildKnown, Known
<1>8. QED
  BY <1>6, <1>7 DEF ChildKnown

LEMMA KnownReturns ==
  ASSUME PopenInv, ChildKnown, NEW t \in Threads, PopenReturns(t)
  PROVE  ChildKnown'
<1>1. /\ Done(t) /\ child' = child
      /\ streams' = streams \cup {[fd |-> th[t].parent, call |-> th[t].call]}
  BY DEF PopenReturns, At, ChildKnown, BeforeFork
<1>2. Moved(t) /\ th'[t].pc = "idle" /\ th'[t].mode = "none"
  BY <1>1, DoneMoves DEF PopenInv
<1>3. \A u \in Threads : u # t => th'[u] = th[u]
  BY <1>2 DEF Moved
<1>4. \A u \in Threads : BeforeFork(u)'
  BY <1>1, <1>2, <1>3 DEF ChildKnown, BeforeFork, Unforked
<1>5. ASSUME NEW n \in Call, Known(n) PROVE Known(n)'
  <2>1. PICK s : s = [fd |-> th[t].parent, call |-> th[t].call]
    OBVIOUS
  <2>2. s \in streams' /\ s.call = th[t].call /\ streams \subseteq streams'
    BY <1>1, <2>1
  <2>3. QED
    BY <1>3, <1>5, <2>2 DEF Known
<1>6. QED
  BY <1>1, <1>4, <1>5 DEF ChildKnown

LEMMA KnownPcloseStart ==
  ASSUME PopenInv, ChildKnown, NEW t \in Threads, PcloseStart(t)
  PROVE  ChildKnown'
<1>1. PICK s \in streams :
        /\ th[t].call = 0 /\ child' = child /\ streams' = streams \ {s}
        /\ Moved(t) /\ th'[t].pc = "plock" /\ th'[t].mode = "pclose" /\ th'[t].call = s.call
  BY PcloseStartMoves
<1>5. \A u \in Threads : u # t => th'[u] = th[u]
  BY <1>1 DEF Moved
<1>6. \A u \in Threads : BeforeFork(u)'
  BY <1>1, <1>5 DEF ChildKnown, BeforeFork, Unforked
<1>7. ASSUME NEW n \in Call, Known(n) PROVE Known(n)'
  <2>1. n # 0
    BY DEF Call
  <2>2. QED
    BY <1>1, <1>5, <1>7, <2>1 DEF Known
<1>8. QED
  BY <1>1, <1>6, <1>7 DEF ChildKnown

\* The status is taken of the child of the call that ends with it.
LEMMA KnownReaped ==
  ASSUME PopenInv, ChildKnown, NEW t \in Threads, Reaped(t)
  PROVE  ChildKnown'
<1>1. /\ th[t].pc = "wait" /\ th[t].pid = th[t].call /\ th[t].call \in Call
      /\ Done(t) /\ streams' = streams
  BY EndsType, CallOf DEF Reaped, At, PopenInv, AtPlace
<1>2. Moved(t) /\ th'[t].pc = "idle" /\ th'[t].mode = "none"
  BY <1>1, DoneMoves DEF PopenInv
<1>3. /\ \A n \in Call : n # th[t].call => child'[n] = child[n]
      /\ child'[th[t].call].state = "reaped"
  <2>1. PICK c : c = [child[th[t].call] EXCEPT !.state = "reaped"]
    OBVIOUS
  <2>2. child' = [child EXCEPT ![th[t].call] = c]
    BY <1>1, <2>1 DEF Reaped
  <2>3. child \in [Call -> Child] /\ child[th[t].call] \in Child
    BY <1>1 DEF PopenInv, Types
  <2>4. c.state = "reaped"
    BY <2>1, <2>3 DEF Child
  <2>5. QED
    BY <1>1, <2>2, <2>3, <2>4
<1>4. \A u \in Threads : u # t => th'[u] = th[u]
  BY <1>2 DEF Moved
<1>5. ASSUME NEW u \in Threads PROVE BeforeFork(u)'
  <2>1. CASE u = t
    BY <1>2, <2>1 DEF BeforeFork, Unforked
  <2>2. CASE u # t
    <3>1. th'[u] = th[u] /\ BeforeFork(u)
      BY <1>4, <2>2 DEF ChildKnown
    <3>2. th[u].pc \in Unforked => th[u].call \in Call /\ th[u].call # th[t].call
      <4>1. th[u].pc \in Unforked => th[u].call # 0
        BY EndsType DEF Unforked
      <4>2. QED
        BY <2>2, <4>1, CallOf DEF PopenInv, OneOwner
    <3>3. QED
      BY <1>3, <3>1, <3>2 DEF BeforeFork
  <2>3. QED
    BY <2>1, <2>2
<1>6. ASSUME NEW n \in Call, child'[n].state \in Unwaited PROVE Known(n)'
  <2>1. n # th[t].call /\ child'[n] = child[n]
    BY <1>3, <1>6 DEF Unwaited
  <2>2. Known(n)
    BY <1>6, <2>1 DEF ChildKnown
  <2>3. QED
    BY <1>1, <1>4, <2>1, <2>2 DEF Known
<1>7. QED
  BY <1>5, <1>6 DEF ChildKnown

LEMMA KnownSystem ==
  ASSUME PopenInv, ChildKnown, NEW t \in Threads, System(t), "system" \in Calls
  PROVE  ChildKnown'
<1>1. \A u \in Threads : u # t => th'[u] = th[u]
  BY SystemStarts DEF Moved
<1>2. ASSUME NEW u \in Threads PROVE BeforeFork(u)'
  <2>1. CASE u = t
    BY <2>1, SystemStarts DEF BeforeFork, Unforked
  <2>2. CASE u # t
    <3>1. th'[u] = th[u] /\ BeforeFork(u)
      BY <1>1, <2>2 DEF ChildKnown
    <3>2. th[u].pc \in Unforked => th[u].call \in Call /\ th[u].call # calls + 1
      <4>1. th[u].pc \in Unforked => th[u].call # 0
        BY EndsType DEF Unforked
      <4>2. calls \in Nat /\ th[u].call <= calls /\ th[u].call \in 0 .. MaxCalls
        BY Fields DEF PopenInv, Types, OneOwner
      <4>3. th[u].call # calls + 1
        BY <4>2
      <4>4. QED
        BY <4>1, <4>3, CallOf
    <3>3. QED
      BY <3>1, <3>2, SystemStarts DEF BeforeFork
  <2>3. QED
    BY <2>1, <2>2
<1>3. ASSUME NEW n \in Call, child'[n].state \in Unwaited PROVE Known(n)'
  <2>1. CASE n = calls + 1
    BY <2>1, SystemStarts DEF Known
  <2>2. CASE n # calls + 1
    <3>1. Known(n)
      BY <1>3, <2>2, SystemStarts DEF ChildKnown
    <3>2. n # 0
      BY DEF Call
    <3>3. QED
      BY <1>1, <3>1, <3>2, SystemStarts DEF Known
  <2>3. QED
    BY <2>1, <2>2
<1>4. QED
  BY <1>2, <1>3 DEF ChildKnown

LEMMA KnownPipe ==
  ASSUME PopenInv, ChildKnown, NEW t \in Threads, NEW m \in {"r", "w"}, Pipe(t, m)
  PROVE  ChildKnown'
<1>1. /\ th[t].pc = "idle" /\ calls < MaxCalls /\ UNCHANGED <<child, streams>>
  BY DEF Pipe, At
<1>2. calls + 1 \in Call /\ calls \in Nat /\ calls + 1 > calls
  BY PipeMoves
<1>3. th[t].call = 0 /\ child[calls + 1] = NoChild
  BY <1>1, <1>2 DEF PopenInv, AtPlace, Types
<1>4. /\ Moved(t) /\ th'[t].pc = "lock" /\ th'[t].mode = m /\ th'[t].call = calls + 1
  BY PipeMoves
<1>5. BeforeFork(t)'
  BY <1>1, <1>3, <1>4 DEF BeforeFork
<1>6. QED
  BY <1>1, <1>3, <1>4, <1>5, KnownKept

LEMMA KnownChild ==
  ASSUME PopenInv, ChildKnown, NEW n \in Call, InChild(n)
  PROVE  ChildKnown'
<1>1. /\ child[n].state \in Unwaited /\ \A m \in Call : m # n => child'[m] = child[m]
  BY ExecType, ExitType DEF Unwaited, InChild
<1>2. UNCHANGED <<th, streams>>
  BY DEF InChild, Exec, ExecFails, Exit, Ended
<1>3. ASSUME NEW u \in Threads PROVE BeforeFork(u)'
  <2>1. th[u].pc \in Unforked => th[u].call \in Call /\ th[u].call # n
    <3>1. th[u].pc \in Unforked => th[u].call # 0
      BY EndsType DEF Unforked
    <3>2. th[u].pc \in Unforked => child[th[u].call].state = "none"
      BY NoChildState DEF ChildKnown, BeforeFork
    <3>3. QED
      BY <1>1, <3>1, <3>2, CallOf DEF Unwaited
  <2>2. QED
    BY <1>1, <1>2, <2>1 DEF ChildKnown, BeforeFork
<1>4. ASSUME NEW m \in Call, child'[m].state \in Unwaited PROVE Known(m)'
  <2>1. Known(m)
    BY <1>1, <1>4 DEF ChildKnown
  <2>2. QED
    BY <1>2, <2>1 DEF Known
<1>5. QED
  BY <1>3, <1>4 DEF ChildKnown

LEMMA KnownPclose ==
  ASSUME LosesNone, PopenInv, ChildKnown, NEW t \in Threads,
         PcloseLock(t) \/ Unlink(t) \/ PcloseUnlock(t) \/ Fclose(t) \/ Interrupted(t)
  PROVE  ChildKnown'
<1>1. CASE PcloseLock(t) \/ Fclose(t)
  <2>1. PICK p \in Places : Goto(t, p) /\ p \notin Unforked \cup {"failed"}
    BY <1>1 DEF PcloseLock, Fclose, Places, Unforked
  <2>2. UNCHANGED <<child, streams>>
    BY <1>1 DEF PcloseLock, Fclose
  <2>3. QED
    BY <2>1, <2>2, KnownGoto
<1>2. CASE PcloseUnlock(t)
  <2>1. Goto(t, "fclose") /\ UNCHANGED <<child, streams>>
    BY <1>2, PcloseUnlockStep DEF PcloseUnlock
  <2>2. "fclose" \in Places /\ "fclose" \notin Unforked
    BY DEF Places, Unforked
  <2>3. QED
    BY <2>1, <2>2, KnownGoto
<1>3. CASE Unlink(t)
  <2>1. /\ Moved(t) /\ th'[t].pc = "unlock" /\ th'[t].call = th[t].call
        /\ th'[t].mode = th[t].mode
    BY <1>3, UnlinkMoves
  <2>2. UNCHANGED <<child, streams>>
    BY <1>3 DEF Unlink
  <2>3. BeforeFork(t)'
    BY <2>1 DEF BeforeFork, Unforked, ChildKnown
  <2>4. QED
    BY <2>1, <2>2, <2>3, KnownKept
<1>4. CASE Interrupted(t)
  BY <1>4 DEF Interrupted, LosesNone, ChildKnown, BeforeFork
<1>5. QED
  BY <1>1, <1>2, <1>3, <1>4
LEMMA KnownStep == LosesNone /\ PopenInv /\ ChildKnown /\ [Next]_vars => ChildKnown'
<1> SUFFICES ASSUME LosesNone, PopenInv, ChildKnown, [Next]_vars PROVE ChildKnown'
  OBVIOUS
<1>1. ASSUME NEW t \in Threads, Start(t) \/ PcloseStart(t) \/ Inside(t)
      PROVE  ChildKnown'
  <2>1. CASE Malloc(t) \/ MallocReturns(t)
    <3>1. PICK p \in Places : Goto(t, p) /\ p \notin Unforked \cup {"failed"}
      BY <2>1 DEF Malloc, MallocReturns, Places, Unforked
    <3>2. UNCHANGED <<child, streams>>
      BY <2>1 DEF Malloc, MallocReturns
    <3>3. QED
      BY <3>1, <3>2, KnownGoto
  <2>2. CASE Start(t)
    BY <2>1, <2>2, KnownPipe, KnownSystem DEF Start
  <2>3. CASE PcloseStart(t)
    BY <2>3, KnownPcloseStart
  <2>4. CASE Popen(t)
    <3>1. ~FdopenFails(t) /\ ~NewNodeFails(t)
      BY DEF FdopenFails, NewNodeFails, LosesNone
    <3>2. QED
      BY <2>4, <3>1, KnownPopen, KnownFork, KnownReturns DEF Popen
  <2>5. CASE Pclose(t)
    BY <2>5, KnownPclose, KnownReaped DEF Pclose
  <2>6. QED
    BY <1>1, <2>1, <2>2, <2>3, <2>4, <2>5 DEF Inside
<1>2. ASSUME NEW n \in Call, InChild(n) PROVE ChildKnown'
  BY <1>2, KnownChild
<1>3. CASE UNCHANGED vars
  BY <1>3 DEF vars, ChildKnown, BeforeFork, Known
<1>4. QED
  BY <1>1, <1>2, <1>3 DEF Next

LEMMA KnownInit == Init => ChildKnown
<1> SUFFICES ASSUME Init PROVE ChildKnown
  OBVIOUS
<1>1. \A t \in Threads : th[t].pc = "idle" /\ th[t].mode = "none"
  BY RestingType DEF Init
<1>2. \A n \in Call : child[n].state = "none"
  BY NoChildState DEF Init
<1>3. QED
  BY <1>1, <1>2 DEF ChildKnown, BeforeFork, Unforked, Unwaited

\* The child of a stream is that of its node.
LEMMA KnownIsListed ==
  ASSUME PopenInv, NEW n \in Call, Known(n)
  PROVE  \/ \E i \in DOMAIN pid_list : pid_list[i].pid = n
         \/ \E t \in Threads : th[t].call = n
<1>1. CASE \E t \in Threads : th[t].call = n
  BY <1>1
<1>2. CASE \E s \in streams : s.call = n
  <2>1. PICK s \in streams : s.call = n
    BY <1>2
  <2>2. PICK i \in DOMAIN pid_list : pid_list[i] = [fd |-> s.fd, pid |-> s.call]
    BY InvMatches DEF ListMatchesStreams
  <2>3. QED
    BY <2>1, <2>2
<1>3. QED
  BY <1>1, <1>2 DEF Known

\* Where nothing fails after the fork, a child whose status was not taken is
\* on popen's list or belongs to a call in progress, at every moment.
THEOREM NoLostChildAlways ==
  ASSUME LosesNone
  PROVE  Spec => []NoLostChild
<1>1. Init => ChildKnown
  BY KnownInit
<1>2. PopenInv /\ ChildKnown /\ [Next]_vars => ChildKnown'
  BY KnownStep
<1>3. PopenInv /\ ChildKnown => NoLostChild
  BY KnownIsListed DEF NoLostChild, ChildKnown, Unwaited
<1>4. QED
  BY <1>1, <1>2, <1>3, PopenInvariant, PTL DEF Spec
-----------------------------------------------------------------------------
(* What a command finds open.                                              *)

\* One thread opens the streams and runs the commands.  With more, a child is
\* forked while another call has made its pipe and is not on the list yet.
OneThread == \A t, u \in Threads : t = u

Other(m) == IF m = "r" THEN "w" ELSE "r"

\* What the copy of a command for popen, and for system, has at the fork.
PipeCopy(n) ==
  LET c == child[n] IN
  /\ c.target = (IF c.mode = "r" THEN 1 ELSE 0)
  /\ c.target \in Fd /\ c.own # c.parent /\ c.own \notin c.others
  /\ c.fds[c.own].pipe = n /\ c.fds[c.own].end = Other(c.mode)
  /\ ~c.fds[c.own].cloexec
  /\ \A d \in Fd : c.fds[d].end \in {"r", "w"} => d \in c.others \cup {c.parent, c.own}

SystemCopy(n) == \A d \in Fd :
  child[n].fds[d].end \in {"r", "w"} => child[n].fds[d].cloexec

CopyKnown == \A n \in Call :
  child[n].state = "forked" =>
    \/ child[n].mode \in {"r", "w"} /\ PipeCopy(n)
    \/ child[n].mode = "system" /\ SystemCopy(n)

\* What OnItsPipe says of one child.
InPlace(n) ==
  LET std == IF child[n].mode = "r" THEN 1 ELSE 0
      held == child[n].fds
  IN /\ child[n].mode \in {"r", "w"} =>
          held[std].pipe = n /\ held[std].end # child[n].mode
     /\ \A d \in Fd : held[d].end \in {"r", "w"} => held[d].pipe = n /\ d = std

CommandsKnown ==
  /\ CopyKnown
  /\ \A n \in Call : child[n].state = "running" => InPlace(n)

\* A step that leaves every child but one as it was.
LEMMA CommandsKept ==
  ASSUME CommandsKnown, NEW n \in Call, \A m \in Call : m # n => child'[m] = child[m],
         child'[n].state = "forked" =>
            \/ child'[n].mode \in {"r", "w"} /\ PipeCopy(n)'
            \/ child'[n].mode = "system" /\ SystemCopy(n)',
         child'[n].state = "running" => InPlace(n)'
  PROVE  CommandsKnown'
<1>1. ASSUME NEW m \in Call, m # n
      PROVE  /\ child'[m] = child[m] /\ (PipeCopy(m)' <=> PipeCopy(m))
             /\ (SystemCopy(m)' <=> SystemCopy(m)) /\ (InPlace(m)' <=> InPlace(m))
  BY <1>1 DEF PipeCopy, SystemCopy, InPlace
<1>2. QED
  BY <1>1 DEF CommandsKnown, CopyKnown

\* The ends that are open when t forks are those of t and of the streams.
LEMMA OpenEnds ==
  ASSUME OneThread, PopenInv, NEW t \in Threads, NEW d \in Fd, fds[d].end \in {"r", "w"}
  PROVE  \/ d \in Ends(t)
         \/ /\ fds[d].cloexec
            /\ \E i \in DOMAIN pid_list : pid_list[i].fd = d
<1>1. PICK n : n = fds[d].pipe
  OBVIOUS
<1>2. n \in Call
  <2>1. fds[d] \in Descriptor /\ n # 0
    BY <1>1 DEF PopenInv, Types
  <2>2. n \in 0 .. MaxCalls
    BY <1>1, <2>1 DEF Descriptor
  <2>3. QED
    BY <2>1, <2>2 DEF Call
<1>3. Holds(n, d)
  BY <1>1, <1>2 DEF PopenInv, EndsHeld
<1>4. CASE \E u \in Threads : d \in Ends(u)
  BY <1>4 DEF OneThread
<1>5. CASE [fd |-> d, call |-> n] \in streams
  <2>1. Keeps(n, d)
    BY <1>5 DEF Keeps
  <2>2. PICK i \in 1 .. Len(pid_list) : pid_list[i] = [fd |-> d, pid |-> n]
    BY <1>2, <2>1 DEF PopenInv, NodesKept
  <2>3. fds[d].cloexec
    BY <1>2, <2>1 DEF PopenInv, Inherited
  <2>4. DOMAIN pid_list = 1 .. Len(pid_list)
    BY DEF PopenInv, Types
  <2>5. QED
    BY <2>2, <2>3, <2>4
<1>6. QED
  BY <1>3, <1>4, <1>5 DEF Holds

LEMMA ForkCopies ==
  ASSUME OneThread, PopenInv, CommandsKnown, NEW t \in Threads, Fork(t)
  PROVE  CommandsKnown'
<1>1. th[t].pc = "fork" /\ child' = [child EXCEPT ![th[t].call] = Copy(t)]
  BY DEF Fork, At
<1>2. PICK n \in Call : n = th[t].call /\ n # 0
  BY <1>1, EndsType, CallOf
<1>3. (\A m \in Call : m # n => child'[m] = child[m]) /\ child'[n] = Copy(t)
  BY <1>1, <1>2 DEF PopenInv, Types
<1>4. PICK p \in Fd, o \in Fd : p = th[t].parent /\ o = th[t].own
  BY Fields DEF PopenInv
<1>5. /\ th[t].mode \in {"r", "w"} /\ p # o /\ Ends(t) = {p, o}
      /\ fds[o].end = Other(th[t].mode) /\ ~fds[o].cloexec
  BY <1>1, <1>4 DEF PopenInv, AtPlace, OwnEnd, Ends, Other
<1>6. fds[o].pipe = n
  BY <1>2, <1>5, MineAlone
<1>7. PICK others : others = {pid_list[i].fd : i \in DOMAIN pid_list}
  OBVIOUS
<1>8. o \notin others
  BY <1>5, <1>7, InvMatches DEF ListMatchesStreams
<1>9. \A d \in Fd : fds[d].end \in {"r", "w"} => d \in others \cup {p, o}
  BY <1>5, <1>7, OpenEnds
<1>10. 0 \in Fd /\ 1 \in Fd
  BY <1>5, PopenAssumption DEF Fd
<1>11. /\ child'[n].state = "forked" /\ child'[n].mode = th[t].mode
       /\ child'[n].fds = fds /\ child'[n].parent = p /\ child'[n].own = o
       /\ child'[n].target = (IF th[t].mode = "r" THEN 1 ELSE 0)
       /\ child'[n].others = others
  BY <1>1, <1>3, <1>4, <1>7, CopyType
<1>12. PipeCopy(n)'
  BY <1>5, <1>6, <1>8, <1>9, <1>10, <1>11 DEF PipeCopy
<1>13. QED
  BY <1>3, <1>5, <1>11, <1>12, CommandsKept

LEMMA SystemCopies ==
  ASSUME OneThread, PopenInv, CommandsKnown, NEW t \in Threads, System(t)
  PROVE  CommandsKnown'
<1>1. PICK n \in Call : n = calls + 1
  BY SystemStarts
<1>2. Ends(t) = {}
  BY SystemStarts DEF Ends
<1>3. SystemCopy(n)'
  BY <1>1, <1>2, SystemStarts, OpenEnds DEF SystemCopy
<1>4. QED
  BY <1>1, <1>3, SystemStarts, CommandsKept

\* The end a command was given is its standard input or output, and the only
\* end of a pipe it has.
LEMMA RedirectedEnds ==
  ASSUME PopenInv, NEW n \in Call, child[n].mode \in {"r", "w"}, PipeCopy(n)
  PROVE  LET c == child[n]
             tab == Kept(Redirected(c)) IN
         /\ tab[c.target].pipe = n /\ tab[c.target].end = Other(c.mode)
         /\ \A d \in Fd : tab[d].end \in {"r", "w"} => d = c.target
<1>1. PICK c \in Child : c = child[n]
  BY DEF PopenInv, Types
<1>2. /\ c.own \in Fd /\ c.parent \in Fd /\ c.others \subseteq Fd
      /\ c.fds \in [Fd -> Descriptor]
  BY DEF Child
<1>3. /\ c.target \in Fd /\ c.own # c.parent /\ c.own \notin c.others
      /\ c.fds[c.own].pipe = n /\ c.fds[c.own].end = Other(c.mode)
      /\ ~c.fds[c.own].cloexec
      /\ \A d \in Fd : c.fds[d].end \in {"r", "w"} => d \in c.others \cup {c.parent, c.own}
  BY <1>1 DEF PipeCopy
<1>4. PICK t1 : t1 = [d \in Fd |-> IF d \in c.others \cup {c.parent} THEN Closed
                                   ELSE c.fds[d]]
  OBVIOUS
<1>5. /\ t1 \in [Fd -> Descriptor] /\ t1[c.own] = c.fds[c.own]
      /\ \A d \in Fd : t1[d].end \in {"r", "w"} => d = c.own
  BY <1>2, <1>3, <1>4, ClosedType
<1>6. Redirected(c) = IF c.own = c.target THEN t1
                      ELSE [t1 EXCEPT ![c.target] = t1[c.own], ![c.own] = Closed]
  BY <1>4 DEF Redirected
<1>7. PICK e \in Descriptor : e = c.fds[c.own]
  BY <1>2
<1>8. PICK t2 : t2 = Redirected(c)
  OBVIOUS
<1>9. /\ t2 \in [Fd -> Descriptor] /\ t2[c.target] = e
      /\ \A d \in Fd : t2[d].end \in {"r", "w"} => d = c.target
  <2>1. CASE c.own = c.target
    BY <1>5, <1>6, <1>7, <1>8, <2>1
  <2>2. CASE c.own # c.target
    <3>1. t2 = [t1 EXCEPT ![c.target] = e, ![c.own] = Closed]
      BY <1>5, <1>6, <1>7, <1>8, <2>2
    <3>2. /\ t2 \in [Fd -> Descriptor] /\ t2[c.target] = e
          /\ \A d \in Fd : t2[d] = IF d = c.own THEN Closed
                                   ELSE IF d = c.target THEN e ELSE t1[d]
      BY <1>2, <1>3, <1>5, <2>2, <3>1, ClosedType
    <3>3. QED
      BY <1>5, <3>2, ClosedType
  <2>3. QED
    BY <2>1, <2>2
<1>10. PICK t3 : t3 = Kept(t2)
  OBVIOUS
<1>11. \A d \in Fd : t3[d] = IF t2[d].cloexec THEN Closed ELSE t2[d]
  BY <1>10 DEF Kept
<1>12. /\ t3[c.target] = e
       /\ \A d \in Fd : t3[d].end \in {"r", "w"} => d = c.target
  BY <1>3, <1>7, <1>9, <1>11, ClosedType
<1>13. QED
  BY <1>1, <1>3, <1>7, <1>8, <1>10, <1>12

LEMMA ExecPlaces ==
  ASSUME PopenInv, CommandsKnown, NEW n \in Call, Exec(n)
  PROVE  CommandsKnown'
<1>1. /\ child[n].state = "forked"
      /\ \A m \in Call : m # n => child'[m] = child[m]
      /\ child'[n].state = "running" /\ child'[n].mode = child[n].mode
      /\ child'[n].fds = Executed(child[n])
  BY ExecType
<1>2. CASE child[n].mode \in {"r", "w"} /\ PipeCopy(n)
  <2>1. PICK tab : tab = Kept(Redirected(child[n]))
    OBVIOUS
  <2>2. child'[n].fds = tab
    BY <1>1, <1>2, <2>1 DEF Executed
  <2>3. PICK std : std = IF child[n].mode = "r" THEN 1 ELSE 0
    OBVIOUS
  <2>4. child[n].target = std
    BY <1>2, <2>3 DEF PipeCopy
  <2>5. /\ tab[std].pipe = n /\ tab[std].end = Other(child[n].mode)
        /\ \A d \in Fd : tab[d].end \in {"r", "w"} => d = std
    BY <1>2, <2>1, <2>4, RedirectedEnds
  <2>6. Other(child[n].mode) # child[n].mode
    BY <1>2 DEF Other
  <2>7. InPlace(n)'
    BY <1>1, <2>2, <2>3, <2>5, <2>6 DEF InPlace
  <2>8. QED
    BY <1>1, <2>7, CommandsKept
<1>3. CASE child[n].mode = "system" /\ SystemCopy(n)
  <2>1. PICK tab : tab = child[n].fds
    OBVIOUS
  <2>2. child'[n].fds = Kept(tab)
    BY <1>1, <1>3, <2>1 DEF Executed
  <2>3. \A d \in Fd : Kept(tab)[d].end \notin {"r", "w"}
    BY <1>3, <2>1, ClosedType DEF Kept, SystemCopy
  <2>4. InPlace(n)'
    BY <1>1, <1>3, <2>2, <2>3 DEF InPlace
  <2>5. QED
    BY <1>1, <2>4, CommandsKept
<1>4. QED
  BY <1>1, <1>2, <1>3 DEF CommandsKnown, CopyKnown

LEMMA CommandsStep ==
  OneThread /\ PopenInv /\ CommandsKnown /\ [Next]_vars => CommandsKnown'
<1> SUFFICES ASSUME OneThread, PopenInv, CommandsKnown, [Next]_vars PROVE CommandsKnown'
  OBVIOUS
<1>1. CASE UNCHANGED child
  BY <1>1 DEF CommandsKnown, CopyKnown, PipeCopy, SystemCopy, InPlace
<1>2. ASSUME NEW t \in Threads, Reaped(t) PROVE CommandsKnown'
  <2>1. PICK n \in Call : n = th[t].pid
    BY <1>2, EndsType, CallOf DEF Reaped, At, PopenInv, AtPlace
  <2>2. PICK c : c = [child[n] EXCEPT !.state = "reaped"]
    OBVIOUS
  <2>3. child' = [child EXCEPT ![n] = c] /\ child \in [Call -> Child] /\ child[n] \in Child
    BY <1>2, <2>1, <2>2 DEF Reaped, PopenInv, Types
  <2>4. c.state = "reaped"
    BY <2>2, <2>3 DEF Child
  <2>5. (\A m \in Call : m # n => child'[m] = child[m]) /\ child'[n].state = "reaped"
    BY <2>3, <2>4
  <2>6. QED
    BY <2>5, CommandsKept
<1>3. ASSUME NEW n \in Call, ExecFails(n) \/ Exit(n) PROVE CommandsKnown'
  <2>1. (\A m \in Call : m # n => child'[m] = child[m]) /\ child'[n].state = "exited"
    BY <1>3, ExitType
  <2>2. QED
    BY <2>1, CommandsKept
<1>4. CASE UNCHANGED vars
  BY <1>1, <1>4 DEF vars
<1>5. QED
  BY <1>1, <1>2, <1>3, <1>4, ForkCopies, SystemCopies, ExecPlaces, ChildMoves DEF InChild

\* A command popen or system runs has the end of its own pipe in the place of
\* its standard output or input, and no other end of any pipe.
THEOREM OnItsPipeAlways ==
  ASSUME OneThread
  PROVE  Spec => []OnItsPipe
<1>1. Init => CommandsKnown
  <2> SUFFICES ASSUME Init PROVE CommandsKnown
    OBVIOUS
  <2>1. \A n \in Call : child[n].state = "none"
    BY NoChildState DEF Init
  <2>2. QED
    BY <2>1 DEF CommandsKnown, CopyKnown
<1>2. PopenInv /\ CommandsKnown /\ [Next]_vars => CommandsKnown'
  BY CommandsStep
<1>3. CommandsKnown => OnItsPipe
  BY DEF CommandsKnown, OnItsPipe, InPlace
<1>4. QED
  BY <1>1, <1>2, <1>3, PopenInvariant, PTL DEF Spec
=============================================================================
