------------------------------- MODULE Popen --------------------------------
(***************************************************************************)
(* popen, pclose and system (src/c/stdio/popen.c, pclose.c,                *)
(* src/c/stdlib/system.c): the list of children and its spin lock, the     *)
(* descriptors a child inherits, and the wait for its end.                 *)
(*                                                                         *)
(* The n-th call that gets a pipe owns pipe n and child n.  A descriptor   *)
(* is closed, one end of a pipe, or one of the standard ones.  The child's *)
(* code between fork and exec touches its own memory and descriptors only, *)
(* so it is one step.  What the stream does with the bytes is in Stream.   *)
(***************************************************************************)
EXTENDS Integers, Sequences, FiniteSets, SequencesExt

CONSTANTS
  Threads,
  NoThread,
  MaxFd,      \* bound: descriptors are 0 .. MaxFd
  MaxCalls,   \* bound: calls that fork
  StdOpen,    \* the sets of standard descriptors a program may start with
  Calls,      \* the functions the program calls
  Faults      \* what may fail: "fork", "fdopen", "malloc", "EINTR", and in the
              \* child "exec"

ASSUME PopenAssumption ==
  /\ NoThread \notin Threads
  /\ MaxFd \in Nat /\ MaxCalls \in Nat
  /\ StdOpen \subseteq SUBSET (0 .. 1)
  /\ Calls \subseteq {"r", "w", "system", "malloc"}
  /\ Faults \subseteq {"fork", "fdopen", "malloc", "EINTR", "exec"}

VARIABLES
  popen_lock, \* the thread that holds __popen_lock
  pid_list,   \* __popen_pid_list
  malloc_lock,\* the thread that holds the heap's lock
  fds,        \* the descriptors of the process
  child,      \* the children, by call
  streams,    \* the streams popen returned and pclose was not called with
  calls,      \* how many calls have forked or may
  th          \* each thread: where it is and its local variables

vars == <<popen_lock, pid_list, malloc_lock, fds, child, streams, calls, th>>

Fd == 0 .. MaxFd
Call == 1 .. MaxCalls

Closed == [pipe |-> 0, end |-> "closed", cloexec |-> FALSE]
Std == [pipe |-> 0, end |-> "std", cloexec |-> FALSE]
End(n, e) == [pipe |-> n, end |-> e, cloexec |-> FALSE]

NoChild == [state |-> "none", mode |-> "none", target |-> 0,
            fds |-> [d \in Fd |-> Closed], stuck |-> FALSE,
            parent |-> 0, own |-> 0, others |-> {}]

Resting == [pc |-> "idle", call |-> 0, mode |-> "none",
            parent |-> 0, own |-> 0, pid |-> 0]

OpenFds == {d \in Fd : fds[d] # Closed}
FreeFds == Fd \ OpenFds

Init ==
  /\ popen_lock = NoThread /\ malloc_lock = NoThread
  /\ pid_list = <<>>
  /\ \E std \in StdOpen : fds = [d \in Fd |-> IF d \in std THEN Std ELSE Closed]
  /\ child = [n \in Call |-> NoChild]
  /\ streams = {}
  /\ calls = 0
  /\ th = [t \in Threads |-> Resting]

----------------------------------------------------------------------------
(* popen *)

At(t, p) == th[t].pc = p
Goto(t, p) == th' = [th EXCEPT ![t].pc = p]
Done(t) == th' = [th EXCEPT ![t] = Resting]
Close(d) == fds' = [fds EXCEPT ![d] = Closed]

Lowest(S) == CHOOSE d \in S : \A e \in S : d <= e

\* pipe() gives the two lowest free descriptors; the side of the parent is
\* the read end for "r".  A pipe that is refused leaves all as it was.
Pipe(t, m) ==
  /\ At(t, "idle") /\ calls < MaxCalls
  /\ Cardinality(FreeFds) >= 2
  /\ LET r == Lowest(FreeFds)
         w == Lowest(FreeFds \ {r})
         n == calls + 1
     IN
     /\ fds' = [fds EXCEPT ![r] = End(n, "r"), ![w] = End(n, "w")]
     /\ calls' = n
     /\ th' = [th EXCEPT ![t] =
          [Resting EXCEPT !.pc = "lock", !.call = n, !.mode = m,
                          !.parent = IF m = "r" THEN r ELSE w,
                          !.own = IF m = "r" THEN w ELSE r]]
  /\ UNCHANGED <<popen_lock, pid_list, malloc_lock, child, streams>>

\* The spin for __popen_lock ends.
LockFree == popen_lock = NoThread

PopenLock(t) ==
  /\ At(t, "lock") /\ LockFree
  /\ popen_lock' = t
  /\ Goto(t, "fork")
  /\ UNCHANGED <<pid_list, malloc_lock, fds, child, streams, calls>>

\* The copy of the process that fork makes: its descriptors, the list as it
\* is, and the heap's lock as it is.
Copy(t) ==
  [NoChild EXCEPT !.state = "forked", !.mode = th[t].mode,
                  !.target = IF th[t].mode = "r" THEN 1 ELSE 0,
                  !.fds = fds, !.stuck = malloc_lock # NoThread,
                  !.parent = th[t].parent, !.own = th[t].own,
                  !.others = {pid_list[i].fd : i \in DOMAIN pid_list}]

Fork(t) ==
  /\ At(t, "fork")
  /\ child' = [child EXCEPT ![th[t].call] = Copy(t)]
  /\ Goto(t, "close")
  /\ UNCHANGED <<popen_lock, pid_list, malloc_lock, fds, streams, calls>>

ForkFails(t) ==
  /\ At(t, "fork") /\ "fork" \in Faults
  /\ popen_lock' = NoThread
  /\ Goto(t, "undo")
  /\ UNCHANGED <<pid_list, malloc_lock, fds, child, streams, calls>>

\* Bug: only the parent's end is closed.
Undo_parent(t) ==
  /\ At(t, "undo")
  /\ Close(th[t].parent)
  /\ Done(t)
  /\ UNCHANGED <<popen_lock, pid_list, malloc_lock, child, streams, calls>>

Undo(t) ==
  /\ At(t, "undo")
  /\ fds' = [fds EXCEPT ![th[t].parent] = Closed, ![th[t].own] = Closed]
  /\ Done(t)
  /\ UNCHANGED <<popen_lock, pid_list, malloc_lock, child, streams, calls>>

CloseOwn(t) ==
  /\ At(t, "close")
  /\ Close(th[t].own)
  /\ Goto(t, "fdopen")
  /\ UNCHANGED <<popen_lock, pid_list, malloc_lock, child, streams, calls>>

Fdopen(t) ==
  /\ At(t, "fdopen")
  /\ Goto(t, "cloexec")
  /\ UNCHANGED <<popen_lock, pid_list, malloc_lock, fds, child, streams, calls>>

\* popen returns NULL here with __popen_lock held.
FdopenFails(t) ==
  /\ At(t, "fdopen") /\ "fdopen" \in Faults
  /\ Close(th[t].parent)
  /\ Done(t)
  /\ UNCHANGED <<popen_lock, pid_list, malloc_lock, child, streams, calls>>

SetCloexec(t) ==
  /\ At(t, "cloexec")
  /\ fds' = [fds EXCEPT ![th[t].parent].cloexec = TRUE]
  /\ Goto(t, "node")
  /\ UNCHANGED <<popen_lock, pid_list, malloc_lock, child, streams, calls>>

NewNode(t) ==
  /\ At(t, "node")
  /\ pid_list' = <<[fd |-> th[t].parent, pid |-> th[t].call]>> \o pid_list
  /\ Goto(t, "opened")
  /\ UNCHANGED <<popen_lock, malloc_lock, fds, child, streams, calls>>

\* fclose(fp); nobody waits for the child.
NewNodeFails(t) ==
  /\ At(t, "node") /\ "malloc" \in Faults
  /\ Close(th[t].parent)
  /\ Goto(t, "failed")
  /\ UNCHANGED <<popen_lock, pid_list, malloc_lock, child, streams, calls>>

PopenReturns(t) ==
  /\ th[t].pc \in {"opened", "failed"}
  /\ popen_lock' = NoThread
  /\ streams' = IF At(t, "failed") THEN streams
                ELSE streams \cup {[fd |-> th[t].parent, call |-> th[t].call]}
  /\ Done(t)
  /\ UNCHANGED <<pid_list, malloc_lock, fds, child, calls>>

----------------------------------------------------------------------------
(* The child *)

\* Bug: the end the child uses is put in place before the others are closed.
Redirected_first(c) ==
  LET tab == [c.fds EXCEPT ![c.target] = c.fds[c.own]]
  IN [d \in Fd |-> IF d \in c.others \cup {c.parent, c.own}
                   THEN Closed ELSE tab[d]]

\* Close the streams of earlier calls and the parent's end; put the child's
\* end in the place of the standard descriptor.
Redirected(c) ==
  LET tab == [d \in Fd |-> IF d \in c.others \cup {c.parent} THEN Closed
                           ELSE c.fds[d]]
  IN IF c.own = c.target THEN tab
     ELSE [tab EXCEPT ![c.target] = tab[c.own], ![c.own] = Closed]

\* What is left at exec.
Kept(tab) == [d \in Fd |-> IF tab[d].cloexec THEN Closed ELSE tab[d]]

\* execl allocates its argument vector: with the heap's lock taken at fork
\* by a thread the child does not have, it spins for good.
Exec(n) ==
  /\ child[n].state = "forked" /\ ~child[n].stuck
  /\ child' = [child EXCEPT
       ![n].state = "running",
       ![n].fds = Kept(IF child[n].mode = "system" THEN @
                       ELSE Redirected(child[n]))]
  /\ UNCHANGED <<popen_lock, pid_list, malloc_lock, fds, streams, calls, th>>

Ended(n) ==
  /\ child' = [child EXCEPT ![n] = [NoChild EXCEPT !.state = "exited",
                                                   !.mode = child[n].mode]]
  /\ UNCHANGED <<popen_lock, pid_list, malloc_lock, fds, streams, calls, th>>

\* There is no memory for execl's vector, or no shell: _exit(127).
ExecFails(n) ==
  /\ child[n].state = "forked" /\ ~child[n].stuck /\ "exec" \in Faults
  /\ Ended(n)

Live(c) == c.state \in {"forked", "running"}

\* Some process can still write into the pipe.
Writable(n) ==
  \/ \E d \in Fd : fds[d].pipe = n /\ fds[d].end = "w"
  \/ \E m \in Call : /\ Live(child[m])
                     /\ \E d \in Fd : /\ child[m].fds[d].pipe = n
                                      /\ child[m].fds[d].end = "w"

\* A command that reads its input ends at its end, another when it likes.
Exit(n) ==
  /\ child[n].state = "running"
  /\ child[n].mode = "w" => ~Writable(n)
  /\ Ended(n)

----------------------------------------------------------------------------
(* pclose, system, and a thread in the heap *)

PcloseStart(t) == \E s \in streams :
  /\ At(t, "idle")
  /\ streams' = streams \ {s}
  /\ th' = [th EXCEPT ![t] = [Resting EXCEPT !.pc = "plock", !.mode = "pclose",
                                             !.parent = s.fd, !.call = s.call]]
  /\ UNCHANGED <<popen_lock, pid_list, malloc_lock, fds, child, calls>>

PcloseLock(t) ==
  /\ At(t, "plock") /\ LockFree
  /\ popen_lock' = t
  /\ Goto(t, "find")
  /\ UNCHANGED <<pid_list, malloc_lock, fds, child, streams, calls>>

Found(d) == {i \in DOMAIN pid_list : pid_list[i].fd = d}

\* Bug: the node at the head is taken.
Unlink_head(t) ==
  /\ At(t, "find") /\ pid_list # <<>>
  /\ pid_list' = Tail(pid_list)
  /\ th' = [th EXCEPT ![t].pc = "unlock", ![t].pid = Head(pid_list).pid]
  /\ UNCHANGED <<popen_lock, malloc_lock, fds, child, streams, calls>>

\* The first node with the stream's descriptor; none is EBADF.
Unlink(t) ==
  /\ At(t, "find")
  /\ LET hits == Found(th[t].parent) IN
     IF hits = {} THEN pid_list' = pid_list /\ Goto(t, "unlock")
     ELSE LET i == Lowest(hits) IN
          /\ pid_list' = RemoveAt(pid_list, i)
          /\ th' = [th EXCEPT ![t].pc = "unlock", ![t].pid = pid_list[i].pid]
  /\ UNCHANGED <<popen_lock, malloc_lock, fds, child, streams, calls>>

PcloseUnlock(t) ==
  /\ At(t, "unlock")
  /\ popen_lock' = NoThread
  /\ IF th[t].pid = 0 THEN Done(t) ELSE Goto(t, "fclose")
  /\ UNCHANGED <<pid_list, malloc_lock, fds, child, streams, calls>>

\* Bug: the stream is closed after the wait.
Fclose_late(t) ==
  /\ At(t, "fclose")
  /\ Goto(t, "wait")
  /\ UNCHANGED <<popen_lock, pid_list, malloc_lock, fds, child, streams, calls>>

Fclose(t) ==
  /\ At(t, "fclose")
  /\ Close(th[t].parent)
  /\ Goto(t, "wait")
  /\ UNCHANGED <<popen_lock, pid_list, malloc_lock, child, streams, calls>>

\* waitpid returns with the child's status.
Reaped(t) ==
  /\ At(t, "wait") /\ child[th[t].pid].state = "exited"
  /\ child' = [child EXCEPT ![th[t].pid].state = "reaped"]
  /\ Done(t)
  /\ UNCHANGED <<popen_lock, pid_list, malloc_lock, fds, streams, calls>>

\* Bug: pclose does not wait again.
Interrupted_returns(t) ==
  /\ At(t, "wait") /\ "EINTR" \in Faults
  /\ Done(t)
  /\ UNCHANGED <<popen_lock, pid_list, malloc_lock, fds, child, streams, calls>>

\* A signal interrupts waitpid: pclose waits again, system returns -1.
Interrupted(t) ==
  /\ At(t, "wait") /\ "EINTR" \in Faults /\ th[t].mode = "system"
  /\ Done(t)
  /\ UNCHANGED <<popen_lock, pid_list, malloc_lock, fds, child, streams, calls>>

\* system's child inherits what is open and closes nothing.
System(t) ==
  /\ At(t, "idle") /\ calls < MaxCalls
  /\ calls' = calls + 1
  /\ child' = [child EXCEPT ![calls + 1] =
       [NoChild EXCEPT !.state = "forked", !.mode = "system", !.fds = fds,
                       !.stuck = malloc_lock # NoThread]]
  /\ th' = [th EXCEPT ![t] = [Resting EXCEPT !.pc = "wait", !.mode = "system",
                                             !.call = calls + 1,
                                             !.pid = calls + 1]]
  /\ UNCHANGED <<popen_lock, pid_list, malloc_lock, fds, streams>>

Malloc(t) ==
  /\ At(t, "idle") /\ malloc_lock = NoThread
  /\ malloc_lock' = t
  /\ Goto(t, "malloc")
  /\ UNCHANGED <<popen_lock, pid_list, fds, child, streams, calls>>

MallocReturns(t) ==
  /\ At(t, "malloc")
  /\ malloc_lock' = NoThread
  /\ Goto(t, "idle")
  /\ UNCHANGED <<popen_lock, pid_list, fds, child, streams, calls>>

----------------------------------------------------------------------------
Popen(t) ==
  \/ PopenLock(t) \/ Fork(t) \/ ForkFails(t) \/ Undo(t) \/ CloseOwn(t)
  \/ Fdopen(t) \/ FdopenFails(t) \/ SetCloexec(t)
  \/ NewNode(t) \/ NewNodeFails(t) \/ PopenReturns(t)

Pclose(t) ==
  PcloseLock(t) \/ Unlink(t) \/ PcloseUnlock(t) \/ Fclose(t)
  \/ Reaped(t) \/ Interrupted(t)

InChild(n) == Exec(n) \/ ExecFails(n) \/ Exit(n)

Inside(t) == Popen(t) \/ Pclose(t) \/ MallocReturns(t)

Start(t) ==
  \/ \E m \in Calls \cap {"r", "w"} : Pipe(t, m)
  \/ "system" \in Calls /\ System(t)
  \/ "malloc" \in Calls /\ Malloc(t)

Next ==
  \/ \E t \in Threads : Start(t) \/ PcloseStart(t) \/ Inside(t)
  \/ \E n \in Call : InChild(n)

Spec == Init /\ [][Next]_vars

\* Threads and children that can go on do; the program makes the calls it
\* likes.
FairSpec ==
  /\ Spec
  /\ \A t \in Threads : WF_vars(Inside(t))
  /\ \A n \in Call : WF_vars(Exec(n)) /\ WF_vars(Exit(n))

----------------------------------------------------------------------------
(* Properties *)

Descriptor == [pipe : 0 .. MaxCalls, end : {"closed", "std", "r", "w"},
               cloexec : BOOLEAN]

\* The variables have their types (struct pid_node, popen's locals).
TypeOK ==
  /\ popen_lock \in Threads \cup {NoThread}
  /\ malloc_lock \in Threads \cup {NoThread}
  /\ pid_list \in Seq([fd : Fd, pid : Call]) /\ Len(pid_list) <= calls
  /\ fds \in [Fd -> Descriptor]
  /\ \A n \in Call :
       /\ child[n].state \in {"none", "forked", "running", "exited", "reaped"}
       /\ child[n].fds \in [Fd -> Descriptor]
       /\ n > calls => child[n] = NoChild
  /\ streams \subseteq [fd : Fd, call : Call]
  /\ calls \in 0 .. MaxCalls

\* The types hold; every stream that popen returned has one node, with its
\* descriptor and its child, and no two nodes share a descriptor: what pclose
\* finds is its own.  When no call is in progress the open descriptors are the
\* standard ones and those of the streams: no failure leaves an end behind.
ListMatchesStreams ==
  /\ TypeOK
  /\ \A i, j \in DOMAIN pid_list : pid_list[i].fd = pid_list[j].fd => i = j
  /\ \A i \in DOMAIN pid_list :
       /\ fds[pid_list[i].fd].pipe = pid_list[i].pid
       /\ fds[pid_list[i].fd].cloexec
  /\ \A s \in streams : \E i \in DOMAIN pid_list :
       pid_list[i] = [fd |-> s.fd, pid |-> s.call]
  /\ (\A t \in Threads : At(t, "idle")) =>
       \A d \in Fd : fds[d].end \in {"r", "w"} => \E s \in streams : s.fd = d

\* A child whose status was not taken is known to somebody: a node of the
\* list or a call in progress.
NoLostChild == \A n \in Call :
  child[n].state \in {"forked", "running", "exited"} =>
    \/ \E i \in DOMAIN pid_list : pid_list[i].pid = n
    \/ \E t \in Threads : th[t].call = n \/ th[t].pid = n

\* A command runs with its end of its own pipe as standard output or input,
\* and with no other end: the streams of earlier calls are closed in it.
OnItsPipe == \A n \in Call :
  child[n].state = "running" =>
    LET std == IF child[n].mode = "r" THEN 1 ELSE 0
        held == child[n].fds
    IN /\ child[n].mode \in {"r", "w"} =>
            held[std].pipe = n /\ held[std].end # child[n].mode
       /\ \A d \in Fd : held[d].end \in {"r", "w"} => held[d].pipe = n /\ d = std

\* pclose takes the status of the child its stream was opened with, and of no
\* other.
ReapsItsOwn == [][\A n \in Call :
  child[n].state # "reaped" /\ child'[n].state = "reaped" =>
    \E t \in Threads : At(t, "wait") /\ th[t].call = n]_vars

\* Every call returns: popen and pclose get the lock, and the child pclose
\* waits for sees the end of its input and ends.
EveryCallReturns == \A t \in Threads : ~At(t, "idle") ~> At(t, "idle")

=============================================================================
