----------------------------- MODULE StdioList ------------------------------
(***************************************************************************)
(* The streams of a process and their locks (src/c/stdio/stdio.c and the   *)
(* functions that open, close and flush): the list of open FILEs, its spin *)
(* lock, the spin lock of every FILE, and threads that open, write, read,  *)
(* flush, reopen and close streams and call fflush(NULL) or exit.          *)
(*                                                                         *)
(* What a call does to its own stream is in module Stream; here a stream   *)
(* is the bytes in its buffer, numbered as they were put, and the bytes    *)
(* that reached the kernel.  A thread's call is a sequence of steps.  A    *)
(* write takes what it is given, or a part of it, or fails; one that a     *)
(* signal interrupts is tried again, and that is no step.                  *)
(***************************************************************************)
EXTENDS Integers, Sequences, FiniteSets, SequencesExt

CONSTANTS
  Threads,
  Files,      \* the FILEs there is memory for; stdin and stdout among them
  stdin, stdout,
  Null,       \* the NULL pointer: no FILE
  Tty,        \* stdin and stdout are terminals
  BufSize,    \* BUFSIZ, the bytes of a buffer
  Faults,     \* what can go wrong: "write", a write fails before it took
              \* anything of the buffer; "partial", after it took a part
  MaxPut,     \* bound: bytes written to one stream
  MaxCalls    \* bound: calls the threads make

ASSUME StdioListAssumption ==
  /\ {stdin, stdout} \subseteq Files /\ stdin # stdout /\ Null \notin Files
  /\ Tty \in BOOLEAN /\ BufSize \in Nat \ {0} /\ Faults \subseteq {"write", "partial"}
  /\ MaxPut \in Nat /\ MaxCalls \in Nat
  /\ IsFiniteSet(Threads)

VARIABLES
  head,       \* __s_file_list_head
  next,       \* the _next fields
  list_lock,  \* __stdio_list_lock
  lock,       \* the _lock fields
  alive,      \* the FILEs malloc has given and free not taken back
  usable,     \* the FILEs the program has and does not close
  buf,        \* the bytes between _base and _ptr: a stream is dirty when
              \* there are some
  sent,       \* the bytes write took, in its order
  put,        \* how many bytes the program put into the stream
  err,        \* the streams whose __S_ERR is set
  nofd,       \* those whose _fd is -1
  exited,     \* the process has ended
  calls,      \* how many calls have begun
  th          \* each thread: where it is and its local variables

vars == <<head, next, list_lock, lock, alive, usable, buf, sent, put, err,
          nofd, exited, calls, th>>

\* op is the function a thread is in and pc its place there; file is the
\* stream it works on (the loop variable of flush_all and remove_file is
\* p), due says that fputc has still to store its byte, size is how much
\* flush_impl found in the buffer and rest what it has still to write.  mark
\* and failed are there for the properties: what fflush(NULL) owes, for every
\* stream the bytes put before it began, and the streams of the program whose
\* writes failed since.
NoMark == [s \in Files |-> 0]
Idle == [op |-> "none", pc |-> "idle", file |-> Null, p |-> Null,
         due |-> FALSE, size |-> 0, rest |-> <<>>, mark |-> NoMark, failed |-> {}]

Standard == {stdin, stdout}

Init ==
  /\ head = stdin
  /\ next = [s \in Files |-> IF s = stdin THEN stdout ELSE Null]
  /\ list_lock = 0
  /\ lock = [s \in Files |-> 0]
  /\ alive = Standard /\ usable = Standard
  /\ buf = [s \in Files |-> <<>>]
  /\ sent = [s \in Files |-> <<>>]
  /\ put = [s \in Files |-> 0]
  /\ err = {} /\ nofd = {}
  /\ exited = FALSE /\ calls = 0
  /\ th = [t \in Threads |-> Idle]

At(t, place) == ~exited /\ th[t].pc = place
Op(t, ops) == th[t].op \in ops

Goto(t, place) == th' = [th EXCEPT ![t].pc = place]
Return(t) == th' = [th EXCEPT ![t] = Idle]

listvars == <<head, next>>
bytevars == <<buf, sent, put>>
memvars == <<alive, usable>>
filevars == <<err, nofd>>

-----------------------------------------------------------------------------
(* Calls.                                                                  *)

Begin(t, op, s, place) ==
  /\ At(t, "idle") /\ calls < MaxCalls
  /\ calls' = calls + 1
  /\ th' = [th EXCEPT ![t] = [Idle EXCEPT !.op = op, !.pc = place,
                                          !.file = s, !.due = (op = "fputc")]]

\* fopen, fdopen, tmpfile: a FILE is allocated and filled in.  Which one
\* makes no difference: nobody refers to a FILE that is free, and the one
\* freed last may well be the next one malloc gives.
Fopen(t) ==
  LET s == CHOOSE x \in Files \ alive : TRUE IN
  /\ alive # Files
  /\ Begin(t, "fopen", s, "add")
  /\ alive' = alive \cup {s}
  /\ next' = [next EXCEPT ![s] = Null]
  /\ lock' = [lock EXCEPT ![s] = 0]
  /\ buf' = [buf EXCEPT ![s] = <<>>]
  /\ sent' = [sent EXCEPT ![s] = <<>>]
  /\ put' = [put EXCEPT ![s] = 0]
  /\ err' = err \ {s} /\ nofd' = nofd \ {s}
  /\ UNCHANGED <<head, list_lock, usable, exited>>

\* fputc, fflush(stream), getchar: they take the lock of their stream.
Fputc(t) == \E s \in usable \ {stdin} :
  /\ put[s] + Cardinality({u \in Threads : th[u].file = s}) < MaxPut
  /\ Begin(t, "fputc", s, "lock")
  /\ UNCHANGED <<listvars, list_lock, lock, memvars, bytevars, filevars, exited>>

\* Bug: the stream's lock is not taken.
Fflush_unlocked(t) == \E s \in usable :
  /\ Begin(t, "fflush", s, "flush")
  /\ UNCHANGED <<listvars, list_lock, lock, memvars, bytevars, filevars, exited>>

Fflush(t) == \E s \in usable :
  /\ Begin(t, "fflush", s, "lock")
  /\ UNCHANGED <<listvars, list_lock, lock, memvars, bytevars, filevars, exited>>

Getchar(t) ==
  /\ Begin(t, "getchar", stdin, "lock")
  /\ UNCHANGED <<listvars, list_lock, lock, memvars, bytevars, filevars, exited>>

Using(s) == \E u \in Threads : th[u].file = s

\* The program closes a stream nobody else uses, and forgets it.  freopen
\* closes it as well when it cannot open the new file.
Forget(t, op, s, place) ==
  /\ ~Using(s)
  /\ At(t, "idle") /\ calls < MaxCalls
  /\ calls' = calls + 1
  /\ usable' = usable \ {s}
  /\ th' = [u \in Threads |->
              IF u = t THEN [Idle EXCEPT !.op = op, !.pc = place, !.file = s]
              ELSE [th[u] EXCEPT !.mark[s] = 0, !.failed = @ \ {s}]]
  /\ UNCHANGED <<listvars, list_lock, lock, alive, bytevars, filevars, exited>>

\* Bug: the stream stays on the list.
Fclose_listed(t) == \E s \in usable \ Standard :
  Forget(t, "fclose", s, "lock")

Fclose(t) == \E s \in usable \ Standard : Forget(t, "fclose", s, "remove")
Freopen(t) == \E s \in usable \ Standard : Forget(t, "freopen", s, "lock")

\* fflush(NULL), and exit, which ends with it.
FlushAll(t, op) ==
  /\ At(t, "idle") /\ calls < MaxCalls
  /\ calls' = calls + 1
  /\ th' = [th EXCEPT ![t] =
              [Idle EXCEPT !.op = op, !.pc = "all",
                           !.mark = [s \in Files |-> IF s \in usable
                                                     THEN put[s] ELSE 0]]]
  /\ UNCHANGED <<listvars, list_lock, lock, memvars, bytevars, filevars, exited>>

-----------------------------------------------------------------------------
(* __stdio_add_file and __stdio_remove_file.                               *)

\* Bug: the spin ends at once.
ListFree_always == TRUE

\* The spin for the list's lock ends.
ListFree == list_lock = 0

LockList(t, from, to, p) ==
  /\ At(t, from) /\ ListFree
  /\ list_lock' = 1
  /\ th' = [th EXCEPT ![t].pc = to, ![t].p = p]
  /\ UNCHANGED <<listvars, lock, memvars, bytevars, filevars, exited, calls>>

AddLock(t) == LockList(t, "add", "add_next", Null)

AddNext(t) ==
  /\ At(t, "add_next")
  /\ next' = [next EXCEPT ![th[t].file] = head]
  /\ Goto(t, "add_head")
  /\ UNCHANGED <<head, list_lock, lock, memvars, bytevars, filevars, exited, calls>>

AddHead(t) ==
  /\ At(t, "add_head")
  /\ head' = th[t].file
  /\ list_lock' = 0
  /\ usable' = usable \cup {th[t].file}
  /\ Return(t)
  /\ UNCHANGED <<next, lock, alive, bytevars, filevars, exited, calls>>

RemoveLock(t) == LockList(t, "remove", "walk", head)

RemoveWalk(t) ==
  LET f == th[t].file  p == th[t].p IN
  /\ At(t, "walk") /\ head # f /\ p # Null
  /\ next[p] # f
  /\ th' = [th EXCEPT ![t].p = next[p]]
  /\ UNCHANGED <<listvars, list_lock, lock, memvars, bytevars, filevars, exited, calls>>

RemoveUnlink(t) ==
  LET f == th[t].file  p == th[t].p IN
  /\ At(t, "walk")
  /\ \/ head = f /\ head' = next[f] /\ next' = next
     \/ /\ head # f /\ p # Null /\ next[p] = f
        /\ head' = head /\ next' = [next EXCEPT ![p] = next[f]]
     \/ head # f /\ p = Null /\ UNCHANGED listvars
  /\ list_lock' = 0
  /\ th' = [th EXCEPT ![t].pc = "lock", ![t].p = Null, ![t].op = "fclose"]
  /\ UNCHANGED <<lock, memvars, bytevars, filevars, exited, calls>>

-----------------------------------------------------------------------------
(* One stream.                                                             *)

\* The stream a thread works on: in flush_all the one the loop has come to,
\* in getchar, while it flushes, stdout.
Target(t) == CASE Op(t, {"flush_all", "exit"}) -> th[t].p
               [] Op(t, {"getchar"}) -> stdout
               [] OTHER -> th[t].file

\* Bug: the spin ends at once.
StreamFree_always(s) == TRUE

\* The spin for a stream's lock ends.
StreamFree(s) == lock[s] = 0

\* _spin_lock(&stream->_lock)
Lock(t) ==
  LET s == th[t].file IN
  /\ At(t, "lock") /\ StreamFree(s)
  /\ lock' = [lock EXCEPT ![s] = 1]
  /\ Goto(t, CASE Op(t, {"fputc"}) -> "put"
               [] Op(t, {"getchar"}) -> "fill"
               [] OTHER -> "flush")
  /\ UNCHANGED <<listvars, list_lock, memvars, bytevars, filevars, exited, calls>>

\* A buffer that is full, since it could not be written, is flushed first.
\* Then the byte goes into it; a full buffer or a newline flushes it.
Put(t) ==
  LET s == th[t].file IN
  /\ At(t, "put")
  /\ \/ /\ Len(buf[s]) >= BufSize
        /\ Goto(t, "flush")
        /\ UNCHANGED <<put, buf>>
     \/ /\ Len(buf[s]) < BufSize
        /\ put' = [put EXCEPT ![s] = @ + 1]
        /\ buf' = [buf EXCEPT ![s] = Append(@, put[s] + 1)]
        /\ \E place \in {"flush", "unlock"} :
             /\ Len(buf[s]) + 1 = BufSize => place = "flush"
             /\ th' = [th EXCEPT ![t].pc = place, ![t].due = FALSE]
  /\ UNCHANGED <<listvars, list_lock, lock, memvars, sent, filevars, exited, calls>>

After(t) == IF Op(t, {"getchar"}) THEN "read" ELSE IF th[t].due THEN "put" ELSE "unlock"
AfterFailure(t) == IF Op(t, {"getchar"}) THEN "read" ELSE "unlock"

\* flush_impl, step by step: how much there is, write, and the reset of the
\* buffer.
FlushSize(t) ==
  LET s == Target(t) IN
  /\ At(t, "flush")
  /\ IF buf[s] = <<>> THEN Goto(t, After(t))
     ELSE th' = [th EXCEPT ![t].pc = "write", ![t].size = Len(buf[s]), ![t].rest = buf[s]]
  /\ UNCHANGED <<listvars, list_lock, lock, memvars, bytevars, filevars, exited, calls>>

\* write takes n bytes; the loop ends when none are left.
FlushWrite(t) ==
  LET s == Target(t)
      rest == th[t].rest
  IN
  /\ At(t, "write") /\ s \notin nofd
  /\ \E n \in 1 .. Len(rest) :
       /\ sent' = [sent EXCEPT ![s] = @ \o SubSeq(rest, 1, n)]
       /\ th' = [th EXCEPT ![t].pc = IF n = Len(rest) THEN "reset" ELSE "write",
                           ![t].rest = SubSeq(rest, n + 1, Len(rest))]
  /\ UNCHANGED <<listvars, list_lock, lock, memvars, buf, put, filevars, exited, calls>>

\* Bug: the failure is not marked in the stream.
MarkError_not(s) == err' = err

\* f->_flags |= __S_ERR
MarkError(s) == err' = err \cup {s}

\* write fails: the whole buffer is kept.  fputc and fflush return EOF, but
\* nothing looks at the result in flush_all.
FlushFail(t) ==
  LET s == Target(t)
      fault == IF Len(th[t].rest) = th[t].size THEN "write" ELSE "partial"
  IN
  /\ At(t, "write")
  /\ fault \in Faults \/ s \in nofd
  /\ MarkError(s)
  /\ th' = [th EXCEPT ![t].pc = AfterFailure(t),
                      ![t].failed = @ \cup ({s} \cap usable)]
  /\ UNCHANGED <<listvars, list_lock, lock, memvars, bytevars, nofd, exited, calls>>

FlushReset(t) ==
  /\ At(t, "reset")
  /\ buf' = [buf EXCEPT ![Target(t)] = <<>>]
  /\ Goto(t, After(t))
  /\ UNCHANGED <<listvars, list_lock, lock, memvars, sent, put, filevars, exited, calls>>

\* Bug: freopen closes the stream while it holds its lock.
CloseReopened_locked(t, s) ==
  /\ nofd' = nofd \cup {s}
  /\ Goto(t, "remove") /\ UNCHANGED <<lock, usable, bytevars, err>>

\* freopen could not open the file: it unlocks, and closes the stream, whose
\* descriptor is closed already.
CloseReopened(t, s) ==
  /\ nofd' = nofd \cup {s}
  /\ lock' = [lock EXCEPT ![s] = 0]
  /\ Goto(t, "remove")
  /\ UNCHANGED <<usable, bytevars, err>>

\* It could: what the buffer still has is dropped, and the stream writes to
\* another file.
Reopened(t, s) ==
  /\ lock' = [lock EXCEPT ![s] = 0]
  /\ usable' = usable \cup {s}
  /\ buf' = [buf EXCEPT ![s] = <<>>]
  /\ sent' = [sent EXCEPT ![s] = <<>>]
  /\ put' = [put EXCEPT ![s] = 0]
  /\ err' = err \ {s} /\ nofd' = nofd
  /\ Return(t)

\* _spin_unlock(&stream->_lock), and what the function does then.
Unlock(t) ==
  LET s == th[t].file IN
  /\ At(t, "unlock") /\ ~Op(t, {"flush_all", "exit"})
  /\ \/ /\ lock' = [lock EXCEPT ![s] = 0]
        /\ \/ Op(t, {"fputc", "fflush", "getchar"}) /\ Return(t)
           \/ Op(t, {"fclose"}) /\ Goto(t, "free")
        /\ UNCHANGED <<usable, bytevars, filevars>>
     \/ Op(t, {"freopen"}) /\ Reopened(t, s)
     \/ Op(t, {"freopen"}) /\ CloseReopened(t, s)
  /\ UNCHANGED <<listvars, list_lock, alive, exited, calls>>

\* fclose frees the buffer and the FILE.
Free(t) ==
  /\ At(t, "free")
  /\ alive' = alive \ {th[t].file}
  /\ Return(t)
  /\ UNCHANGED <<listvars, list_lock, lock, usable, bytevars, filevars, exited, calls>>

\* fill_impl flushes stdout before it reads from a terminal; stdout is then
\* line buffered.
FillStart(t) ==
  /\ At(t, "fill")
  /\ Goto(t, IF Tty THEN "flush" ELSE "read")
  /\ UNCHANGED <<listvars, list_lock, lock, memvars, bytevars, filevars, exited, calls>>

\* read returns: there was input.
FillRead(t) ==
  /\ At(t, "read")
  /\ Goto(t, "unlock")
  /\ UNCHANGED <<listvars, list_lock, lock, memvars, bytevars, filevars, exited, calls>>

-----------------------------------------------------------------------------
(* __stdio_flush_all                                                       *)

AllLock(t) == LockList(t, "all", "each", head)

\* Bug: a stream that is locked is passed over.
AllFile_trylock(t) ==
  LET p == th[t].p IN
  /\ At(t, "each") /\ p # Null
  /\ IF StreamFree(p) THEN lock' = [lock EXCEPT ![p] = 1] /\ Goto(t, "flush")
     ELSE lock' = lock /\ th' = [th EXCEPT ![t].p = next[p]]
  /\ UNCHANGED <<listvars, list_lock, memvars, bytevars, filevars, exited, calls>>

\* The next stream of the list is locked, whatever it is used for.
AllFile(t) ==
  LET p == th[t].p IN
  /\ At(t, "each") /\ p # Null /\ StreamFree(p)
  /\ lock' = [lock EXCEPT ![p] = 1]
  /\ Goto(t, "flush")
  /\ UNCHANGED <<listvars, list_lock, memvars, bytevars, filevars, exited, calls>>

AllUnlock(t) ==
  LET p == th[t].p IN
  /\ At(t, "unlock") /\ Op(t, {"flush_all", "exit"})
  /\ lock' = [lock EXCEPT ![p] = 0]
  /\ th' = [th EXCEPT ![t].pc = "each", ![t].p = next[p]]
  /\ UNCHANGED <<listvars, list_lock, memvars, bytevars, filevars, exited, calls>>

\* fflush(NULL) returns; exit ends the process.
AllEnd(t) ==
  /\ At(t, "each") /\ th[t].p = Null
  /\ list_lock' = 0
  /\ exited' = Op(t, {"exit"})
  /\ Return(t)
  /\ UNCHANGED <<listvars, lock, memvars, bytevars, filevars, calls>>

-----------------------------------------------------------------------------

Call(t) ==
  \/ Fopen(t) \/ Fputc(t) \/ Fflush(t) \/ Getchar(t) \/ Fclose(t)
  \/ Freopen(t) \/ FlushAll(t, "flush_all") \/ FlushAll(t, "exit")

Inside(t) ==
  \/ AddLock(t) \/ AddNext(t) \/ AddHead(t)
  \/ RemoveLock(t) \/ RemoveWalk(t) \/ RemoveUnlink(t)
  \/ Lock(t) \/ Put(t) \/ FlushSize(t) \/ FlushWrite(t) \/ FlushFail(t) \/ FlushReset(t)
  \/ Unlock(t) \/ Free(t) \/ FillStart(t) \/ FillRead(t)
  \/ AllLock(t) \/ AllFile(t) \/ AllUnlock(t) \/ AllEnd(t)

\* The program makes no more calls, or is no more.
Finished ==
  /\ exited \/ (calls = MaxCalls /\ \A t \in Threads : th[t].pc = "idle")
  /\ UNCHANGED vars

Next == (\E t \in Threads : Call(t) \/ Inside(t)) \/ Finished

Spec == Init /\ [][Next]_vars

\* Every thread runs, and input arrives.
FairSpec == Spec /\ \A t \in Threads : WF_vars(Inside(t))

-----------------------------------------------------------------------------
(* Correctness.                                                            *)

Places == {"idle", "add", "add_next", "add_head", "remove", "walk", "lock",
           "put", "flush", "write", "reset", "unlock", "free", "fill",
           "read", "all", "each"}

\* Every variable has its type.
TypeOK ==
  /\ head \in Files \cup {Null} /\ next \in [Files -> Files \cup {Null}]
  /\ list_lock \in {0, 1} /\ lock \in [Files -> {0, 1}]
  /\ usable \subseteq alive /\ alive \subseteq Files
  /\ buf \in [Files -> Seq(1 .. MaxPut)] /\ sent \in [Files -> Seq(1 .. MaxPut)]
  /\ put \in [Files -> 0 .. MaxPut]
  /\ err \subseteq Files /\ nofd \subseteq Files
  /\ exited \in BOOLEAN /\ calls \in 0 .. MaxCalls
  /\ \A t \in Threads : th[t].pc \in Places

\* Where a thread holds the list's lock, and where that of a stream.
HoldsList(t) ==
  \/ th[t].pc \in {"add_next", "add_head", "walk"}
  \/ Op(t, {"flush_all", "exit"}) /\ th[t].pc # "all"

Holds(t, s) ==
  /\ th[t].pc \in {"put", "flush", "write", "reset", "unlock", "fill", "read"}
  /\ s = IF Op(t, {"flush_all", "exit"}) THEN th[t].p ELSE th[t].file

\* The types hold, and the locks are taken exactly by those who hold them,
\* one at a time.
LocksHeld ==
  /\ TypeOK
  /\ list_lock = Cardinality({t \in Threads : HoldsList(t)})
  /\ \A s \in Files : lock[s] = Cardinality({t \in Threads : Holds(t, s)})

\* flush_all never comes to a FILE that fclose has freed (fclose.c:14-15),
\* nor does anybody else.
NoUseAfterFree ==
  \A t \in Threads : {th[t].file, th[t].p} \subseteq alive \cup {Null}

\* What head and next lead to: the least set that is closed under them.
Reached ==
  {s \in Files : \A S \in SUBSET Files :
     /\ head \in S \cup {Null}
     /\ \A x \in S : next[x] \in S \cup {Null}
     => s \in S}

\* No FILE is lost from the list, or stays on it, when threads open and
\* close at the same time.
Joining == {th[t].file : t \in {u \in Threads :
              th[u].pc \in {"add", "add_next", "add_head"}}}
Leaving == {th[t].file : t \in {u \in Threads :
              Op(u, {"fclose"}) /\ th[u].pc \notin {"remove", "walk"}}}

ListExact == Reached = alive \ (Joining \cup Leaving)

\* The bytes of a stream reach the kernel once and in order, whoever flushes
\* it, and a byte that did not is still in the buffer.
SentOnceInOrder ==
  /\ \A s \in Files : sent[s] = [i \in 1 .. Len(sent[s]) |-> i]
  /\ \A s \in usable :
       lock[s] = 0 => sent[s] \o buf[s] = [i \in 1 .. put[s] |-> i]

\* When fflush(NULL) returns, or exit ends the process, every byte put
\* before the call has been written, on every stream that nobody closes,
\* unless a write of that stream failed in the call: then its error
\* indicator is set, though fflush(NULL) returns 0.
FlushAllStores ==
  [][\A t \in Threads : AllEnd(t) =>
       \A s \in Files : \/ Len(sent[s]) >= th[t].mark[s]
                        \/ s \in th[t].failed \cap err]_vars

\* Every call comes to its end, of which the program makes finitely many: no
\* order of the list's lock, the streams' locks and freopen's fclose makes
\* threads wait for each other, and no write that fails makes one go round.
EveryCallReturns == <>[](exited \/ \A t \in Threads : th[t].pc = "idle")
=============================================================================
