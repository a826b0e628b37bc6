-------------------------- MODULE SessionDirProofs --------------------------
(***************************************************************************)
(* For any number of processes, pids, revisions and queued writes: whoever *)
(* has the auth state of a session open holds its lock, what is gone does  *)
(* not come back, and what is on disk goes together.  For any cap and pace *)
(* of the sweeps, and any number of messages: those that retries need are  *)
(* kept, and the others do not pile up.                                    *)
(***************************************************************************)
EXTENDS SessionDir, OutgoingStore, Integers, SequenceTheorems,
        FiniteSetTheorems, TLAPS

(* Memory belongs to running processes, and a pid to one of them.          *)
ProcessInv ==
  /\ pid \in [Boot -> Pid \cup {NoPid}]
  /\ pc \in [Boot -> {"closed", "claiming", "loading", "open"}]
  /\ held \in [Boot -> BOOLEAN]
  /\ \A b \in Boot : Running(b) => b \in spent
  /\ \A b \in Boot : pc[b] # "closed" \/ held[b] => Running(b)
  /\ \A b \in Boot : HasOpen(b) => held[b]
  /\ \A b, c \in Boot : Running(b) /\ pid[b] = pid[c] => b = c
  /\ \A l \in lockFile : l.boot \in spent
  /\ \A b \in Boot : Running(b) /\ Holder(b) \in lockFile => held[b]

(* What a process believes to hold, it holds; who claims, claims alone and *)
(* from nobody.                                                            *)
Exclusive ==
  /\ \A b \in Boot : held[b] => lockFile = {Holder(b)}
  /\ \A b, c \in Boot : pc[b] = "claiming" => ~held[c]
  /\ \A b, c \in Boot : pc[b] = "claiming" /\ pc[c] = "claiming" => b = c

LockInv == ProcessInv /\ (excused \cap {"raced", "stolen"} = {} => Exclusive)

LEMMA LockInvInit == DirInit => LockInv
  BY NoPidAssumption DEF DirInit, LockInv, ProcessInv, Exclusive, Running, HasOpen

(* A claim finds nobody who holds the lock.                                *)
LEMMA ClaimFromNobody ==
  ASSUME ProcessInv, Exclusive, NEW b \in Boot, Running(b),
         lockFile # {Holder(b)}, \A l \in lockFile : l.pid = pid[b] \/ ~IsPidAlive(l.pid)
  PROVE  \A c \in Boot : ~held[c]
<1> SUFFICES ASSUME NEW c \in Boot, held[c] PROVE FALSE
  OBVIOUS
<1>1. lockFile = {Holder(c)} /\ Holder(c).pid = pid[c]
  BY DEF Exclusive, Holder
<1>2. b # c
  BY <1>1
<1>3. IsPidAlive(pid[c])
  BY DEF IsPidAlive
<1>4. pid[c] = pid[b]
  BY <1>1, <1>3
<1>. QED
  BY <1>2, <1>4 DEF ProcessInv, Running

LEMMA StepBoots ==
  ASSUME LockInv, NEW b \in Boot, Boots(b) PROVE LockInv'
<1>1. ~held[b] /\ ~Running(b) /\ pc[b] = "closed" /\ Holder(b)' \notin lockFile
  BY DEF LockInv, ProcessInv, Boots, Holder
<1>2. PICK p \in Pid : ~IsPidAlive(p) /\ pid' = [pid EXCEPT ![b] = p]
  BY DEF Boots
<1>3. ProcessInv'
  BY <1>1, <1>2, NoPidAssumption
     DEF LockInv, ProcessInv, Boots, Running, HasOpen, IsPidAlive, Holder
<1>4. excused' \cap {"raced", "stolen"} = {} => Exclusive'
  BY <1>1, <1>2 DEF LockInv, ProcessInv, Exclusive, Boots, Holder
<1>. QED
  BY <1>3, <1>4 DEF LockInv

LEMMA StepExits ==
  ASSUME LockInv, NEW b \in Boot, Exits(b) PROVE LockInv'
<1>1. ProcessInv'
  BY NoPidAssumption DEF LockInv, ProcessInv, Exits, Running, HasOpen, Holder
<1>2. excused' \cap {"raced", "stolen"} = {} => Exclusive'
  BY DEF LockInv, ProcessInv, Exclusive, Exits, Holder
<1>. QED
  BY <1>1, <1>2 DEF LockInv

LEMMA StepStart ==
  ASSUME LockInv, NEW b \in Boot, StartOwned(b) PROVE LockInv'
<1>. Running(b) /\ pid' = pid /\ lockFile' = lockFile /\ spent' = spent
  BY DEF StartOwned
<1>1. CASE /\ lockFile = {Holder(b)} /\ pc' = [pc EXCEPT ![b] = "loading"]
           /\ held' = [held EXCEPT ![b] = TRUE] /\ UNCHANGED excused
  <2>1. held[b] /\ held' = held
    BY <1>1 DEF LockInv, ProcessInv
  <2>. QED
    BY <1>1, <2>1 DEF LockInv, ProcessInv, Exclusive, Running, HasOpen, Holder
<1>2. CASE /\ lockFile # {Holder(b)}
           /\ \A l \in lockFile : l.pid = pid[b] \/ ~IsPidAlive(l.pid)
           /\ pc' = [pc EXCEPT ![b] = "claiming"]
           /\ excused' = IF \E c \in Boot : pc[c] = "claiming"
                         THEN excused \cup {"raced"} ELSE excused
           /\ UNCHANGED held
  <2>1. ProcessInv'
    BY <1>2 DEF LockInv, ProcessInv, Running, HasOpen, Holder
  <2>2. ASSUME excused' \cap {"raced", "stolen"} = {} PROVE Exclusive'
    <3>1. Exclusive /\ \A c \in Boot : pc[c] # "claiming"
      BY <1>2, <2>2 DEF LockInv
    <3>2. \A c \in Boot : ~held[c]
      BY <1>2, <3>1, ClaimFromNobody DEF LockInv
    <3>. QED
      BY <1>2, <3>1, <3>2 DEF LockInv, ProcessInv, Exclusive
  <2>. QED
    BY <2>1, <2>2 DEF LockInv
<1>3. CASE pc' = [pc EXCEPT ![b] = "closed"] /\ UNCHANGED <<held, excused>>
  BY <1>3 DEF LockInv, ProcessInv, Exclusive, Running, HasOpen, Holder
<1>. QED
  BY <1>1, <1>2, <1>3 DEF StartOwned

LEMMA StepClaimLock ==
  ASSUME LockInv, NEW b \in Boot, ClaimLock(b) PROVE LockInv'
<1>1. Running(b)
  BY DEF LockInv, ProcessInv, ClaimLock
<1>2. ProcessInv'
  BY <1>1 DEF LockInv, ProcessInv, ClaimLock, Running, HasOpen, Holder
<1>3. excused' \cap {"raced", "stolen"} = {} => Exclusive'
  BY DEF LockInv, ProcessInv, Exclusive, ClaimLock, Holder
<1>. QED
  BY <1>2, <1>3 DEF LockInv

LEMMA StepClosed ==
  ASSUME LockInv, NEW b \in Boot, Closed(b), lockFile' = Released(b),
         UNCHANGED <<pid, spent, excused>>
  PROVE  LockInv'
<1>1. ProcessInv'
  BY DEF LockInv, ProcessInv, Closed, Released, Running, HasOpen, Holder
<1>2. ASSUME excused \cap {"raced", "stolen"} = {} PROVE Exclusive'
  <2>1. Exclusive
    BY <1>2 DEF LockInv
  <2>2. CASE held[b]
    <3>1. \A c \in Boot : Holder(c).boot = c
      BY DEF Holder
    <3>2. \A c \in Boot : held[c] => Holder(c) = Holder(b)
      BY <2>1, <2>2 DEF Exclusive
    <3>3. \A c \in Boot : held[c] => c = b
      BY <3>1, <3>2
    <3>. QED
      BY <2>1, <3>3 DEF LockInv, ProcessInv, Exclusive, Closed
  <2>3. CASE ~held[b]
    BY <2>1, <2>3 DEF LockInv, ProcessInv, Exclusive, Closed, Released, Holder
  <2>. QED
    BY <2>2, <2>3
<1>. QED
  BY <1>1, <1>2 DEF LockInv

LEMMA StepRemoved ==
  ASSUME LockInv, NEW b \in Boot, Closed(b), Removed(b),
         UNCHANGED <<pid, spent>>
  PROVE  LockInv'
<1>1. ProcessInv'
  BY DEF LockInv, ProcessInv, Closed, Removed, Running, HasOpen, Holder
<1>2. ASSUME excused' \cap {"raced", "stolen"} = {} PROVE Exclusive'
  <2>1. Exclusive /\ \A c \in Boot \ {b} : ~held[c]
    BY <1>2 DEF LockInv, Removed
  <2>. QED
    BY <2>1 DEF LockInv, ProcessInv, Exclusive, Closed
<1>. QED
  BY <1>1, <1>2 DEF LockInv

(* Loading, writing and the rest leave lock and claims alone.              *)
LEMMA StepLoad ==
  ASSUME LockInv, NEW b \in Boot, Load(b) \/ OpenThrows(b) PROVE LockInv'
<1>1. excused' \cap {"raced", "stolen"} = excused \cap {"raced", "stolen"}
  BY DEF Load, OpenThrows
<1>2. /\ UNCHANGED <<pid, spent, lockFile, held>> /\ pc[b] = "loading"
      /\ \E x \in {"open", "closed"} : pc' = [pc EXCEPT ![b] = x]
  BY DEF Load, OpenThrows
<1>. QED
  BY <1>1, <1>2 DEF LockInv, ProcessInv, Exclusive, Running, HasOpen, Holder

LEMMA StepElse ==
  ASSUME LockInv, UNCHANGED <<pid, spent, lockFile, pc, held>>,
         excused' \cap {"raced", "stolen"} = excused \cap {"raced", "stolen"}
  PROVE  LockInv'
  BY DEF LockInv, ProcessInv, Exclusive, Running, HasOpen, Holder

LEMMA LockInvStep == LockInv /\ [DirNext]_dirVars => LockInv'
<1>. SUFFICES ASSUME LockInv, [DirNext]_dirVars PROVE LockInv'
  OBVIOUS
<1>1. CASE UNCHANGED dirVars
  BY <1>1, StepElse DEF dirVars
<1>2. ASSUME NEW p \in Pid, ForeignProgram(p) PROVE LockInv'
  BY <1>2, StepElse DEF ForeignProgram
<1>3. ASSUME NEW b \in Boot, Pairs(b) \/ SetKeys(b) PROVE LockInv'
  BY <1>3, StepElse DEF Pairs, SetKeys
<1>4. ASSUME NEW b \in Boot,
             WriteTemporary(b) \/ Rename(b) \/ StoreMessage(b) PROVE LockInv'
  BY <1>4, StepElse DEF WriteTemporary, Rename, StoreMessage
<1>5. ASSUME NEW b \in Boot, WriteFails(b) PROVE LockInv'
  BY <1>5, StepElse DEF WriteFails
<1>6. ASSUME NEW b \in Boot, StopSession(b) \/ StopKeeping(b) PROVE LockInv'
  BY <1>6, StepClosed DEF StopSession, StopKeeping
<1>7. ASSUME NEW b \in Boot, Purge(b) \/ Migrate(b) PROVE LockInv'
  BY <1>7, StepRemoved DEF Purge, Migrate
<1>. HIDE DEF Boots, Exits, StartOwned, ClaimLock, Load, OpenThrows, Pairs, SetKeys,
  WriteTemporary, Rename, WriteFails, StopSession, StopKeeping, Purge, Migrate,
  StoreMessage, ForeignProgram, LockInv
<1>. QED
  BY <1>1, <1>2, <1>3, <1>4, <1>5, <1>6, <1>7, StepBoots, StepExits, StepStart,
     StepClaimLock, StepLoad DEF DirNext

LEMMA LockInvImplies == LockInv => OpenersHoldLock
  BY DEF LockInv, ProcessInv, Exclusive, OpenersHoldLock

(* As long as no two processes claim at once and nobody removes another's  *)
(* directory, the lock belongs to whoever has the auth state open.         *)
THEOREM OpenersHoldLockTheorem == DirSpec => []OpenersHoldLock
<1>. HIDE DEF LockInv, OpenersHoldLock, DirInit, DirNext, dirVars
<1>. QED
  BY LockInvInit, LockInvStep, LockInvImplies, PTL DEF DirSpec
-----------------------------------------------------------------------------
(***************************************************************************)
(* What the processes have in memory and still write.                      *)
(***************************************************************************)
Value == [id : Nat, rev : Nat]
Write == [files : {<<"creds">>, <<"k1", "k2">>, <<"k2">>}, val : Value, live : BOOLEAN]

(* Only an open session has an auth state, and a task that follows it.     *)
DataOK ==
  /\ file \in [File -> SUBSET Value] /\ drawn \in Nat
  /\ \A m, k \in file["creds"] : m = k
  /\ tmp \in [Boot -> SUBSET Value] /\ mem \in [Boot -> SUBSET Value]
  /\ queue \in [Boot -> Seq(Write)]
  /\ \A b \in Boot :
       /\ pc[b] = "open" <=> mem[b] # {}
       /\ \A m, k \in mem[b] : m = k
       /\ \A m, k \in tmp[b] : m = k
       /\ queue[b] = <<>> => tmp[b] = {}
       /\ pc[b] # "open" => \A i \in DOMAIN queue[b] : ~queue[b][i].live

(* Sequences: their head and tail, an element more, another head.          *)
LEMMA Ends ==
  ASSUME NEW S, NEW s \in Seq(S), s # <<>>
  PROVE  /\ 1 \in DOMAIN s /\ Head(s) = s[1] /\ Head(s) \in S /\ Tail(s) \in Seq(S)
         /\ \A i \in DOMAIN Tail(s) : i \in Nat /\ i + 1 \in DOMAIN s /\ Tail(s)[i] = s[i + 1]
         /\ \A i \in DOMAIN s : i # 1 => i - 1 \in DOMAIN Tail(s) /\ i - 1 + 1 = i
  OBVIOUS

LEMMA Appended ==
  ASSUME NEW S, NEW s \in Seq(S), NEW e \in S
  PROVE  LET r == Append(s, e) IN
         /\ r \in Seq(S) /\ r # <<>> /\ DOMAIN r = DOMAIN s \cup {Len(s) + 1}
         /\ \A i \in DOMAIN s : r[i] = s[i]
         /\ r[Len(s) + 1] = e /\ Len(s) + 1 \notin DOMAIN s /\ Len(s) + 1 \in Nat
  OBVIOUS

LEMMA Beheaded ==
  ASSUME NEW S, NEW s \in Seq(S), s # <<>>, NEW e \in S
  PROVE  LET r == <<e>> \o Tail(s) IN
         /\ r \in Seq(S) /\ r # <<>> /\ DOMAIN r = DOMAIN s
         /\ r[1] = e /\ \A i \in DOMAIN s : i # 1 => r[i] = s[i]
<1> DEFINE r == <<e>> \o Tail(s)
<1>1. <<e>> \in Seq(S) /\ Tail(s) \in Seq(S) /\ Len(s) \in Nat \ {0} /\ Len(Tail(s)) = Len(s) - 1
  OBVIOUS
<1>2. r \in Seq(S) /\ Len(r) = Len(s)
  BY <1>1
<1>3. r[1] = e
  BY <1>1
<1>4. ASSUME NEW i \in 2..Len(s) PROVE r[i] = s[i]
  <2>1. r[i] = Tail(s)[i - 1] /\ i - 1 \in 1..Len(Tail(s))
    BY <1>1
  <2> QED
    BY <1>1, <2>1
<1> QED
  BY <1>1, <1>2, <1>3, <1>4

(* A frozen queue has the same tasks, none of them live; one that wrote    *)
(* the creds object writes what it was.                                    *)
LEMMA FrozenQueue ==
  ASSUME DataOK, NEW b \in Boot
  PROVE  /\ Frozen(b) \in Seq(Write) /\ DOMAIN Frozen(b) = DOMAIN queue[b]
         /\ queue[b] = <<>> <=> Frozen(b) = <<>>
         /\ \A i \in DOMAIN queue[b] :
              /\ ~Frozen(b)[i].live /\ Frozen(b)[i].files = queue[b][i].files
              /\ IF queue[b][i].live /\ queue[b][i].files = <<"creds">>
                 THEN Frozen(b)[i].val \in mem[b]
                 ELSE Frozen(b)[i].val = queue[b][i].val
<1> DEFINE Freeze(t) == IF t.live
                        THEN [t EXCEPT !.live = FALSE,
                                       !.val = IF t.files[1] = "creds"
                                               THEN CHOOSE m \in mem[b] : TRUE
                                               ELSE t.val]
                        ELSE t
<1>1. /\ queue[b] \in Seq(Write) /\ DOMAIN queue[b] = 1..Len(queue[b])
      /\ Len(queue[b]) \in Nat /\ \A i \in DOMAIN queue[b] : queue[b][i] \in Write
  BY DEF DataOK
<1>2. Frozen(b) = [i \in DOMAIN queue[b] |-> Freeze(queue[b][i])]
  BY DEF Frozen
<1>3. ASSUME NEW i \in DOMAIN queue[b]
      PROVE  LET t == queue[b][i] IN
             /\ Freeze(t) \in Write /\ ~Freeze(t).live /\ Freeze(t).files = t.files
             /\ IF t.live /\ t.files = <<"creds">>
                THEN Freeze(t).val \in mem[b] ELSE Freeze(t).val = t.val
  <2> DEFINE t == queue[b][i]
  <2>1. t \in Write
    BY <1>1
  <2>2. CASE ~t.live
    BY <2>1, <2>2
  <2>3. CASE t.live /\ t.files = <<"creds">>
    <3>1. mem[b] # {} /\ mem[b] \subseteq Value
      BY <2>3 DEF DataOK
    <3>2. (CHOOSE m \in mem[b] : TRUE) \in mem[b]
      BY <3>1
    <3>3. Freeze(t) = [t EXCEPT !.live = FALSE, !.val = CHOOSE m \in mem[b] : TRUE]
      BY <2>3
    <3> QED
      BY <2>1, <2>3, <3>1, <3>2, <3>3 DEF Write
  <2>4. CASE t.live /\ t.files # <<"creds">>
    <3>1. t.files[1] # "creds"
      BY <2>1, <2>4 DEF Write
    <3>2. Freeze(t) = [t EXCEPT !.live = FALSE, !.val = t.val]
      BY <2>4, <3>1
    <3> QED
      BY <2>1, <2>4, <3>2 DEF Write
  <2> QED
    BY <2>2, <2>3, <2>4
<1> HIDE DEF Freeze
<1>4. Frozen(b) \in Seq(Write) /\ DOMAIN Frozen(b) = DOMAIN queue[b]
  BY <1>1, <1>2, <1>3
<1> QED
  BY <1>1, <1>2, <1>3, <1>4

Creds(v) == [files |-> <<"creds">>, val |-> v, live |-> TRUE]
HalfDone(t) == [files |-> <<"k2">>, val |-> t.val, live |-> t.live]

(* A rename ends the first of two key files, the last file of a task, or   *)
(* the keys of the session that is still open.                             *)
LEMMA RenameCases ==
  ASSUME DataOK, NEW b \in Boot, Rename(b)
  PROVE  LET t == queue[b][1] IN
         /\ queue[b] # <<>> /\ tmp[b] # {} /\ t \in Write
         /\ \/ /\ t.files = <<"k1", "k2">> /\ file' = [file EXCEPT !["k1"] = tmp[b]]
               /\ queue' = [queue EXCEPT ![b] = <<HalfDone(t)>> \o Tail(queue[b])]
               /\ mem' = mem
            \/ /\ t.files = <<"creds">> /\ file' = [file EXCEPT !["creds"] = tmp[b]]
               /\ queue' = [queue EXCEPT ![b] = Tail(queue[b])]
               /\ mem' = mem
            \/ /\ t.files = <<"k2">> /\ file' = [file EXCEPT !["k2"] = tmp[b]]
               /\ \/ /\ ~t.live
                     /\ queue' = [queue EXCEPT ![b] = Tail(queue[b])] /\ mem' = mem
                  \/ /\ t.live
                     /\ queue' = [queue EXCEPT ![b] = Append(Tail(queue[b]), Creds(t.val))]
                     /\ mem' = [mem EXCEPT ![b] = {t.val}]
<1> DEFINE t == queue[b][1]
<1>1. queue[b] \in Seq(Write) /\ queue[b] # <<>> /\ tmp[b] # {}
  BY DEF DataOK, Rename
<1>2. Head(queue[b]) = t /\ t \in Write
  BY <1>1, Ends
<1>3. /\ file' = [file EXCEPT ![t.files[1]] = tmp[b]]
      /\ \/ /\ Len(t.files) > 1
            /\ queue' = [queue EXCEPT ![b] = <<[t EXCEPT !.files = Tail(t.files)]>> \o Tail(queue[b])]
            /\ mem' = mem
         \/ /\ Len(t.files) = 1
            /\ IF t.live /\ t.files[1] # "creds"
               THEN /\ mem' = [mem EXCEPT ![b] = {t.val}]
                    /\ queue' = [queue EXCEPT ![b] =
                                   Append(Tail(queue[b]), Credentials(b, t.val))]
               ELSE /\ queue' = [queue EXCEPT ![b] = Tail(queue[b])]
                    /\ mem' = mem
  BY <1>2 DEF Rename
<1>4. Credentials(b, t.val) = Creds(t.val)
  BY DEF Credentials, Creds
<1> HIDE DEF t
<1>5. CASE t.files = <<"k1", "k2">>
  <2>1. /\ Len(t.files) = 2 /\ t.files[1] = "k1" /\ Tail(t.files) = <<"k2">>
    BY <1>5
  <2>2. [t EXCEPT !.files = <<"k2">>] = HalfDone(t)
    BY <1>2 DEF Write, HalfDone
  <2> QED
    BY <1>1, <1>2, <1>3, <1>5, <2>1, <2>2 DEF t
<1>6. CASE t.files = <<"creds">>
  <2>1. Len(t.files) = 1 /\ t.files[1] = "creds"
    BY <1>6
  <2> QED
    BY <1>1, <1>2, <1>3, <1>6, <2>1 DEF t
<1>7. CASE t.files = <<"k2">>
  <2>1. Len(t.files) = 1 /\ t.files[1] = "k2"
    BY <1>7
  <2> QED
    BY <1>1, <1>2, <1>3, <1>4, <1>7, <2>1 DEF t
<1> QED
  BY <1>2, <1>5, <1>6, <1>7 DEF Write

LEMMA DataInit == DirInit => DataOK
<1>1. <<>> \in Seq(Write) /\ DOMAIN <<>> = {}
  OBVIOUS
<1> QED
  BY <1>1 DEF DirInit, DataOK, File

(* Where a step leaves queue and memory of other processes alone, it       *)
(* suffices to look at its own.                                            *)
LEMMA DataKeeps ==
  ASSUME DataOK, NEW b \in Boot, file' \in [File -> SUBSET Value], drawn' \in Nat,
         \A m, k \in file'["creds"] : m = k,
         tmp' \in [Boot -> SUBSET Value],
         \A c \in Boot \ {b} : tmp'[c] = tmp[c] \/ tmp'[c] = {},
         mem' = [mem EXCEPT ![b] = mem'[b]], mem'[b] \in SUBSET Value,
         queue' = [queue EXCEPT ![b] = queue'[b]], queue'[b] \in Seq(Write),
         \A c \in Boot \ {b} : pc'[c] = pc[c],
         pc'[b] = "open" <=> mem'[b] # {},
         \A m, k \in mem'[b] : m = k,
         \A m, k \in tmp'[b] : m = k,
         queue'[b] = <<>> => tmp'[b] = {},
         pc'[b] # "open" => \A i \in DOMAIN queue'[b] : ~queue'[b][i].live
  PROVE  DataOK'
<1>1. mem' \in [Boot -> SUBSET Value] /\ queue' \in [Boot -> Seq(Write)]
  BY DEF DataOK
<1>2. \A c \in Boot : c # b =>
        mem'[c] = mem[c] /\ queue'[c] = queue[c] /\ pc'[c] = pc[c]
  BY DEF DataOK
<1>3. ASSUME NEW c \in Boot
      PROVE  /\ pc'[c] = "open" <=> mem'[c] # {}
             /\ \A m, k \in mem'[c] : m = k
             /\ \A m, k \in tmp'[c] : m = k
             /\ queue'[c] = <<>> => tmp'[c] = {}
             /\ pc'[c] # "open" => \A i \in DOMAIN queue'[c] : ~queue'[c][i].live
  <2>1. CASE c = b
    BY <2>1, Zenon
  <2>2. CASE c # b
    <3>1. /\ mem'[c] = mem[c] /\ queue'[c] = queue[c] /\ pc'[c] = pc[c]
          /\ tmp'[c] = tmp[c] \/ tmp'[c] = {}
      BY <1>2, <2>2
    <3>2. /\ pc[c] = "open" <=> mem[c] # {}
          /\ \A m, k \in mem[c] : m = k
          /\ \A m, k \in tmp[c] : m = k
          /\ queue[c] = <<>> => tmp[c] = {}
          /\ pc[c] # "open" => \A i \in DOMAIN queue[c] : ~queue[c][i].live
      BY DEF DataOK
    <3>3. /\ \A m, k \in tmp'[c] : m = k
          /\ queue[c] = <<>> => tmp'[c] = {}
      BY <3>1, <3>2
    <3> QED
      BY <3>1, <3>2, <3>3, Zenon
  <2> QED
    BY <2>1, <2>2
<1> QED
  BY <1>1, <1>3 DEF DataOK

(* What the head of a queue writes is at most one value.                   *)
LEMMA BodyValue ==
  ASSUME DataOK, NEW b \in Boot, queue[b] # <<>>
  PROVE  LET t == queue[b][1] IN
         /\ t \in Write
         /\ Body(b) \in SUBSET Value /\ \A m, k \in Body(b) : m = k
         /\ Body(b) = IF t.live /\ t.files = <<"creds">> THEN mem[b] ELSE {t.val}
<1>1. queue[b] \in Seq(Write)
  BY DEF DataOK
<1>2. Head(queue[b]) = queue[b][1] /\ queue[b][1] \in Write
  BY <1>1, Ends
<1>3. \A t \in Write : t.files[1] = "creds" <=> t.files = <<"creds">>
  BY DEF Write
<1>4. Body(b) = IF queue[b][1].live /\ queue[b][1].files = <<"creds">>
                THEN mem[b] ELSE {queue[b][1].val}
  BY <1>2, <1>3 DEF Body
<1>5. mem[b] \in SUBSET Value /\ (\A m, k \in mem[b] : m = k) /\ queue[b][1].val \in Value
  BY <1>2 DEF DataOK, Write
<1> QED
  BY <1>2, <1>4, <1>5

LEMMA DataStep == LockInv /\ DataOK /\ [DirNext]_dirVars => DataOK'
<1> SUFFICES ASSUME LockInv, DataOK, [DirNext]_dirVars PROVE DataOK'
  OBVIOUS
<1>0. /\ pc \in [Boot -> {"closed", "claiming", "loading", "open"}]
      /\ tmp \in [Boot -> SUBSET Value] /\ mem \in [Boot -> SUBSET Value]
      /\ queue \in [Boot -> Seq(Write)]
      /\ file \in [File -> SUBSET Value] /\ drawn \in Nat
      /\ \A m, k \in file["creds"] : m = k
  BY DEF LockInv, ProcessInv, DataOK
<1>1. ASSUME UNCHANGED <<pc, file, tmp, mem, queue, drawn>> PROVE DataOK'
  BY <1>1 DEF DataOK
<1>2. ASSUME NEW b \in Boot, Exits(b) PROVE DataOK'
  <2>1. /\ pc'[b] = "closed" /\ mem'[b] = {} /\ queue'[b] = <<>> /\ tmp'[b] = {}
        /\ \A c \in Boot \ {b} : pc'[c] = pc[c] /\ tmp'[c] = tmp[c]
        /\ tmp' \in [Boot -> SUBSET Value] /\ file' = file /\ drawn' = drawn
        /\ mem' = [mem EXCEPT ![b] = mem'[b]] /\ queue' = [queue EXCEPT ![b] = queue'[b]]
    BY <1>0, <1>2 DEF Exits
  <2>2. <<>> \in Seq(Write) /\ DOMAIN <<>> = {}
    OBVIOUS
  <2> QED
    BY <1>0, <2>1, <2>2, DataKeeps
\* A session that closes, or is started again.
<1>3. ASSUME NEW b \in Boot, queue' = [queue EXCEPT ![b] = Frozen(b)],
             mem' = [mem EXCEPT ![b] = {}], drawn' = drawn,
             file' = file \/ file' = [f \in File |-> {}],
             tmp' = tmp \/ tmp' = [c \in Boot |-> {}],
             \E s \in {"closed", "claiming", "loading"} : pc' = [pc EXCEPT ![b] = s]
      PROVE  DataOK'
  <2>1. /\ queue'[b] = Frozen(b) /\ mem'[b] = {} /\ pc'[b] # "open"
        /\ \A c \in Boot \ {b} : pc'[c] = pc[c]
        /\ mem' = [mem EXCEPT ![b] = mem'[b]] /\ queue' = [queue EXCEPT ![b] = queue'[b]]
    BY <1>0, <1>3
  <2>2. /\ Frozen(b) \in Seq(Write) /\ \A i \in DOMAIN Frozen(b) : ~Frozen(b)[i].live
        /\ Frozen(b) = <<>> => queue[b] = <<>>
    BY FrozenQueue
  <2>3. /\ file' \in [File -> SUBSET Value] /\ tmp' \in [Boot -> SUBSET Value]
        /\ \A m, k \in file'["creds"] : m = k
        /\ \A c \in Boot : tmp'[c] = tmp[c] \/ tmp'[c] = {}
    BY <1>0, <1>3 DEF File
  <2>4. (\A m, k \in tmp'[b] : m = k) /\ (queue[b] = <<>> => tmp'[b] = {})
    BY <2>3 DEF DataOK
  <2> QED
    BY <1>0, <1>3, <2>1, <2>2, <2>3, <2>4, DataKeeps
<1>4. ASSUME NEW b \in Boot, ClaimLock(b) \/ OpenThrows(b) PROVE DataOK'
  <2>1. /\ UNCHANGED <<file, tmp, mem, queue, drawn>> /\ pc[b] # "open" /\ pc'[b] # "open"
        /\ \A c \in Boot \ {b} : pc'[c] = pc[c]
    BY <1>0, <1>4 DEF ClaimLock, OpenThrows
  <2> QED
    BY <2>1 DEF DataOK
<1>5. ASSUME NEW b \in Boot, Load(b) PROVE DataOK'
  <2>1. /\ UNCHANGED <<file, tmp, queue>> /\ pc'[b] = "open"
        /\ \A c \in Boot \ {b} : pc'[c] = pc[c]
    BY <1>0, <1>5 DEF Load
  <2>2. /\ mem' = [mem EXCEPT ![b] = mem'[b]] /\ drawn' \in Nat
        /\ mem'[b] # {} /\ mem'[b] \in SUBSET Value /\ \A m, k \in mem'[b] : m = k
    <3>1. CASE file["creds"] # {} /\ mem' = [mem EXCEPT ![b] = file["creds"]] /\ drawn' = drawn
      BY <1>0, <3>1 DEF File
    <3>2. CASE drawn' = drawn + 1 /\ mem' = [mem EXCEPT ![b] = {[id |-> drawn + 1, rev |-> 0]}]
      <4> DEFINE v == [id |-> drawn + 1, rev |-> 0]
      <4>1. v \in Value
        BY <1>0 DEF Value
      <4> HIDE DEF v
      <4>2. mem' = [mem EXCEPT ![b] = {v}]
        BY <3>2 DEF v
      <4> QED
        BY <1>0, <3>2, <4>1, <4>2
    <3> QED
      BY <1>5, <3>1, <3>2 DEF Load
  <2>3. (\A m, k \in tmp[b] : m = k) /\ (queue[b] = <<>> => tmp[b] = {})
    BY DEF DataOK
  <2>4. /\ queue' = [queue EXCEPT ![b] = queue'[b]] /\ queue'[b] \in Seq(Write)
        /\ tmp' \in [Boot -> SUBSET Value]
    BY <1>0, <2>1
  <2> QED
    BY <1>0, <2>1, <2>2, <2>3, <2>4, DataKeeps
\* A session that is open and goes on.
<1>6. ASSUME NEW b \in Boot, pc[b] = "open", UNCHANGED <<pc, file, tmp, drawn>>,
             mem' = [mem EXCEPT ![b] = mem'[b]], mem'[b] # {}, mem'[b] \in SUBSET Value,
             \A m, k \in mem'[b] : m = k,
             NEW t \in Write, queue' = [queue EXCEPT ![b] = Append(queue[b], t)]
      PROVE  DataOK'
  <2>1. /\ queue' = [queue EXCEPT ![b] = queue'[b]] /\ queue'[b] \in Seq(Write)
        /\ queue'[b] # <<>>
    BY <1>0, <1>6, Appended
  <2>2. \A m, k \in tmp[b] : m = k
    BY DEF DataOK
  <2> QED
    BY <1>0, <1>6, <2>1, <2>2, DataKeeps
<1>7. ASSUME NEW b \in Boot, Pairs(b) PROVE DataOK'
  <2>1. PICK m \in mem[b] : LET v == [m EXCEPT !.rev = 1] IN
          /\ mem' = [mem EXCEPT ![b] = {v}]
          /\ queue' = [queue EXCEPT ![b] = Append(queue[b], Credentials(b, v))]
    BY <1>7 DEF Pairs
  <2> DEFINE v == [m EXCEPT !.rev = 1]
  <2>2. m \in Value /\ v \in Value
    <3>1. m \in Value
      BY <1>0
    <3> QED
      BY <3>1 DEF Value
  <2>3. Credentials(b, v) \in Write
    BY <2>2 DEF Credentials, Write
  <2> HIDE DEF v
  <2>4. pc[b] = "open" /\ UNCHANGED <<pc, file, tmp, drawn>> /\ mem'[b] = {v}
    BY <1>0, <1>7, <2>1 DEF Pairs, v
  <2> QED
    BY <1>6, <2>1, <2>2, <2>3, <2>4 DEF v
<1>8. ASSUME NEW b \in Boot, SetKeys(b) PROVE DataOK'
  <2>1. PICK m \in mem[b] :
          queue' = [queue EXCEPT ![b] =
            Append(queue[b], [files |-> <<"k1", "k2">>, val |-> [m EXCEPT !.rev = m.rev + 1],
                              live |-> TRUE])]
    BY <1>8 DEF SetKeys
  <2> DEFINE t == [files |-> <<"k1", "k2">>, val |-> [m EXCEPT !.rev = m.rev + 1], live |-> TRUE]
  <2>2. t \in Write
    <3>1. m \in Value
      BY <1>0
    <3>2. [m EXCEPT !.rev = m.rev + 1] \in Value
      BY <3>1 DEF Value
    <3> QED
      BY <3>2 DEF Write
  <2> HIDE DEF t
  <2>3. /\ pc[b] = "open" /\ UNCHANGED <<pc, file, tmp, drawn, mem>>
        /\ mem' = [mem EXCEPT ![b] = mem'[b]] /\ mem'[b] # {} /\ mem'[b] \in SUBSET Value
        /\ \A k, o \in mem'[b] : k = o
    BY <1>0, <1>8 DEF SetKeys, DataOK
  <2>4. queue' = [queue EXCEPT ![b] = Append(queue[b], t)]
    BY <2>1 DEF t
  <2> QED
    BY <1>6, <2>2, <2>3, <2>4
<1>9. ASSUME NEW b \in Boot, WriteTemporary(b) PROVE DataOK'
  <2>1. /\ queue[b] # <<>> /\ tmp' = [tmp EXCEPT ![b] = Body(b)]
        /\ UNCHANGED <<pc, file, mem, queue, drawn>>
    BY <1>9 DEF WriteTemporary
  <2>2. /\ tmp' \in [Boot -> SUBSET Value] /\ tmp'[b] = Body(b)
        /\ \A m, k \in Body(b) : m = k
        /\ \A c \in Boot \ {b} : tmp'[c] = tmp[c]
    BY <1>0, <2>1, BodyValue
  <2> QED
    BY <2>1, <2>2 DEF DataOK
<1>10. ASSUME NEW b \in Boot, WriteFails(b) PROVE DataOK'
  <2>1. /\ queue[b] # <<>> /\ queue'[b] = Tail(queue[b]) /\ tmp'[b] = {}
        /\ queue' = [queue EXCEPT ![b] = queue'[b]]
        /\ tmp' \in [Boot -> SUBSET Value] /\ \A c \in Boot \ {b} : tmp'[c] = tmp[c]
        /\ UNCHANGED <<pc, file, mem, drawn>>
    BY <1>0, <1>10 DEF WriteFails
  <2>2. /\ Tail(queue[b]) \in Seq(Write)
        /\ pc[b] # "open" => \A i \in DOMAIN Tail(queue[b]) : ~Tail(queue[b])[i].live
    BY <1>0, <2>1, Ends DEF DataOK
  <2>3. /\ pc[b] = "open" <=> mem[b] # {}
        /\ \A m, k \in mem[b] : m = k
        /\ mem[b] \in SUBSET Value /\ mem' = [mem EXCEPT ![b] = mem'[b]]
    BY <1>0, <2>1 DEF DataOK
  <2> QED
    BY <1>0, <2>1, <2>2, <2>3, DataKeeps
<1>11. ASSUME NEW b \in Boot, Rename(b) PROVE DataOK'
  <2> DEFINE t == queue[b][1]
  <2>1. /\ tmp' = [tmp EXCEPT ![b] = {}] /\ UNCHANGED <<pc, drawn>>
        /\ tmp' \in [Boot -> SUBSET Value] /\ tmp'[b] = {}
        /\ \A c \in Boot \ {b} : tmp'[c] = tmp[c]
    BY <1>0, <1>11 DEF Rename
  <2>2. /\ queue[b] # <<>> /\ t \in Write /\ tmp[b] \in SUBSET Value
        /\ \A m, k \in tmp[b] : m = k
    BY <1>0, <1>11, RenameCases DEF DataOK
  <2>3. file' \in [File -> SUBSET Value] /\ \A m, k \in file'["creds"] : m = k
    <3>1. PICK f \in File : file' = [file EXCEPT ![f] = tmp[b]]
      BY <1>11, RenameCases DEF File
    <3> QED
      BY <1>0, <2>2, <3>1 DEF File
  <2>4. /\ mem' = [mem EXCEPT ![b] = mem'[b]] /\ mem'[b] \in SUBSET Value
        /\ mem'[b] # {} <=> mem[b] # {}
        /\ \A m, k \in mem'[b] : m = k
        /\ queue' = [queue EXCEPT ![b] = queue'[b]] /\ queue'[b] \in Seq(Write)
        /\ pc[b] # "open" => \A i \in DOMAIN queue'[b] : ~queue'[b][i].live
    <3>0. /\ queue[b] \in Seq(Write) /\ t.val \in Value
          /\ Tail(queue[b]) \in Seq(Write)
          /\ pc[b] # "open" => \A i \in DOMAIN queue[b] : ~queue[b][i].live
          /\ pc[b] # "open" => ~t.live
          /\ pc[b] = "open" <=> mem[b] # {}
          /\ \A i \in DOMAIN Tail(queue[b]) :
               i + 1 \in DOMAIN queue[b] /\ Tail(queue[b])[i] = queue[b][i + 1]
      <4>1. queue[b] \in Seq(Write) /\ t.val \in Value
        BY <1>0, <2>2 DEF Write
      <4>2. /\ 1 \in DOMAIN queue[b] /\ Tail(queue[b]) \in Seq(Write)
            /\ \A i \in DOMAIN Tail(queue[b]) :
                 i + 1 \in DOMAIN queue[b] /\ Tail(queue[b])[i] = queue[b][i + 1]
        BY <2>2, <4>1, Ends
      <4>3. /\ pc[b] # "open" => \A i \in DOMAIN queue[b] : ~queue[b][i].live
            /\ pc[b] = "open" <=> mem[b] # {}
        BY DEF DataOK
      <4> QED
        BY <4>1, <4>2, <4>3
    <3>1. CASE queue' = [queue EXCEPT ![b] = <<HalfDone(t)>> \o Tail(queue[b])] /\ mem' = mem
      <4>1. HalfDone(t) \in Write /\ HalfDone(t).live = t.live
        BY <2>2 DEF HalfDone, Write
      <4>2. LET r == <<HalfDone(t)>> \o Tail(queue[b]) IN
            /\ r \in Seq(Write) /\ DOMAIN r = DOMAIN queue[b]
            /\ r[1] = HalfDone(t) /\ \A i \in DOMAIN queue[b] : i # 1 => r[i] = queue[b][i]
        BY <2>2, <3>0, <4>1, Beheaded
      <4>3. mem'[b] = mem[b] /\ mem[b] \in SUBSET Value /\ \A m, k \in mem[b] : m = k
        BY <1>0, <3>1 DEF DataOK
      <4>4. queue'[b] = <<HalfDone(t)>> \o Tail(queue[b])
        BY <1>0, <3>1
      <4>5. pc[b] # "open" => \A i \in DOMAIN queue'[b] : ~queue'[b][i].live
        BY <3>0, <4>1, <4>2, <4>4
      <4> QED
        BY <1>0, <3>1, <4>2, <4>3, <4>4, <4>5
    <3>2. CASE queue' = [queue EXCEPT ![b] = Tail(queue[b])] /\ mem' = mem
      BY <1>0, <3>0, <3>2 DEF DataOK
    <3>3. CASE /\ t.live /\ queue' = [queue EXCEPT ![b] = Append(Tail(queue[b]), Creds(t.val))]
               /\ mem' = [mem EXCEPT ![b] = {t.val}]
      <4>1. Creds(t.val) \in Write
        BY <3>0 DEF Creds, Write
      <4>2. Append(Tail(queue[b]), Creds(t.val)) \in Seq(Write)
        BY <3>0, <4>1
      <4> QED
        BY <1>0, <3>0, <3>3, <4>2
    <3> QED
      BY <1>11, <3>1, <3>2, <3>3, RenameCases
  <2>5. pc'[b] = "open" <=> mem'[b] # {}
    BY <2>1, <2>4 DEF DataOK
  <2> QED
    BY <1>0, <2>1, <2>3, <2>4, <2>5, DataKeeps
<1>12. ASSUME NEW b \in Boot, StartOwned(b) PROVE DataOK'
  BY <1>3, <1>12 DEF StartOwned
<1>13. ASSUME NEW b \in Boot, StopSession(b) \/ StopKeeping(b) PROVE DataOK'
  BY <1>3, <1>13 DEF StopSession, StopKeeping, Closed
<1>14. ASSUME NEW b \in Boot, Purge(b) \/ Migrate(b) PROVE DataOK'
  BY <1>3, <1>14 DEF Purge, Migrate, Closed, Removed
<1>15. ASSUME NEW b \in Boot, Boots(b) \/ StoreMessage(b) PROVE DataOK'
  BY <1>1, <1>15 DEF Boots, StoreMessage
<1>16. ASSUME NEW p \in Pid, ForeignProgram(p) PROVE DataOK'
  BY <1>1, <1>16 DEF ForeignProgram
<1>17. CASE UNCHANGED dirVars
  BY <1>1, <1>17 DEF dirVars
<1> QED
  BY <1>2, <1>4, <1>5, <1>7, <1>8, <1>9, <1>10, <1>11, <1>12, <1>13, <1>14, <1>15,
     <1>16, <1>17 DEF DirNext
-----------------------------------------------------------------------------
(***************************************************************************)
(* What is gone stays gone.                                                *)
(***************************************************************************)
(* A value that the credentials file says, or may come to say.             *)
InUse(m) ==
  \/ m \in file["creds"]
  \/ \E b \in Boot : \/ m \in mem[b] \cup tmp[b]
                     \/ \E i \in DOMAIN queue[b] : m = queue[b][i].val

(* An identity that was drawn anew is not one that has gone before.        *)
GoneInv ==
  /\ \A i \in gone : i \in Nat /\ i <= drawn
  /\ \A m : InUse(m) => m.id \in Nat /\ m.id <= drawn
  /\ excused \cap {"stolen", "late"} = {} => \A m : InUse(m) => m.id \notin gone

(* A step that brings no identity in keeps the invariant.                  *)
LEMMA GoneKeeps ==
  ASSUME GoneInv, gone' = gone, drawn' = drawn, excused \subseteq excused',
         \A m : InUse(m)' => \E k : InUse(k) /\ k.id = m.id
  PROVE  GoneInv'
<1>1. \A m : InUse(m)' => m.id \in Nat /\ m.id <= drawn
  BY DEF GoneInv
<1>2. ASSUME excused' \cap {"stolen", "late"} = {} PROVE \A m : InUse(m)' => m.id \notin gone
  BY <1>2 DEF GoneInv
<1> QED
  BY <1>1, <1>2 DEF GoneInv

LEMMA GoneInit == DirInit => GoneInv
  BY DEF DirInit, GoneInv, InUse, File

LEMMA GoneStep ==
  LockInv /\ DataOK /\ GoneInv /\ [DirNext]_dirVars => GoneInv'
<1> SUFFICES ASSUME LockInv, DataOK, GoneInv, [DirNext]_dirVars PROVE GoneInv'
  OBVIOUS
<1>0. /\ tmp \in [Boot -> SUBSET Value] /\ mem \in [Boot -> SUBSET Value]
      /\ queue \in [Boot -> Seq(Write)]
      /\ file \in [File -> SUBSET Value] /\ drawn \in Nat
      /\ pc \in [Boot -> {"closed", "claiming", "loading", "open"}]
      /\ "creds" \in File
  BY DEF LockInv, ProcessInv, DataOK, File
\* What step b takes from its own memory, its queue and the file.
<1>1. ASSUME NEW b \in Boot, gone' = gone, drawn' = drawn, excused \subseteq excused',
             \A m \in file'["creds"] : InUse(m),
             \A c \in Boot \ {b} : UNCHANGED <<mem[c], queue[c], tmp[c]>>,
             \A m \in mem'[b] \cup tmp'[b] : \E k : InUse(k) /\ k.id = m.id,
             \A i \in DOMAIN queue'[b] : \E k : InUse(k) /\ k.id = queue'[b][i].val.id
      PROVE  GoneInv'
  <2>1. ASSUME NEW m, InUse(m)' PROVE \E k : InUse(k) /\ k.id = m.id
    <3>1. CASE m \in file'["creds"]
      BY <1>1, <3>1
    <3>2. ASSUME NEW c \in Boot, m \in mem'[c] \cup tmp'[c] PROVE \E k : InUse(k) /\ k.id = m.id
      <4>1. CASE c = b
        BY <1>1, <3>2, <4>1
      <4>2. CASE c # b
        BY <1>1, <3>2, <4>2 DEF InUse
      <4> QED
        BY <4>1, <4>2
    <3>3. ASSUME NEW c \in Boot, NEW i \in DOMAIN queue'[c], m = queue'[c][i].val
          PROVE  \E k : InUse(k) /\ k.id = m.id
      <4>1. CASE c = b
        BY <1>1, <3>3, <4>1
      <4>2. CASE c # b
        BY <1>1, <3>3, <4>2 DEF InUse
      <4> QED
        BY <4>1, <4>2
    <3> QED
      BY <2>1, <3>1, <3>2, <3>3 DEF InUse
  <2> QED
    BY <1>1, <2>1, GoneKeeps
<1>2. ASSUME UNCHANGED <<file, tmp, mem, queue, drawn, gone>>, excused \subseteq excused'
      PROVE  GoneInv'
  BY <1>2 DEF GoneInv, InUse
<1>3. ASSUME NEW b \in Boot, Exits(b) PROVE GoneInv'
  <2>1. /\ mem'[b] = {} /\ queue'[b] = <<>> /\ tmp'[b] = {} /\ UNCHANGED <<file, gone, drawn, excused>>
        /\ \A c \in Boot \ {b} : UNCHANGED <<mem[c], queue[c], tmp[c]>>
    BY <1>0, <1>3 DEF Exits
  <2>2. DOMAIN <<>> = {} /\ \A m \in file["creds"] : InUse(m)
    BY DEF InUse
  <2> QED
    BY <1>1, <2>1, <2>2
\* A session that closes, or is started again.
<1>4. ASSUME NEW b \in Boot, queue' = [queue EXCEPT ![b] = Frozen(b)],
             mem' = [mem EXCEPT ![b] = {}], UNCHANGED <<file, tmp, gone, drawn>>,
             excused \subseteq excused'
      PROVE  GoneInv'
  <2>1. /\ queue'[b] = Frozen(b) /\ mem'[b] = {}
        /\ \A c \in Boot \ {b} : UNCHANGED <<mem[c], queue[c], tmp[c]>>
    BY <1>0, <1>4
  <2>2. \A i \in DOMAIN Frozen(b) : InUse(Frozen(b)[i].val)
    BY FrozenQueue DEF InUse
  <2>3. (\A m \in file["creds"] : InUse(m)) /\ \A m \in tmp[b] : InUse(m)
    BY DEF InUse
  <2> QED
    BY <1>1, <1>4, <2>1, <2>2, <2>3
<1>5. ASSUME NEW b \in Boot, Load(b) PROVE GoneInv'
  <2>1. /\ UNCHANGED <<file, tmp, queue, gone>> /\ excused \subseteq excused'
        /\ \A c \in Boot \ {b} : UNCHANGED <<mem[c], queue[c], tmp[c]>>
    BY <1>0, <1>5 DEF Load
  <2>2. /\ \A m \in file["creds"] \cup tmp[b] : InUse(m)
        /\ \A i \in DOMAIN queue[b] : InUse(queue[b][i].val)
    BY DEF InUse
  <2>3. CASE mem' = [mem EXCEPT ![b] = file["creds"]] /\ drawn' = drawn
    <3>1. mem'[b] = file["creds"]
      BY <1>0, <2>3
    <3> QED
      BY <1>1, <2>1, <2>2, <2>3, <3>1
  <2>4. CASE drawn' = drawn + 1 /\ mem' = [mem EXCEPT ![b] = {[id |-> drawn + 1, rev |-> 0]}]
    <3>1. \A m \in mem'[b] : m.id = drawn + 1
      BY <1>0, <2>4
    <3>2. ASSUME NEW m, InUse(m)' PROVE InUse(m) \/ m.id = drawn + 1
      BY <1>0, <2>1, <3>1, <3>2 DEF InUse
    <3>3. \A m : InUse(m)' => m.id \in Nat /\ m.id <= drawn'
      BY <1>0, <2>4, <3>2 DEF GoneInv
    <3>4. \A i \in gone : i \in Nat /\ i <= drawn' /\ i # drawn + 1
      BY <1>0, <2>4 DEF GoneInv
    <3>5. ASSUME excused' \cap {"stolen", "late"} = {} PROVE \A m : InUse(m)' => m.id \notin gone
      BY <2>1, <3>2, <3>4, <3>5 DEF GoneInv
    <3> QED
      BY <2>1, <3>3, <3>4, <3>5 DEF GoneInv
  <2> QED
    BY <1>5, <2>3, <2>4 DEF Load
<1>6. ASSUME NEW b \in Boot, Pairs(b) \/ SetKeys(b) PROVE GoneInv'
  <2>1. PICK m \in mem[b], t \in Write :
          /\ queue' = [queue EXCEPT ![b] = Append(queue[b], t)] /\ t.val.id = m.id
          /\ mem' = mem \/ mem' = [mem EXCEPT ![b] = {t.val}]
    <3>1. CASE Pairs(b)
      <4>1. PICK m \in mem[b] : LET v == [m EXCEPT !.rev = 1] IN
              /\ mem' = [mem EXCEPT ![b] = {v}]
              /\ queue' = [queue EXCEPT ![b] = Append(queue[b], Credentials(b, v))]
        BY <3>1 DEF Pairs
      <4> DEFINE v == [m EXCEPT !.rev = 1]
      <4>2. m \in Value
        BY <1>0
      <4>3. v \in Value /\ v.id = m.id
        BY <4>2 DEF Value
      <4>4. Credentials(b, v) \in Write /\ Credentials(b, v).val = v
        BY <4>3 DEF Credentials, Write
      <4> QED
        BY <4>1, <4>3, <4>4
    <3>2. CASE SetKeys(b)
      <4>1. PICK m \in mem[b] :
              queue' = [queue EXCEPT ![b] =
                Append(queue[b], [files |-> <<"k1", "k2">>, val |-> [m EXCEPT !.rev = m.rev + 1],
                                  live |-> TRUE])]
        BY <3>2 DEF SetKeys
      <4> DEFINE v == [m EXCEPT !.rev = m.rev + 1]
                 t == [files |-> <<"k1", "k2">>, val |-> v, live |-> TRUE]
      <4>2. m \in Value
        BY <1>0
      <4>3. v \in Value /\ v.id = m.id
        BY <4>2 DEF Value
      <4>4. t \in Write /\ t.val = v
        BY <4>3 DEF Write
      <4>5. mem' = mem
        BY <3>2 DEF SetKeys
      <4> QED
        BY <4>1, <4>3, <4>4, <4>5
    <3> QED
      BY <1>6, <3>1, <3>2
  <2>2. /\ UNCHANGED <<file, tmp, gone, drawn, excused>>
    BY <1>6 DEF Pairs, SetKeys
  <2>3. \A c \in Boot \ {b} : UNCHANGED <<mem[c], queue[c], tmp[c]>>
    BY <1>0, <2>1, <2>2
  <2>4. queue'[b] = Append(queue[b], t) /\ (mem'[b] = mem[b] \/ mem'[b] = {t.val})
    BY <1>0, <2>1
  <2>5. InUse(m) /\ \A k \in mem[b] \cup tmp[b] \cup file["creds"] : InUse(k)
    BY <2>1 DEF InUse
  <2>6. \A i \in DOMAIN queue[b] : InUse(queue[b][i].val)
    BY DEF InUse
  <2>7. \A i \in DOMAIN queue'[b] : \E k : InUse(k) /\ k.id = queue'[b][i].val.id
    <3>1. queue[b] \in Seq(Write)
      BY <1>0
    <3>2. ASSUME NEW i \in DOMAIN Append(queue[b], t)
          PROVE  \E k : InUse(k) /\ k.id = Append(queue[b], t)[i].val.id
      <4>1. CASE i \in DOMAIN queue[b]
        BY <2>6, <3>1, <4>1, Appended
      <4>2. CASE i = Len(queue[b]) + 1
        <5>1. Append(queue[b], t)[i] = t
          BY <3>1, <4>2, Appended
        <5> QED
          BY <2>1, <2>5, <5>1
      <4> QED
        BY <3>1, <3>2, <4>1, <4>2, Appended
    <3> QED
      BY <2>4, <3>2
  <2>8. \A k \in mem'[b] \cup tmp'[b] : \E o : InUse(o) /\ o.id = k.id
    BY <2>1, <2>2, <2>4, <2>5
  <2> QED
    BY <1>1, <2>2, <2>3, <2>5, <2>7, <2>8
<1>7. ASSUME NEW b \in Boot, WriteTemporary(b) PROVE GoneInv'
  <2>1. /\ queue[b] # <<>> /\ UNCHANGED <<file, mem, queue, drawn, gone, excused>>
        /\ tmp' = [tmp EXCEPT ![b] = Body(b)]
    BY <1>7 DEF WriteTemporary
  <2>2. tmp'[b] = Body(b) /\ \A c \in Boot \ {b} : tmp'[c] = tmp[c]
    BY <1>0, <2>1
  <2>3. 1 \in DOMAIN queue[b]
    BY <1>0, <2>1, Ends
  <2>4. \A m \in Body(b) : InUse(m)
    BY <2>1, <2>3, BodyValue DEF InUse
  <2>5. /\ \A m \in file["creds"] \cup mem[b] : InUse(m)
        /\ \A i \in DOMAIN queue[b] : InUse(queue[b][i].val)
    BY DEF InUse
  <2> QED
    BY <1>1, <2>1, <2>2, <2>4, <2>5
<1>8. ASSUME NEW b \in Boot, Rename(b) PROVE GoneInv'
  <2> DEFINE t == queue[b][1]
  <2>0. UNCHANGED <<drawn, gone, excused>> /\ tmp' = [tmp EXCEPT ![b] = {}]
    BY <1>8 DEF Rename
  <2>1. /\ queue[b] \in Seq(Write) /\ queue[b] # <<>> /\ t \in Write
        /\ 1 \in DOMAIN queue[b]
        /\ \A i \in DOMAIN Tail(queue[b]) :
             i + 1 \in DOMAIN queue[b] /\ Tail(queue[b])[i] = queue[b][i + 1]
        /\ Tail(queue[b]) \in Seq(Write)
    <3>1. queue[b] \in Seq(Write) /\ queue[b] # <<>> /\ t \in Write
      BY <1>0, <1>8, RenameCases
    <3> HIDE DEF t
    <3> QED
      BY <3>1, Ends
  <2>2. /\ InUse(t.val) /\ \A m \in mem[b] \cup tmp[b] \cup file["creds"] : InUse(m)
        /\ \A i \in DOMAIN queue[b] : InUse(queue[b][i].val)
        /\ \A i \in DOMAIN Tail(queue[b]) : InUse(Tail(queue[b])[i].val)
    <3>1. \A m \in mem[b] \cup tmp[b] \cup file["creds"] : InUse(m)
      BY DEF InUse
    <3>2. \A i \in DOMAIN queue[b] : InUse(queue[b][i].val)
      BY DEF InUse
    <3>3. \A i \in DOMAIN Tail(queue[b]) : InUse(Tail(queue[b])[i].val)
      BY <2>1, <3>2
    <3> QED
      BY <2>1, <3>1, <3>2, <3>3
  <2>3. file'["creds"] = file["creds"] \/ file'["creds"] = tmp[b]
    <3>1. \E f \in {"k1", "creds", "k2"} : file' = [file EXCEPT ![f] = tmp[b]]
      BY <1>0, <1>8, RenameCases
    <3>2. DOMAIN file = File /\ "creds" \in File
      BY DEF DataOK, File
    <3> QED
      BY <3>1, <3>2
  <2> HIDE DEF t
  <2>4. /\ \A c \in Boot \ {b} : UNCHANGED <<mem[c], queue[c], tmp[c]>>
        /\ mem'[b] = mem[b] \/ mem'[b] = {t.val}
        /\ \/ queue'[b] = <<HalfDone(t)>> \o Tail(queue[b])
           \/ queue'[b] = Tail(queue[b])
           \/ queue'[b] = Append(Tail(queue[b]), Creds(t.val))
    <3>1. /\ mem' = mem \/ mem' = [mem EXCEPT ![b] = {t.val}]
          /\ \/ queue' = [queue EXCEPT ![b] = <<HalfDone(t)>> \o Tail(queue[b])]
             \/ queue' = [queue EXCEPT ![b] = Tail(queue[b])]
             \/ queue' = [queue EXCEPT ![b] = Append(Tail(queue[b]), Creds(t.val))]
      BY <1>8, RenameCases DEF t
    <3> QED
      BY <1>0, <2>0, <3>1
  <2>5. \A i \in DOMAIN queue'[b] : InUse(queue'[b][i].val)
    <3>1. CASE queue'[b] = <<HalfDone(t)>> \o Tail(queue[b])
      <4>1. HalfDone(t) \in Write /\ HalfDone(t).val = t.val
        BY <2>1 DEF HalfDone, Write
      <4> DEFINE r == <<HalfDone(t)>> \o Tail(queue[b])
      <4>2. /\ DOMAIN r = DOMAIN queue[b] /\ r[1] = HalfDone(t)
            /\ \A i \in DOMAIN queue[b] : i # 1 => r[i] = queue[b][i]
        BY <2>1, <4>1, Beheaded
      <4> HIDE DEF r
      <4>3. \A i \in DOMAIN r : InUse(r[i].val)
        BY <2>2, <4>1, <4>2
      <4> QED
        BY <3>1, <4>3 DEF r
    <3>2. CASE queue'[b] = Tail(queue[b])
      BY <2>2, <3>2
    <3>3. CASE queue'[b] = Append(Tail(queue[b]), Creds(t.val))
      <4>1. Creds(t.val) \in Write /\ Creds(t.val).val = t.val
        BY <2>1 DEF Creds, Write
      <4> DEFINE s == Tail(queue[b])
                 r == Append(s, Creds(t.val))
      <4>2. /\ DOMAIN r = DOMAIN s \cup {Len(s) + 1} /\ r[Len(s) + 1] = Creds(t.val)
            /\ \A i \in DOMAIN s : r[i] = s[i]
        BY <2>1, <4>1, Appended
      <4> HIDE DEF r
      <4>3. \A i \in DOMAIN r : InUse(r[i].val)
        BY <2>2, <4>1, <4>2
      <4> QED
        BY <3>3, <4>3 DEF r
    <3> QED
      BY <2>4, <3>1, <3>2, <3>3
  <2>6. tmp'[b] = {}
    BY <1>0, <2>0
  <2> QED
    BY <1>1, <2>0, <2>2, <2>3, <2>4, <2>5, <2>6
<1>9. ASSUME NEW b \in Boot, WriteFails(b) PROVE GoneInv'
  <2>1. /\ queue[b] # <<>> /\ queue'[b] = Tail(queue[b]) /\ tmp'[b] = {}
        /\ UNCHANGED <<file, mem, drawn, gone>> /\ excused \subseteq excused'
        /\ \A c \in Boot \ {b} : UNCHANGED <<mem[c], queue[c], tmp[c]>>
    BY <1>0, <1>9 DEF WriteFails
  <2>2. \A i \in DOMAIN Tail(queue[b]) : InUse(Tail(queue[b])[i].val)
    BY <1>0, <2>1, Ends DEF InUse
  <2>3. \A m \in file["creds"] \cup mem[b] : InUse(m)
    BY DEF InUse
  <2> QED
    BY <1>1, <2>1, <2>2, <2>3
\* The directory goes: nothing is left of it, or it goes too late.
<1>10. ASSUME NEW b \in Boot, Purge(b) \/ Migrate(b) PROVE GoneInv'
  <2>1. Closed(b) /\ Removed(b) /\ drawn' = drawn
    BY <1>10 DEF Purge, Migrate
  <2>2. /\ file'["creds"] = {} /\ (\A c \in Boot : tmp'[c] = {}) /\ mem'[b] = {}
        /\ \A c \in Boot \ {b} : mem'[c] = mem[c] /\ queue'[c] = queue[c]
        /\ queue'[b] = Frozen(b)
    BY <1>0, <2>1 DEF Closed, Removed
  <2>3. \A i \in DOMAIN Frozen(b) : InUse(Frozen(b)[i].val)
    BY FrozenQueue DEF InUse
  <2>4. ASSUME NEW m, InUse(m)' PROVE InUse(m)
    <3>1. ASSUME NEW c \in Boot, m \in mem'[c] \cup tmp'[c] PROVE InUse(m)
      BY <2>2, <3>1 DEF InUse
    <3>2. ASSUME NEW c \in Boot, NEW i \in DOMAIN queue'[c], m = queue'[c][i].val PROVE InUse(m)
      <4>1. CASE c = b
        BY <2>2, <2>3, <3>2, <4>1
      <4>2. CASE c # b
        BY <2>2, <3>2, <4>2 DEF InUse
      <4> QED
        BY <4>1, <4>2
    <3> QED
      BY <2>2, <2>4, <3>1, <3>2 DEF InUse
  <2>5. \A i \in gone' : i \in Nat /\ i <= drawn
    <3>1. gone' = gone \cup {m.id : m \in file["creds"] \cup mem[b]}
      BY <2>1 DEF Removed
    <3>2. \A m \in file["creds"] \cup mem[b] : InUse(m)
      BY DEF InUse
    <3> QED
      BY <3>1, <3>2 DEF GoneInv
  <2>6. ASSUME excused' \cap {"stolen", "late"} = {} PROVE \A m : ~InUse(m)'
    <3>1. /\ \A c \in Boot : queue[c] = <<>>
          /\ \A c \in Boot \ {b} : ~held[c]
      BY <2>1, <2>6 DEF Removed
    <3>2. \A c \in Boot \ {b} : pc[c] # "open"
      BY <3>1 DEF LockInv, ProcessInv, HasOpen
    <3>3. \A c \in Boot : mem'[c] = {}
      BY <2>2, <3>2 DEF DataOK
    <3>4. \A c \in Boot : queue'[c] = <<>>
      BY <2>2, <3>1, FrozenQueue
    <3>5. \A c \in Boot : DOMAIN queue'[c] = {}
      BY <3>4
    <3> QED
      BY <2>2, <3>3, <3>5 DEF InUse
  <2> QED
    BY <2>1, <2>4, <2>5, <2>6 DEF GoneInv
<1>11. ASSUME NEW b \in Boot, StartOwned(b) PROVE GoneInv'
  BY <1>4, <1>11 DEF StartOwned
<1>12. ASSUME NEW b \in Boot, StopSession(b) \/ StopKeeping(b) PROVE GoneInv'
  BY <1>4, <1>12 DEF StopSession, StopKeeping, Closed
<1>13. ASSUME NEW b \in Boot, Boots(b) \/ StoreMessage(b) \/ ClaimLock(b) \/ OpenThrows(b)
       PROVE  GoneInv'
  BY <1>2, <1>13 DEF Boots, StoreMessage, ClaimLock, OpenThrows
<1>14. ASSUME NEW p \in Pid, ForeignProgram(p) PROVE GoneInv'
  BY <1>2, <1>14 DEF ForeignProgram
<1>15. CASE UNCHANGED dirVars
  BY <1>2, <1>15 DEF dirVars
<1> QED
  BY <1>3, <1>5, <1>6, <1>7, <1>8, <1>9, <1>10, <1>11, <1>12, <1>13, <1>14, <1>15
     DEF DirNext

(* deleteSessionAuthDir() and migrateSessionAuthDir(): a pairing that was  *)
(* purged or moved away does not come back, for every number of processes, *)
(* also where two of them have raced for the lock.                         *)
THEOREM WhatIsGoneStaysGone == DirSpec => []GoneStaysGone
<1>1. GoneInv => GoneStaysGone
  BY DEF GoneInv, GoneStaysGone, InUse
<1>2. LockInv /\ DataOK /\ GoneInv /\ [DirNext]_dirVars => LockInv' /\ DataOK' /\ GoneInv'
  BY LockInvStep, DataStep, GoneStep
<1> QED
  BY <1>1, <1>2, LockInvInit, DataInit, GoneInit, PTL DEF DirSpec
-----------------------------------------------------------------------------
(***************************************************************************)
(* Credentials and the keys beside them.                                   *)
(***************************************************************************)
Sound == excused \cap {"raced", "stolen", "late", "stale"} = {}

Busy(b) == queue[b] # <<>> \/ pc[b] = "open"

IsKeys(t) == t.files # <<"creds">>

(* The keys on disk go with credentials m; v is a revision after m.        *)
Backed(m) ==
  m.rev > 1 => \A f \in {"k1", "k2"} : \E v \in file[f] : v.id = m.id /\ v.rev >= m.rev
Below(m, v) == m.rev > 1 => m.id = v.id /\ m.rev <= v.rev

(* Credentials that are on disk, or b may yet write as they are.           *)
MayWrite(b, m) ==
  \/ m \in file["creds"] \cup mem[b]
  \/ m \in tmp[b] /\ queue[b][1].files = <<"creds">>
  \/ \E i \in DOMAIN queue[b] :
       ~IsKeys(queue[b][i]) /\ ~queue[b][i].live /\ m = queue[b][i].val

(* Whatever b may write has its keys, and the one pair of keys in its      *)
(* queue comes after all of that.                                          *)
WriterOK(b) ==
  /\ \A m : MayWrite(b, m) => Backed(m)
  /\ \A i \in DOMAIN queue[b] : IsKeys(queue[b][i]) =>
       /\ \A m : MayWrite(b, m) => Below(m, queue[b][i].val)
       /\ \A j \in DOMAIN queue[b] : IsKeys(queue[b][j]) => i = j
       /\ queue[b][i].files = <<"k2">> => i = 1 /\ file["k1"] = {queue[b][i].val}
       /\ i = 1 /\ tmp[b] # {} => tmp[b] = {queue[b][i].val}
  /\ pc[b] = "open" =>
       /\ \A i \in DOMAIN queue[b] : queue[b][i].live
       /\ \A m : MayWrite(b, m) => \A k \in mem[b] : Below(m, k)

(* One process at a time writes.                                           *)
DiskInv ==
  Sound =>
    /\ \A m \in file["creds"] : Backed(m)
    /\ \A b, c \in Boot : Busy(b) /\ Busy(c) => b = c
    /\ \A b \in Boot : Busy(b) => WriterOK(b)

LEMMA ExcusesGrow == [DirNext]_dirVars => excused \subseteq excused'
  BY DEF DirNext, dirVars, Boots, Exits, StartOwned, ClaimLock, Load, OpenThrows, Pairs,
         SetKeys, WriteTemporary, Rename, WriteFails, StopSession, StopKeeping, Purge,
         Migrate, Removed, StoreMessage, ForeignProgram

LEMMA DiskInit == DirInit => DiskInv
  BY DEF DirInit, DiskInv, Busy, File

(* A step of b by which nobody else becomes busy, and which keeps what b   *)
(* writes in order, keeps the invariant.                                   *)
LEMMA DiskKeeps ==
  ASSUME DiskInv, excused \subseteq excused', Sound', NEW b \in Boot,
         \A c \in Boot \ {b} : Busy(c)' => Busy(c) /\ UNCHANGED <<mem[c], queue[c], tmp[c], pc[c]>>,
         Busy(b)' => WriterOK(b)' /\ \A c \in Boot \ {b} : ~Busy(c)',
         \/ file' = file
         \/ (\A m \in file'["creds"] : Backed(m)') /\ \A c \in Boot \ {b} : ~Busy(c)'
  PROVE  DiskInv'
<1>1. Sound
  BY DEF Sound
<1>2. \A d, c \in Boot : Busy(d)' /\ Busy(c)' => d = c
  BY <1>1 DEF DiskInv
<1>3. ASSUME NEW c \in Boot, Busy(c)' PROVE WriterOK(c)'
  <2>1. CASE c = b
    BY <1>3, <2>1
  <2>2. CASE c # b
    <3>1. Busy(c) /\ UNCHANGED <<mem[c], queue[c], tmp[c], pc[c], file>>
      BY <1>3, <2>2
    <3>2. WriterOK(c)
      BY <1>1, <3>1 DEF DiskInv
    <3> QED
      BY <3>1, <3>2 DEF WriterOK, MayWrite, Backed
  <2> QED
    BY <2>1, <2>2
<1>4. \A m \in file'["creds"] : Backed(m)'
  BY <1>1 DEF DiskInv, Backed
<1> QED
  BY <1>2, <1>3, <1>4 DEF DiskInv

(* The same for a step of a writer that brings nothing new to write.       *)
LEMMA WriterKeeps ==
  ASSUME DiskInv, excused \subseteq excused', Sound', NEW b \in Boot, Busy(b),
         \A c \in Boot \ {b} : UNCHANGED <<mem[c], queue[c], tmp[c], pc[c]>>,
         \A m \in file'["creds"] : MayWrite(b, m),
         \A m : MayWrite(b, m) => Backed(m)',
         Busy(b)' =>
           /\ \A m : MayWrite(b, m)' => MayWrite(b, m)
           /\ \A i \in DOMAIN queue'[b] : IsKeys(queue'[b][i]) =>
                /\ \A m : MayWrite(b, m) => Below(m, queue'[b][i].val)
                /\ \A j \in DOMAIN queue'[b] : IsKeys(queue'[b][j]) => i = j
                /\ queue'[b][i].files = <<"k2">> => i = 1 /\ file'["k1"] = {queue'[b][i].val}
                /\ i = 1 /\ tmp'[b] # {} => tmp'[b] = {queue'[b][i].val}
           /\ pc'[b] = "open" =>
                /\ \A i \in DOMAIN queue'[b] : queue'[b][i].live
                /\ \A m : MayWrite(b, m) => \A k \in mem'[b] : Below(m, k)
  PROVE  DiskInv'
<1>1. Sound
  BY DEF Sound
<1>2. \A c \in Boot \ {b} : ~Busy(c)
  BY <1>1 DEF DiskInv
<1>3. \A c \in Boot \ {b} : ~Busy(c)'
  BY <1>2 DEF Busy
<1>4. Busy(b)' => WriterOK(b)'
  <2> SUFFICES ASSUME Busy(b)' PROVE WriterOK(b)'
    OBVIOUS
  <2>1. \A m : MayWrite(b, m)' => Backed(m)'
    OBVIOUS
  <2>2. ASSUME NEW i \in DOMAIN queue'[b], IsKeys(queue'[b][i])
        PROVE  /\ \A m : MayWrite(b, m)' => Below(m, queue'[b][i].val)
               /\ \A j \in DOMAIN queue'[b] : IsKeys(queue'[b][j]) => i = j
               /\ queue'[b][i].files = <<"k2">> => i = 1 /\ file'["k1"] = {queue'[b][i].val}
               /\ i = 1 /\ tmp'[b] # {} => tmp'[b] = {queue'[b][i].val}
    BY <2>2
  <2>3. pc'[b] = "open" =>
                /\ \A i \in DOMAIN queue'[b] : queue'[b][i].live
                /\ \A m : MayWrite(b, m)' => \A k \in mem'[b] : Below(m, k)
    OBVIOUS
  <2> HIDE DEF MayWrite, Backed, Below, IsKeys
  <2> QED
    BY <2>1, <2>2, <2>3 DEF WriterOK
<1>5. \A m \in file'["creds"] : Backed(m)'
  OBVIOUS
<1> QED
  BY <1>3, <1>4, <1>5, DiskKeeps

LEMMA DiskStep ==
  LockInv /\ DataOK /\ DiskInv /\ [DirNext]_dirVars => DiskInv'
<1> SUFFICES ASSUME LockInv, DataOK, DiskInv, [DirNext]_dirVars, Sound' PROVE DiskInv'
  BY DEF DiskInv
<1>0. /\ pc \in [Boot -> {"closed", "claiming", "loading", "open"}]
      /\ tmp \in [Boot -> SUBSET Value] /\ mem \in [Boot -> SUBSET Value]
      /\ queue \in [Boot -> Seq(Write)] /\ file \in [File -> SUBSET Value]
      /\ "creds" \in File /\ "k1" \in File /\ "k2" \in File
      /\ \A m, k \in file["creds"] : m = k
      /\ \A b \in Boot :
           /\ pc[b] = "open" <=> mem[b] # {}
           /\ \A m, k \in mem[b] : m = k
           /\ queue[b] = <<>> => tmp[b] = {}
           /\ pc[b] # "open" => \A i \in DOMAIN queue[b] : ~queue[b][i].live
  BY DEF LockInv, ProcessInv, DataOK, File
<1>00. Sound /\ excused \subseteq excused' /\ \A m \in file["creds"] : Backed(m)
  BY ExcusesGrow DEF Sound, DiskInv
<1>w. ASSUME NEW b \in Boot, Busy(b) PROVE WriterOK(b) /\ \A m \in file["creds"] : MayWrite(b, m)
  BY <1>00, <1>w DEF DiskInv, MayWrite
<1>v. ASSUME NEW b \in Boot, NEW m, MayWrite(b, m) PROVE m \in Value
  <2>1. \A i \in DOMAIN queue[b] : queue[b][i] \in Write
    BY <1>0
  <2>2. \A t \in Write : t.val \in Value
    BY DEF Write
  <2> QED
    BY <1>0, <1>v, <2>1, <2>2 DEF MayWrite
\* Nothing that the invariant looks at.
<1>1. ASSUME UNCHANGED <<file, tmp, mem, queue>>,
             \A b \in Boot : pc'[b] = pc[b] \/ (pc[b] # "open" /\ pc'[b] # "open")
      PROVE  DiskInv'
  <2>1. \A b \in Boot : Busy(b)' <=> Busy(b)
    BY <1>1, Zenon DEF Busy
  <2>2. \A b \in Boot : WriterOK(b) => WriterOK(b)'
    BY <1>1 DEF WriterOK, MayWrite, Backed
  <2> QED
    BY <1>1, <1>00, <2>1, <2>2 DEF DiskInv, Backed
<1>2. ASSUME NEW b \in Boot, Exits(b) PROVE DiskInv'
  <2>1. /\ ~Busy(b)' /\ file' = file
        /\ \A c \in Boot \ {b} : UNCHANGED <<mem[c], queue[c], tmp[c], pc[c]>>
    BY <1>0, <1>2 DEF Exits, Busy
  <2>2. \A c \in Boot \ {b} : Busy(c)' => Busy(c)
    BY <2>1 DEF Busy
  <2> QED
    BY <1>00, <2>1, <2>2, DiskKeeps
\* A session that closes, or is started again, still writes what it had.
<1>3. ASSUME NEW b \in Boot, queue' = [queue EXCEPT ![b] = Frozen(b)],
             mem' = [mem EXCEPT ![b] = {}], UNCHANGED <<file, tmp>>,
             \E s \in {"closed", "claiming", "loading"} : pc' = [pc EXCEPT ![b] = s]
      PROVE  DiskInv'
  <2> DEFINE q == Frozen(b)
  <2>1. /\ queue'[b] = q /\ mem'[b] = {} /\ pc'[b] # "open"
        /\ \A c \in Boot \ {b} : UNCHANGED <<mem[c], queue[c], tmp[c], pc[c]>>
    BY <1>0, <1>3
  <2>2. /\ DOMAIN q = DOMAIN queue[b] /\ (queue[b] = <<>> <=> q = <<>>)
        /\ \A i \in DOMAIN queue[b] :
              /\ ~q[i].live /\ q[i].files = queue[b][i].files
              /\ IF queue[b][i].live /\ queue[b][i].files = <<"creds">>
                 THEN q[i].val \in mem[b]
                 ELSE q[i].val = queue[b][i].val
    BY FrozenQueue
  <2> HIDE DEF q
  <2>3. CASE ~Busy(b)
    <3>1. ~Busy(b)'
      BY <2>1, <2>2, <2>3 DEF Busy
    <3>2. \A c \in Boot \ {b} : Busy(c)' => Busy(c)
      BY <2>1 DEF Busy
    <3> QED
      BY <1>00, <1>3, <2>1, <3>1, <3>2, DiskKeeps
  <2>4. CASE Busy(b)
    <3>1. WriterOK(b) /\ \A m \in file["creds"] : MayWrite(b, m)
      BY <1>w, <2>4
    <3>2. ASSUME NEW m, MayWrite(b, m)' PROVE MayWrite(b, m)
      <4>1. CASE m \in file["creds"]
        BY <4>1 DEF MayWrite
      <4>2. CASE m \in tmp[b] /\ queue'[b][1].files = <<"creds">>
        <5>1. queue[b] # <<>> /\ queue[b] \in Seq(Write)
          BY <1>0, <4>2
        <5>2. 1 \in DOMAIN queue[b]
          BY <5>1, Ends
        <5> QED
          BY <2>1, <2>2, <4>2, <5>2 DEF MayWrite
      <4>3. ASSUME NEW i \in DOMAIN queue'[b], ~IsKeys(queue'[b][i]), m = queue'[b][i].val
            PROVE  MayWrite(b, m)
        BY <2>1, <2>2, <4>3 DEF MayWrite, IsKeys
      <4> QED
        BY <1>3, <2>1, <3>2, <4>1, <4>2, <4>3 DEF MayWrite
    <3>3. \A m : MayWrite(b, m) => Backed(m)'
      BY <1>3, <3>1 DEF WriterOK, Backed
    <3>4. ASSUME NEW i \in DOMAIN queue'[b], IsKeys(queue'[b][i])
          PROVE  /\ \A m : MayWrite(b, m) => Below(m, queue'[b][i].val)
                 /\ \A j \in DOMAIN queue'[b] : IsKeys(queue'[b][j]) => i = j
                 /\ queue'[b][i].files = <<"k2">> => i = 1 /\ file'["k1"] = {queue'[b][i].val}
                 /\ i = 1 /\ tmp'[b] # {} => tmp'[b] = {queue'[b][i].val}
      <4>1. i \in DOMAIN queue[b] /\ IsKeys(queue[b][i]) /\ queue'[b][i].val = queue[b][i].val
            /\ queue'[b][i].files = queue[b][i].files
        BY <2>1, <2>2, <3>4 DEF IsKeys
      <4>2. \A j \in DOMAIN queue'[b] : IsKeys(queue'[b][j]) => j \in DOMAIN queue[b] /\ IsKeys(queue[b][j])
        BY <2>1, <2>2 DEF IsKeys
      <4> QED
        BY <1>3, <3>1, <4>1, <4>2 DEF WriterOK
    <3>5. \A m \in file'["creds"] : MayWrite(b, m)
      BY <1>3, <3>1
    <3> QED
      BY <1>00, <2>1, <2>4, <3>2, <3>3, <3>4, <3>5, WriterKeeps
  <2> QED
    BY <2>3, <2>4
\* Nothing is queued anywhere, and who holds the lock is alone.
<1>4. ASSUME NEW b \in Boot, Load(b) PROVE DiskInv'
  <2>1. /\ UNCHANGED <<file, tmp, queue>> /\ pc' = [pc EXCEPT ![b] = "open"]
        /\ \A c \in Boot \ {b} : UNCHANGED <<mem[c], queue[c], tmp[c], pc[c]>>
    BY <1>0, <1>4 DEF Load
  <2>2. \A c \in Boot : queue[c] = <<>>
    <3> SUFFICES ASSUME excused' = excused \cup {"stale"} PROVE FALSE
      BY <1>4 DEF Load
    <3> QED
      BY DEF Sound
  <2>3. \A c \in Boot \ {b} : ~Busy(c)'
    <3> SUFFICES ASSUME NEW c \in Boot \ {b}, pc[c] = "open" PROVE FALSE
      BY <2>1, <2>2 DEF Busy
    <3>1. OpenersHoldLock
      BY LockInvImplies
    <3>2. lockFile = {Holder(b)} /\ lockFile = {Holder(c)}
      BY <1>00, <1>4, <3>1 DEF OpenersHoldLock, Sound, HasOpen, Load
    <3>3. Holder(b) = Holder(c)
      BY <3>2
    <3> QED
      BY <3>3 DEF Holder
  <2>4. tmp[b] = {} /\ queue'[b] = <<>> /\ DOMAIN queue'[b] = {}
    BY <1>0, <2>1, <2>2
  <2>5. \A m, k \in file["creds"] \cup mem'[b] : m = k
    <3>1. CASE file["creds"] # {} /\ mem' = [mem EXCEPT ![b] = file["creds"]]
      BY <1>0, <3>1
    <3>2. CASE file["creds"] = {} /\ mem' = [mem EXCEPT ![b] = {[id |-> drawn + 1, rev |-> 0]}]
      BY <1>0, <3>2
    <3> QED
      BY <1>4, <3>1, <3>2 DEF Load
  <2>6. \A m \in file["creds"] \cup mem'[b] : m \in Value /\ Backed(m)
    <3>1. CASE file["creds"] # {} /\ mem' = [mem EXCEPT ![b] = file["creds"]]
      BY <1>0, <1>00, <3>1
    <3>2. CASE file["creds"] = {} /\ mem' = [mem EXCEPT ![b] = {[id |-> drawn + 1, rev |-> 0]}]
      <4>1. drawn + 1 \in Nat
        BY DEF DataOK
      <4>2. mem'[b] = {[id |-> drawn + 1, rev |-> 0]}
        BY <1>0, <3>2
      <4> QED
        BY <3>2, <4>1, <4>2 DEF Backed, Value
    <3> QED
      BY <1>4, <3>1, <3>2 DEF Load
  <2>7. \A m : MayWrite(b, m)' <=> m \in file["creds"] \cup mem'[b]
    BY <2>1, <2>4 DEF MayWrite
  <2>8. \A m \in Value : Below(m, m)
    BY DEF Below, Value
  <2>9. \A m : MayWrite(b, m)' => Backed(m)' /\ \A k \in mem'[b] : Below(m, k)
    BY <2>1, <2>5, <2>6, <2>7, <2>8 DEF Backed
  <2>10. WriterOK(b)'
    BY <2>4, <2>9 DEF WriterOK
  <2> QED
    BY <1>00, <2>1, <2>3, <2>10, DiskKeeps
\* The first credentials of a pairing need no keys.
<1>5. ASSUME NEW b \in Boot, Pairs(b) PROVE DiskInv'
  <2>1. PICK m \in mem[b] :
          LET v == [m EXCEPT !.rev = 1] IN
          /\ m.rev = 0 /\ mem' = [mem EXCEPT ![b] = {v}]
          /\ queue' = [queue EXCEPT ![b] = Append(queue[b], Credentials(b, v))]
    BY <1>5 DEF Pairs
  <2> DEFINE v == [m EXCEPT !.rev = 1]
             t == Credentials(b, v)
  <2>2. m \in Value
    BY <1>0
  <2>3. v \in Value /\ v.rev = 1
    BY <2>2 DEF Value
  <2>4. t \in Write /\ ~IsKeys(t) /\ t.live
    BY <2>3 DEF Credentials, Write, IsKeys
  <2>5. /\ queue'[b] = Append(queue[b], t) /\ mem'[b] = {v} /\ pc[b] = "open"
        /\ UNCHANGED <<file, tmp, pc>> /\ Busy(b)
        /\ \A c \in Boot \ {b} : UNCHANGED <<mem[c], queue[c], tmp[c], pc[c]>>
    BY <1>0, <1>5, <2>1 DEF Pairs, Busy
  <2> HIDE DEF v, t
  <2>6. /\ DOMAIN queue'[b] = DOMAIN queue[b] \cup {Len(queue[b]) + 1}
        /\ \A i \in DOMAIN queue[b] : queue'[b][i] = queue[b][i]
        /\ queue'[b][Len(queue[b]) + 1] = t
    BY <1>0, <2>4, <2>5, Appended
  <2>7. WriterOK(b) /\ \A k \in file["creds"] : MayWrite(b, k)
    BY <1>w, <2>5
  <2>8. ASSUME NEW k, MayWrite(b, k)' PROVE MayWrite(b, k) \/ k = v
    <3>1. CASE k \in tmp[b] /\ queue'[b][1].files = <<"creds">>
      <4>1. queue[b] # <<>> /\ queue[b] \in Seq(Write)
        BY <1>0, <3>1
      <4>2. 1 \in DOMAIN queue[b]
        BY <4>1, Ends
      <4> QED
        BY <2>6, <3>1, <4>2 DEF MayWrite
    <3>2. ASSUME NEW i \in DOMAIN queue'[b], ~IsKeys(queue'[b][i]), ~queue'[b][i].live,
                 k = queue'[b][i].val
          PROVE  MayWrite(b, k)
      BY <2>4, <2>6, <3>2 DEF MayWrite
    <3> QED
      BY <2>5, <2>8, <3>1, <3>2 DEF MayWrite
  <2>9. Backed(v) /\ \A k : Below(v, k)
    BY <2>3 DEF Backed, Below
  <2>10. ASSUME NEW k, MayWrite(b, k) PROVE Below(k, v)
    <3>1. k \in Value /\ Below(k, m)
      BY <1>v, <2>1, <2>5, <2>7, <2>10 DEF WriterOK
    <3> QED
      BY <2>1, <3>1 DEF Below, Value
  <2>11. ASSUME NEW i \in DOMAIN queue'[b], IsKeys(queue'[b][i])
         PROVE  /\ \A k : MayWrite(b, k)' => Below(k, queue'[b][i].val)
                /\ \A j \in DOMAIN queue'[b] : IsKeys(queue'[b][j]) => i = j
                /\ queue'[b][i].files = <<"k2">> => i = 1 /\ file'["k1"] = {queue'[b][i].val}
                /\ i = 1 /\ tmp'[b] # {} => tmp'[b] = {queue'[b][i].val}
    <3>1. i \in DOMAIN queue[b] /\ queue'[b][i] = queue[b][i] /\ IsKeys(queue[b][i])
      BY <2>4, <2>6, <2>11
    <3>2. \A j \in DOMAIN queue'[b] : IsKeys(queue'[b][j]) => j \in DOMAIN queue[b] /\ IsKeys(queue[b][j])
      BY <2>4, <2>6
    <3>3. \A k : MayWrite(b, k)' => Below(k, queue[b][i].val)
      BY <2>7, <2>8, <2>9, <3>1 DEF WriterOK
    <3> QED
      BY <2>5, <2>7, <3>1, <3>2, <3>3 DEF WriterOK
  <2>12. \A i \in DOMAIN queue'[b] : queue'[b][i].live
    BY <2>4, <2>5, <2>6, <2>7 DEF WriterOK
  <2>13. \A k : MayWrite(b, k)' => Backed(k)' /\ Below(k, v)
    BY <2>5, <2>7, <2>8, <2>9, <2>10 DEF WriterOK, Backed
  <2>14. WriterOK(b)'
    BY <2>5, <2>11, <2>12, <2>13 DEF WriterOK
  <2>15. \A c \in Boot \ {b} : ~Busy(c)'
    BY <1>00, <2>5 DEF DiskInv, Busy
  <2> QED
    BY <1>00, <2>5, <2>14, <2>15, DiskKeeps
\* With no keys in the queue, the new ones come after all there is.
<1>6. ASSUME NEW b \in Boot, SetKeys(b) PROVE DiskInv'
  <2>1. PICK m \in mem[b] :
          queue' = [queue EXCEPT ![b] =
            Append(queue[b], [files |-> <<"k1", "k2">>, val |-> [m EXCEPT !.rev = m.rev + 1],
                              live |-> TRUE])]
    BY <1>6 DEF SetKeys
  <2> DEFINE v == [m EXCEPT !.rev = m.rev + 1]
             t == [files |-> <<"k1", "k2">>, val |-> v, live |-> TRUE]
             n == Len(queue[b]) + 1
  <2>2. m \in Value
    BY <1>0
  <2>3. v \in Value /\ v.id = m.id /\ v.rev = m.rev + 1
    BY <2>2 DEF Value
  <2>4. t \in Write /\ IsKeys(t) /\ t.live /\ t.files # <<"k2">> /\ t.files # <<"creds">> /\ t.val = v
    <3>1. <<"k1", "k2">> # <<"creds">> /\ <<"k1", "k2">> # <<"k2">>
      OBVIOUS
    <3> QED
      BY <2>3, <3>1 DEF Write, IsKeys
  <2>5. /\ queue'[b] = Append(queue[b], t) /\ pc[b] = "open"
        /\ UNCHANGED <<file, tmp, pc, mem>> /\ Busy(b)
        /\ \A c \in Boot \ {b} : UNCHANGED <<mem[c], queue[c], tmp[c], pc[c]>>
        /\ \A i \in DOMAIN queue[b] : queue[b][i].live => queue[b][i].files[1] = "creds"
    BY <1>0, <1>6, <2>1 DEF SetKeys, Busy
  <2> HIDE DEF v, t
  <2>6. /\ DOMAIN queue'[b] = DOMAIN queue[b] \cup {n}
        /\ \A i \in DOMAIN queue[b] : queue'[b][i] = queue[b][i]
        /\ queue'[b][n] = t /\ n \notin DOMAIN queue[b]
    BY <1>0, <2>4, <2>5, Appended
  <2>7. WriterOK(b) /\ \A k \in file["creds"] : MayWrite(b, k)
    BY <1>w, <2>5
  <2>8. \A i \in DOMAIN queue[b] : ~IsKeys(queue[b][i]) /\ queue[b][i].live
    <3> SUFFICES ASSUME NEW i \in DOMAIN queue[b] PROVE ~IsKeys(queue[b][i]) /\ queue[b][i].live
      OBVIOUS
    <3>1. queue[b][i].live /\ queue[b][i].files[1] = "creds" /\ queue[b][i] \in Write
      BY <1>0, <2>5, <2>7 DEF WriterOK
    <3> QED
      BY <3>1 DEF IsKeys, Write
  <2>9. 1 = n \/ 1 \in DOMAIN queue[b]
    BY <1>0
  <2>10. 1 = n => tmp[b] = {}
    BY <1>0
  <2> HIDE DEF n
  <2>11. ASSUME NEW k, MayWrite(b, k)' PROVE MayWrite(b, k)
    BY <2>4, <2>5, <2>6, <2>8, <2>9, <2>10, <2>11 DEF MayWrite, IsKeys
  <2>12. ASSUME NEW k, MayWrite(b, k) PROVE Below(k, v)
    <3>1. k \in Value /\ Below(k, m)
      BY <1>v, <2>1, <2>5, <2>7, <2>12 DEF WriterOK
    <3> QED
      BY <2>2, <2>3, <3>1 DEF Below, Value
  <2>13. ASSUME NEW i \in DOMAIN queue'[b], IsKeys(queue'[b][i])
         PROVE  /\ \A k : MayWrite(b, k) => Below(k, queue'[b][i].val)
                /\ \A j \in DOMAIN queue'[b] : IsKeys(queue'[b][j]) => i = j
                /\ queue'[b][i].files = <<"k2">> => i = 1 /\ file'["k1"] = {queue'[b][i].val}
                /\ i = 1 /\ tmp'[b] # {} => tmp'[b] = {queue'[b][i].val}
    <3>1. i = n
      BY <2>6, <2>8, <2>13
    <3>2. \A j \in DOMAIN queue'[b] : IsKeys(queue'[b][j]) => i = j
      BY <2>6, <2>8, <3>1
    <3> QED
      BY <2>4, <2>5, <2>6, <2>10, <2>12, <3>1, <3>2
  <2>14. \A i \in DOMAIN queue'[b] : queue'[b][i].live
    BY <2>4, <2>6, <2>8
  <2>15. /\ \A k : MayWrite(b, k) => Backed(k)'
         /\ \A k : MayWrite(b, k) => \A o \in mem'[b] : Below(k, o)
    BY <2>5, <2>7 DEF WriterOK, Backed
  <2>16. \A k \in file'["creds"] : MayWrite(b, k)
    BY <2>5, <2>7
  <2> QED
    BY <1>00, <2>5, <2>11, <2>13, <2>14, <2>15, <2>16, WriterKeeps
<1>7. ASSUME NEW b \in Boot, WriteTemporary(b) PROVE DiskInv'
  <2> DEFINE t == queue[b][1]
  <2>1. /\ queue[b] # <<>> /\ tmp[b] = {} /\ UNCHANGED <<pc, file, mem, queue>> /\ Busy(b)
        /\ tmp' = [tmp EXCEPT ![b] = Body(b)]
    BY <1>7 DEF WriteTemporary, Busy
  <2>2. /\ tmp'[b] = Body(b)
        /\ \A c \in Boot \ {b} : UNCHANGED <<mem[c], queue[c], tmp[c], pc[c]>>
    BY <1>0, <2>1
  <2>3. 1 \in DOMAIN queue[b]
    BY <1>0, <2>1, Ends
  <2>4. Body(b) = IF t.live /\ t.files = <<"creds">> THEN mem[b] ELSE {t.val}
    BY <2>1, BodyValue
  <2>5. WriterOK(b) /\ \A m \in file["creds"] : MayWrite(b, m)
    BY <1>w, <2>1
  <2>6. ASSUME NEW m, m \in Body(b), t.files = <<"creds">> PROVE MayWrite(b, m)
    BY <2>3, <2>4, <2>6 DEF MayWrite, IsKeys
  <2>7. \A m : MayWrite(b, m)' => MayWrite(b, m)
    BY <2>1, <2>2, <2>6 DEF MayWrite
  <2>8. ASSUME NEW i \in DOMAIN queue'[b], IsKeys(queue'[b][i])
        PROVE  /\ \A m : MayWrite(b, m) => Below(m, queue'[b][i].val)
               /\ \A j \in DOMAIN queue'[b] : IsKeys(queue'[b][j]) => i = j
               /\ queue'[b][i].files = <<"k2">> => i = 1 /\ file'["k1"] = {queue'[b][i].val}
               /\ i = 1 /\ tmp'[b] # {} => tmp'[b] = {queue'[b][i].val}
    <3>1. i = 1 => tmp'[b] = {queue'[b][i].val}
      BY <2>1, <2>2, <2>4, <2>8 DEF IsKeys
    <3> QED
      BY <2>1, <2>5, <2>8, <3>1 DEF WriterOK
  <2>9. /\ \A m : MayWrite(b, m) => Backed(m)'
        /\ \A m \in file'["creds"] : MayWrite(b, m)
        /\ pc'[b] = "open" =>
             /\ \A i \in DOMAIN queue'[b] : queue'[b][i].live
             /\ \A m : MayWrite(b, m) => \A k \in mem'[b] : Below(m, k)
    BY <2>1, <2>5 DEF WriterOK, Backed
  <2> QED
    BY <1>00, <2>1, <2>2, <2>7, <2>8, <2>9, WriterKeeps
\* The head of the queue is over: what is left are the tasks after it.
<1>8. ASSUME NEW b \in Boot, queue[b] # <<>>, queue'[b] = Tail(queue[b]), tmp'[b] = {},
             pc' = pc, mem' = mem, \A c \in Boot \ {b} : UNCHANGED <<queue[c], tmp[c]>>,
             \A m \in file'["creds"] : MayWrite(b, m),
             \A m : MayWrite(b, m) => Backed(m)'
      PROVE  DiskInv'
  <2>1. /\ 1 \in DOMAIN queue[b] /\ Busy(b)
        /\ \A i \in DOMAIN Tail(queue[b]) :
             i \in Nat /\ i + 1 \in DOMAIN queue[b] /\ Tail(queue[b])[i] = queue[b][i + 1]
    BY <1>0, <1>8, Ends DEF Busy
  <2>2. WriterOK(b)
    BY <1>w, <2>1
  <2>3. ASSUME NEW m, MayWrite(b, m)' PROVE MayWrite(b, m)
    BY <1>8, <2>1, <2>3 DEF MayWrite
  <2>4. ASSUME NEW i \in DOMAIN queue'[b], IsKeys(queue'[b][i])
        PROVE  /\ \A m : MayWrite(b, m) => Below(m, queue'[b][i].val)
               /\ \A j \in DOMAIN queue'[b] : IsKeys(queue'[b][j]) => i = j
               /\ queue'[b][i].files # <<"k2">>
    <3>1. /\ i \in Nat /\ i + 1 \in DOMAIN queue[b] /\ queue'[b][i] = queue[b][i + 1]
          /\ IsKeys(queue[b][i + 1])
      BY <1>8, <2>1, <2>4
    <3>2. i \in DOMAIN Tail(queue[b]) => i # 0
      BY <1>0
    <3>3. i + 1 # 1
      BY <1>8, <3>1, <3>2
    <3>4. \A j \in DOMAIN queue'[b] : IsKeys(queue'[b][j]) => i = j
      <4> SUFFICES ASSUME NEW j \in DOMAIN queue'[b], IsKeys(queue'[b][j]) PROVE i = j
        OBVIOUS
      <4>1. j \in Nat /\ j + 1 \in DOMAIN queue[b] /\ IsKeys(queue[b][j + 1])
        BY <1>8, <2>1
      <4>2. i + 1 = j + 1
        BY <2>2, <3>1, <4>1 DEF WriterOK
      <4> QED
        BY <3>1, <4>1, <4>2
    <3> QED
      BY <2>2, <3>1, <3>3, <3>4 DEF WriterOK
  <2>5. pc'[b] = "open" =>
             /\ \A i \in DOMAIN queue'[b] : queue'[b][i].live
             /\ \A m : MayWrite(b, m) => \A k \in mem'[b] : Below(m, k)
    BY <1>8, <2>1, <2>2 DEF WriterOK
  <2>6. \A c \in Boot \ {b} : UNCHANGED <<mem[c], queue[c], tmp[c], pc[c]>>
    BY <1>8
  <2> QED
    BY <1>00, <1>8, <2>1, <2>3, <2>4, <2>5, <2>6, WriterKeeps
<1>9. ASSUME NEW b \in Boot, WriteFails(b) PROVE DiskInv'
  <2>1. /\ queue[b] # <<>> /\ queue'[b] = Tail(queue[b]) /\ tmp'[b] = {}
        /\ UNCHANGED <<file, mem, pc>> /\ Busy(b)
        /\ \A c \in Boot \ {b} : UNCHANGED <<queue[c], tmp[c]>>
    BY <1>0, <1>9 DEF WriteFails, Busy
  <2>2. WriterOK(b) /\ \A m \in file["creds"] : MayWrite(b, m)
    BY <1>w, <2>1
  <2>3. /\ \A m \in file'["creds"] : MayWrite(b, m)
        /\ \A m : MayWrite(b, m) => Backed(m)'
    BY <2>1, <2>2 DEF WriterOK, Backed
  <2> QED
    BY <1>8, <2>1, <2>3
<1>10. ASSUME NEW b \in Boot, Rename(b) PROVE DiskInv'
  <2> DEFINE t == queue[b][1]
  <2>1. /\ tmp' = [tmp EXCEPT ![b] = {}] /\ pc' = pc
        /\ queue[b] # <<>> /\ tmp[b] # {} /\ t \in Write /\ queue[b] \in Seq(Write)
        /\ tmp[b] \in SUBSET Value /\ \A m, k \in tmp[b] : m = k
    BY <1>0, <1>10, RenameCases DEF Rename, DataOK
  <2>2. 1 \in DOMAIN queue[b] /\ Busy(b) /\ tmp'[b] = {}
    BY <1>0, <2>1, Ends DEF Busy
  <2>3. WriterOK(b) /\ \A m \in file["creds"] : MayWrite(b, m)
    BY <1>w, <2>2
  <2>4. IsKeys(t) => tmp[b] = {t.val} /\ \A m : MayWrite(b, m) => Below(m, t.val)
    BY <2>1, <2>2, <2>3 DEF WriterOK
  <2>5. \A m : MayWrite(b, m) => Backed(m)
    BY <2>3 DEF WriterOK
  <2>6. pc[b] # "open" => \A i \in DOMAIN queue[b] : ~queue[b][i].live
    BY <1>0
  <2> HIDE DEF t
  <2>7. CASE /\ t.files = <<"creds">> /\ file' = [file EXCEPT !["creds"] = tmp[b]]
             /\ queue' = [queue EXCEPT ![b] = Tail(queue[b])] /\ mem' = mem
    <3>1. /\ file'["creds"] = tmp[b] /\ file'["k1"] = file["k1"] /\ file'["k2"] = file["k2"]
          /\ queue'[b] = Tail(queue[b])
          /\ \A c \in Boot \ {b} : UNCHANGED <<queue[c], tmp[c]>>
      BY <1>0, <2>1, <2>7
    <3>2. \A m \in file'["creds"] : MayWrite(b, m)
      BY <2>7, <3>1 DEF MayWrite, t
    <3>3. \A m : MayWrite(b, m) => Backed(m)'
      BY <2>5, <3>1 DEF Backed
    <3> QED
      BY <1>8, <2>1, <2>2, <2>7, <3>1, <3>2, <3>3
  <2>8. CASE /\ t.files = <<"k2">> /\ file' = [file EXCEPT !["k2"] = tmp[b]]
    <3>0. IsKeys(t) /\ tmp[b] = {t.val}
      BY <2>4, <2>8 DEF IsKeys
    <3>1. /\ file'["k1"] = {t.val} /\ file'["k2"] = {t.val} /\ file'["creds"] = file["creds"]
      <4>1. file["k1"] = {t.val}
        BY <2>2, <2>3, <2>8, <3>0 DEF WriterOK, t
      <4> QED
        BY <1>0, <2>8, <3>0, <4>1
    <3>2. \A m \in Value : Below(m, t.val) => Backed(m)'
      BY <3>1 DEF Backed, Below, Value
    <3>3. \A m : MayWrite(b, m) => Backed(m)'
      BY <1>v, <2>4, <3>0, <3>2
    <3>4. \A m \in file'["creds"] : MayWrite(b, m)
      BY <2>3, <3>1
    <3>5. CASE ~t.live /\ queue' = [queue EXCEPT ![b] = Tail(queue[b])] /\ mem' = mem
      <4>1. /\ queue'[b] = Tail(queue[b])
            /\ \A c \in Boot \ {b} : UNCHANGED <<queue[c], tmp[c]>>
        BY <1>0, <2>1, <3>5
      <4> QED
        BY <1>8, <2>1, <2>2, <3>3, <3>4, <3>5, <4>1
    \* The session goes on: its new credentials have their keys.
    <3>6. CASE /\ t.live /\ queue' = [queue EXCEPT ![b] = Append(Tail(queue[b]), Creds(t.val))]
               /\ mem' = [mem EXCEPT ![b] = {t.val}]
      <4> DEFINE s == Tail(queue[b])
                 r == Append(s, Creds(t.val))
      <4>0. t.val \in Value
        BY <2>1 DEF Write
      <4>1. Creds(t.val) \in Write /\ ~IsKeys(Creds(t.val)) /\ Creds(t.val).live
        BY <4>0 DEF Creds, Write, IsKeys
      <4>2. /\ s \in Seq(Write)
            /\ \A i \in DOMAIN s : i \in Nat /\ i + 1 \in DOMAIN queue[b] /\ s[i] = queue[b][i + 1]
        BY <2>1, Ends
      <4>3. \A i \in DOMAIN s : i # 0
        BY <4>2
      <4> HIDE DEF s
      <4>4. /\ DOMAIN r = DOMAIN s \cup {Len(s) + 1} /\ r[Len(s) + 1] = Creds(t.val)
            /\ \A i \in DOMAIN s : r[i] = s[i]
        BY <4>1, <4>2, Appended
      <4> HIDE DEF r
      <4>5. queue'[b] = r /\ mem'[b] = {t.val} /\ pc[b] = "open"
        BY <1>0, <2>2, <2>6, <3>6 DEF r, s, t
      <4>6. \A i \in DOMAIN queue[b] : queue[b][i].live /\ (IsKeys(queue[b][i]) => i = 1)
        BY <2>2, <2>3, <3>0, <4>5 DEF WriterOK, t
      <4>7. ASSUME NEW i \in DOMAIN s PROVE s[i].live /\ ~IsKeys(s[i])
        <5>1. i \in Nat /\ i + 1 # 1
          BY <4>2, <4>3
        <5> QED
          BY <4>2, <4>6, <5>1
      <4>8. \A i \in DOMAIN queue'[b] : queue'[b][i].live /\ ~IsKeys(queue'[b][i])
        BY <4>1, <4>4, <4>5, <4>7
      <4>9. \A m : MayWrite(b, m)' => m \in file["creds"] \cup {t.val}
        BY <2>2, <3>1, <4>5, <4>8 DEF MayWrite
      <4>10. \A m \in file["creds"] \cup {t.val} : m \in Value /\ Below(m, t.val)
        BY <1>v, <2>3, <2>4, <3>0, <4>0 DEF Below, Value
      <4>11. WriterOK(b)'
        BY <3>2, <4>5, <4>8, <4>9, <4>10 DEF WriterOK
      <4>12. \A c \in Boot \ {b} : UNCHANGED <<mem[c], queue[c], tmp[c], pc[c]>>
        BY <1>0, <2>1, <3>6
      <4>13. \A c \in Boot \ {b} : ~Busy(c)'
        BY <1>00, <2>2, <4>12 DEF DiskInv, Busy
      <4>14. \A m \in file'["creds"] : Backed(m)'
        BY <3>3, <3>4
      <4> QED
        BY <1>00, <4>11, <4>12, <4>13, <4>14, DiskKeeps
    <3>7. <<"k2">> # <<"k1", "k2">> /\ <<"k2">> # <<"creds">>
      OBVIOUS
    <3> QED
      BY <1>10, <2>8, <3>5, <3>6, <3>7, RenameCases DEF t
  <2>9. CASE /\ t.files = <<"k1", "k2">> /\ file' = [file EXCEPT !["k1"] = tmp[b]]
             /\ queue' = [queue EXCEPT ![b] = <<HalfDone(t)>> \o Tail(queue[b])]
             /\ mem' = mem
    <3> DEFINE r == <<HalfDone(t)>> \o Tail(queue[b])
    <3>0. IsKeys(t) /\ tmp[b] = {t.val}
      <4>1. <<"k1", "k2">> # <<"creds">>
        OBVIOUS
      <4> QED
        BY <2>4, <2>9, <4>1 DEF IsKeys
    <3>1. /\ HalfDone(t) \in Write /\ HalfDone(t).files = <<"k2">> /\ HalfDone(t).val = t.val
          /\ HalfDone(t).live = t.live /\ IsKeys(HalfDone(t))
      BY <2>1 DEF HalfDone, Write, IsKeys
    <3>2. /\ DOMAIN r = DOMAIN queue[b] /\ r[1] = HalfDone(t)
          /\ \A i \in DOMAIN queue[b] : i # 1 => r[i] = queue[b][i]
      BY <2>1, <3>1, Beheaded
    <3> HIDE DEF r
    <3>3. /\ queue'[b] = r /\ file'["k1"] = {t.val} /\ file'["k2"] = file["k2"]
          /\ file'["creds"] = file["creds"]
          /\ \A c \in Boot \ {b} : UNCHANGED <<mem[c], queue[c], tmp[c], pc[c]>>
      <4>1. queue'[b] = r
        BY <1>0, <2>9 DEF r
      <4>2. \A c \in Boot \ {b} : UNCHANGED <<mem[c], queue[c], tmp[c], pc[c]>>
        BY <1>0, <2>1, <2>9
      <4>3. file'["k1"] = {t.val} /\ file'["k2"] = file["k2"] /\ file'["creds"] = file["creds"]
        BY <1>0, <2>9, <3>0
      <4> QED
        BY <4>1, <4>2, <4>3
    <3>4. ASSUME NEW m, MayWrite(b, m)' PROVE MayWrite(b, m)
      <4> SUFFICES ASSUME NEW i \in DOMAIN r, ~IsKeys(r[i]), ~r[i].live, m = r[i].val
                   PROVE  MayWrite(b, m)
        BY <2>2, <2>9, <3>3, <3>4 DEF MayWrite
      <4>1. i # 1
        BY <3>1, <3>2
      <4> QED
        BY <3>2, <4>1 DEF MayWrite
    <3>5. ASSUME NEW m, MayWrite(b, m) PROVE Backed(m)'
      <4>1. m \in Value /\ Below(m, t.val) /\ Backed(m)
        BY <1>v, <2>4, <2>5, <3>0, <3>5
      <4> QED
        BY <3>3, <4>1 DEF Backed, Below, Value
    <3>6. \A i \in DOMAIN queue[b] : IsKeys(queue[b][i]) => i = 1
      BY <2>2, <2>3, <3>0 DEF WriterOK, t
    <3>7. ASSUME NEW i \in DOMAIN queue'[b], IsKeys(queue'[b][i])
          PROVE  i = 1 /\ queue'[b][i].val = t.val
      BY <3>1, <3>2, <3>3, <3>6, <3>7
    <3>8. ASSUME NEW i \in DOMAIN queue'[b], IsKeys(queue'[b][i])
          PROVE  /\ \A m : MayWrite(b, m) => Below(m, queue'[b][i].val)
                 /\ \A j \in DOMAIN queue'[b] : IsKeys(queue'[b][j]) => i = j
                 /\ queue'[b][i].files = <<"k2">> => i = 1 /\ file'["k1"] = {queue'[b][i].val}
                 /\ i = 1 /\ tmp'[b] # {} => tmp'[b] = {queue'[b][i].val}
      BY <2>2, <2>4, <3>0, <3>3, <3>7, <3>8
    <3>9. pc'[b] = "open" =>
             /\ \A i \in DOMAIN queue'[b] : queue'[b][i].live
             /\ \A m : MayWrite(b, m) => \A k \in mem'[b] : Below(m, k)
      <4>1. pc[b] = "open" => t.live /\ \A i \in DOMAIN queue[b] : queue[b][i].live
        BY <2>2, <2>3 DEF WriterOK, t
      <4>2. pc[b] = "open" => \A i \in DOMAIN r : r[i].live
        BY <3>1, <3>2, <4>1
      <4> QED
        BY <2>1, <2>3, <2>9, <3>3, <4>2 DEF WriterOK
    <3>10. \A m \in file'["creds"] : MayWrite(b, m)
      BY <2>3, <3>3
    <3> QED
      BY <1>00, <2>2, <3>3, <3>4, <3>5, <3>8, <3>9, <3>10, WriterKeeps
  <2> QED
    BY <1>10, <2>7, <2>8, <2>9, RenameCases DEF t
\* The directory goes, and nobody is left who writes.
<1>11. ASSUME NEW b \in Boot, Purge(b) \/ Migrate(b) PROVE DiskInv'
  <2>1. Closed(b) /\ Removed(b)
    BY <1>11 DEF Purge, Migrate
  <2>2. /\ \A c \in Boot : queue[c] = <<>>
        /\ \A c \in Boot \ {b} : ~held[c]
    BY <2>1 DEF Removed, Sound
  <2>3. \A c \in Boot \ {b} : pc[c] # "open"
    BY <2>2 DEF LockInv, ProcessInv, HasOpen
  <2>4. queue'[b] = <<>> /\ pc'[b] # "open"
    BY <1>0, <2>1, <2>2, FrozenQueue DEF Closed
  <2>5. \A c \in Boot \ {b} : queue'[c] = queue[c] /\ pc'[c] = pc[c]
    BY <1>0, <2>1 DEF Closed
  <2>6. \A c \in Boot : ~Busy(c)'
    BY <2>2, <2>3, <2>4, <2>5 DEF Busy
  <2>7. file'["creds"] = {}
    BY <1>0, <2>1 DEF Removed
  <2> QED
    BY <2>6, <2>7 DEF DiskInv
<1>12. ASSUME NEW b \in Boot, StartOwned(b) PROVE DiskInv'
  BY <1>3, <1>12 DEF StartOwned
<1>13. ASSUME NEW b \in Boot, StopSession(b) \/ StopKeeping(b) PROVE DiskInv'
  BY <1>3, <1>13 DEF StopSession, StopKeeping, Closed
<1>14. ASSUME NEW b \in Boot, ClaimLock(b) \/ OpenThrows(b) PROVE DiskInv'
  <2>1. /\ UNCHANGED <<file, tmp, mem, queue>> /\ pc[b] # "open" /\ pc'[b] # "open"
        /\ \A c \in Boot \ {b} : pc'[c] = pc[c]
    BY <1>0, <1>14 DEF ClaimLock, OpenThrows
  <2> QED
    BY <1>1, <2>1
<1>15. ASSUME NEW b \in Boot, Boots(b) \/ StoreMessage(b) PROVE DiskInv'
  BY <1>1, <1>15 DEF Boots, StoreMessage
<1>16. ASSUME NEW p \in Pid, ForeignProgram(p) PROVE DiskInv'
  BY <1>1, <1>16 DEF ForeignProgram
<1>17. CASE UNCHANGED dirVars
  BY <1>1, <1>17 DEF dirVars
<1> QED
  BY <1>2, <1>4, <1>5, <1>6, <1>7, <1>9, <1>10, <1>11, <1>12, <1>13, <1>14, <1>15,
     <1>16, <1>17 DEF DirNext

(* What an open session has in memory is on disk, or a task of its queue   *)
(* is still going to write it.                                             *)
Saved(b) ==
  \A m \in mem[b] :
    /\ dir
    /\ m.rev = 0 => queue[b] = <<>>
    /\ \/ m.rev = 0 \/ file["creds"] = {m}
       \/ \E i \in DOMAIN queue[b] : ~IsKeys(queue[b][i])
    /\ tmp[b] # {} /\ ~IsKeys(queue[b][1]) => tmp[b] = mem[b]
    /\ \A i \in DOMAIN queue[b] : IsKeys(queue[b][i]) => queue[b][i].val.rev > 0

SavedInv == excused = {} => \A b \in Boot : Saved(b)

LEMMA SavedInit == DirInit => SavedInv
  BY DEF DirInit, SavedInv, Saved

LEMMA SavedKeeps ==
  ASSUME SavedInv, excused = {}, NEW b \in Boot, Saved(b)',
         \A c \in Boot \ {b} :
           mem'[c] = {} \/ (UNCHANGED <<mem[c], queue[c], tmp[c], file>> /\ (dir => dir'))
  PROVE  SavedInv'
<1>1. ASSUME NEW c \in Boot \ {b} PROVE Saved(c)'
  BY <1>1 DEF SavedInv, Saved
<1> QED
  BY <1>1 DEF SavedInv

LEMMA SavedStep ==
  LockInv /\ DataOK /\ DiskInv /\ SavedInv /\ [DirNext]_dirVars => SavedInv'
<1> SUFFICES ASSUME LockInv, DataOK, DiskInv, SavedInv, [DirNext]_dirVars, excused' = {}
             PROVE  SavedInv'
  BY DEF SavedInv
<1>0. /\ tmp \in [Boot -> SUBSET Value] /\ mem \in [Boot -> SUBSET Value]
      /\ queue \in [Boot -> Seq(Write)] /\ file \in [File -> SUBSET Value]
      /\ "creds" \in File /\ "k1" \in File /\ "k2" \in File
      /\ \A m, k \in file["creds"] : m = k
      /\ \A b \in Boot :
           /\ pc[b] = "open" <=> mem[b] # {}
           /\ \A m, k \in mem[b] : m = k
           /\ queue[b] = <<>> => tmp[b] = {}
  BY DEF DataOK, File
<1>00. excused = {} /\ Sound
  BY ExcusesGrow DEF Sound
<1>s. \A b \in Boot : Saved(b)
  BY <1>00 DEF SavedInv
\* An open session is the only one that writes, and its tasks follow it.
<1>w. ASSUME NEW b \in Boot, mem[b] # {}
      PROVE  \A i \in DOMAIN queue[b] : queue[b][i].live
  BY <1>0, <1>00, <1>w DEF DiskInv, WriterOK, Busy
<1>x. ASSUME NEW b \in Boot, queue[b] # <<>>, NEW c \in Boot \ {b} PROVE mem[c] = {}
  BY <1>0, <1>00, <1>x DEF DiskInv, Busy
<1>1. ASSUME UNCHANGED <<file, tmp, mem, queue>>, dir => dir' PROVE SavedInv'
  BY <1>1, <1>s DEF SavedInv, Saved
<1>2. ASSUME NEW b \in Boot, mem' = [mem EXCEPT ![b] = {}], file' = file, dir => dir',
             \A c \in Boot \ {b} : UNCHANGED <<queue[c], tmp[c]>>
      PROVE  SavedInv'
  <2>1. Saved(b)' /\ \A c \in Boot \ {b} : UNCHANGED mem[c]
    BY <1>0, <1>2 DEF Saved
  <2> QED
    BY <1>00, <1>2, <2>1, SavedKeeps
<1>3. ASSUME NEW b \in Boot, Exits(b) PROVE SavedInv'
  BY <1>0, <1>2, <1>3 DEF Exits
<1>4. ASSUME NEW b \in Boot, StartOwned(b) PROVE SavedInv'
  <2>1. /\ mem' = [mem EXCEPT ![b] = {}] /\ file' = file /\ dir' /\ tmp' = tmp
        /\ \A c \in Boot \ {b} : queue'[c] = queue[c]
    BY <1>0, <1>4 DEF StartOwned
  <2> QED
    BY <1>2, <2>1
<1>5. ASSUME NEW b \in Boot, StopSession(b) \/ StopKeeping(b) PROVE SavedInv'
  <2>1. /\ mem' = [mem EXCEPT ![b] = {}] /\ file' = file /\ (dir => dir') /\ tmp' = tmp
        /\ \A c \in Boot \ {b} : queue'[c] = queue[c]
    BY <1>0, <1>5 DEF StopSession, StopKeeping, Closed
  <2> QED
    BY <1>2, <2>1
<1>6. ASSUME NEW b \in Boot, Load(b) PROVE SavedInv'
  <2>1. /\ dir' /\ UNCHANGED <<file, tmp, queue>>
        /\ \A c \in Boot \ {b} : UNCHANGED mem[c]
    BY <1>0, <1>6 DEF Load
  <2>2. queue[b] = <<>> /\ tmp[b] = {} /\ DOMAIN queue[b] = {}
    <3>1. \A c \in Boot : queue[c] = <<>>
      BY <1>6 DEF Load
    <3> QED
      BY <1>0, <3>1
  <2>3. ASSUME NEW m \in mem'[b] PROVE m.rev = 0 \/ file["creds"] = {m}
    <3>1. CASE mem' = [mem EXCEPT ![b] = file["creds"]]
      BY <1>0, <2>3, <3>1
    <3>2. CASE mem' = [mem EXCEPT ![b] = {[id |-> drawn + 1, rev |-> 0]}]
      BY <1>0, <2>3, <3>2
    <3> QED
      BY <1>6, <3>1, <3>2 DEF Load
  <2>4. Saved(b)'
    BY <2>1, <2>2, <2>3 DEF Saved
  <2> QED
    BY <1>00, <2>1, <2>4, SavedKeeps
<1>7. ASSUME NEW b \in Boot, Pairs(b) PROVE SavedInv'
  <2>1. PICK m \in mem[b] :
          LET v == [m EXCEPT !.rev = 1] IN
          /\ m.rev = 0 /\ mem' = [mem EXCEPT ![b] = {v}]
          /\ queue' = [queue EXCEPT ![b] = Append(queue[b], Credentials(b, v))]
    BY <1>7 DEF Pairs
  <2> DEFINE v == [m EXCEPT !.rev = 1]
             t == Credentials(b, v)
  <2>2. m \in Value
    BY <1>0
  <2>3. v \in Value /\ v.rev = 1
    BY <2>2 DEF Value
  <2>4. t \in Write /\ ~IsKeys(t)
    BY <2>3 DEF Credentials, Write, IsKeys
  <2>5. /\ queue'[b] = Append(queue[b], t) /\ mem'[b] = {v}
        /\ UNCHANGED <<file, tmp, dir>>
        /\ \A c \in Boot \ {b} : UNCHANGED <<mem[c], queue[c]>>
    BY <1>0, <1>7, <2>1 DEF Pairs
  <2>6. dir /\ queue[b] = <<>> /\ tmp[b] = {}
    BY <1>0, <1>s, <2>1 DEF Saved
  <2> HIDE DEF v, t
  <2>7. /\ DOMAIN queue'[b] = {1} /\ queue'[b][1] = t
    BY <2>5, <2>6
  <2>8. Saved(b)'
    BY <2>3, <2>4, <2>5, <2>6, <2>7 DEF Saved
  <2> QED
    BY <1>00, <2>5, <2>8, SavedKeeps
<1>8. ASSUME NEW b \in Boot, SetKeys(b) PROVE SavedInv'
  <2>1. PICK m \in mem[b] :
          /\ m.rev > 0
          /\ queue' = [queue EXCEPT ![b] =
              Append(queue[b], [files |-> <<"k1", "k2">>, val |-> [m EXCEPT !.rev = m.rev + 1],
                                live |-> TRUE])]
    BY <1>8 DEF SetKeys
  <2> DEFINE v == [m EXCEPT !.rev = m.rev + 1]
             t == [files |-> <<"k1", "k2">>, val |-> v, live |-> TRUE]
             n == Len(queue[b]) + 1
  <2>2. m \in Value
    BY <1>0
  <2>3. v \in Value /\ v.rev > 0
    BY <2>2 DEF Value
  <2>4. t \in Write /\ t.val = v /\ m.rev # 0
    BY <2>1, <2>2, <2>3 DEF Write, Value
  <2>5. /\ queue'[b] = Append(queue[b], t)
        /\ UNCHANGED <<file, tmp, dir, mem>>
        /\ \A c \in Boot \ {b} : UNCHANGED <<queue[c]>>
    BY <1>0, <1>8, <2>1 DEF SetKeys
  <2> HIDE DEF v, t
  <2>6. /\ DOMAIN queue'[b] = DOMAIN queue[b] \cup {n}
        /\ \A i \in DOMAIN queue[b] : queue'[b][i] = queue[b][i]
        /\ queue'[b][n] = t
    BY <1>0, <2>4, <2>5, Appended
  <2>7. tmp[b] # {} => 1 \in DOMAIN queue[b]
    BY <1>0
  <2> HIDE DEF n
  <2>8. Saved(b)'
    <3> SUFFICES ASSUME NEW k \in mem[b]
                 PROVE  /\ dir /\ k.rev # 0
                        /\ \/ file["creds"] = {k}
                           \/ \E i \in DOMAIN queue'[b] : ~IsKeys(queue'[b][i])
                        /\ tmp[b] # {} /\ ~IsKeys(queue'[b][1]) => tmp[b] = mem[b]
                        /\ \A i \in DOMAIN queue'[b] : IsKeys(queue'[b][i]) => queue'[b][i].val.rev > 0
      BY <2>5 DEF Saved
    <3>1. k = m
      BY <1>0, <2>1
    <3> QED
      BY <1>s, <2>3, <2>4, <2>6, <2>7, <3>1 DEF Saved
  <2> QED
    BY <1>00, <2>5, <2>8, SavedKeeps
<1>9. ASSUME NEW b \in Boot, WriteTemporary(b) PROVE SavedInv'
  <2>1. /\ queue[b] # <<>> /\ UNCHANGED <<dir, file, mem, queue>>
        /\ tmp' = [tmp EXCEPT ![b] = Body(b)]
    BY <1>9 DEF WriteTemporary
  <2>2. 1 \in DOMAIN queue[b] /\ tmp'[b] = Body(b) /\ \A c \in Boot \ {b} : UNCHANGED <<tmp[c]>>
    BY <1>0, <2>1, Ends
  <2>3. mem[b] # {} /\ ~IsKeys(queue[b][1]) => Body(b) = mem[b]
    BY <1>w, <2>1, <2>2, BodyValue DEF IsKeys
  <2>4. Saved(b)'
    BY <1>s, <2>1, <2>2, <2>3 DEF Saved
  <2> QED
    BY <1>00, <2>1, <2>2, <2>4, SavedKeeps
<1>10. ASSUME NEW b \in Boot, WriteFails(b) PROVE SavedInv'
  <2>1. mem[b] = {}
    <3>1. mem[b] # {} => dir
      BY <1>s DEF Saved
    <3> QED
      BY <1>10, <3>1 DEF WriteFails
  <2>2. /\ UNCHANGED <<dir, file, mem>>
        /\ \A c \in Boot \ {b} : UNCHANGED <<queue[c], tmp[c]>>
    BY <1>0, <1>10 DEF WriteFails
  <2>3. Saved(b)'
    BY <2>1, <2>2 DEF Saved
  <2> QED
    BY <1>00, <2>2, <2>3, SavedKeeps
<1>11. ASSUME NEW b \in Boot, Rename(b) PROVE SavedInv'
  <2> DEFINE t == queue[b][1]
             s == Tail(queue[b])
  <2>1. /\ tmp' = [tmp EXCEPT ![b] = {}] /\ dir' = dir
        /\ queue[b] # <<>> /\ tmp[b] # {} /\ t \in Write /\ queue[b] \in Seq(Write)
    BY <1>0, <1>11, RenameCases DEF Rename
  <2>2. /\ 1 \in DOMAIN queue[b] /\ tmp'[b] = {} /\ s \in Seq(Write)
        /\ \A i \in DOMAIN s : i + 1 \in DOMAIN queue[b] /\ s[i] = queue[b][i + 1]
        /\ \A i \in DOMAIN queue[b] : i # 1 => i - 1 \in DOMAIN s /\ i - 1 + 1 = i
    BY <1>0, <2>1, Ends
  <2>3. \A c \in Boot \ {b} : mem[c] = {}
    BY <1>x, <2>1
  <2>4. mem[b] = {} => ~t.live
    BY <1>0, <2>2 DEF DataOK
  <2>5. mem[b] # {} => t.live
    BY <1>w, <2>2
  <2> HIDE DEF t, s
  <2>6. mem' = mem \/ (t.live /\ mem' = [mem EXCEPT ![b] = {t.val}])
    BY <1>11, RenameCases DEF t
  <2>7. \A c \in Boot \ {b} : mem'[c] = {}
    BY <1>0, <2>3, <2>6
  <2>8. SUFFICES ASSUME mem[b] # {} PROVE Saved(b)'
    <3>1. CASE mem[b] = {}
      <4>1. mem'[b] = {}
        BY <2>4, <2>6, <3>1
      <4>2. Saved(b)'
        BY <4>1 DEF Saved
      <4> QED
        BY <1>00, <2>7, <4>2, SavedKeeps
    <3>2. CASE mem[b] # {}
      BY <1>00, <2>7, <2>8, <3>2, SavedKeeps
    <3> QED
      BY <3>1, <3>2
  <2>9. /\ dir /\ (\A m \in mem[b] : m.rev # 0) /\ mem[b] \in SUBSET Value
        /\ \A m, k \in mem[b] : m = k
        /\ \A i \in DOMAIN queue[b] : IsKeys(queue[b][i]) => queue[b][i].val.rev > 0
    BY <1>0, <1>s, <2>1, <2>8 DEF Saved
  <2>10. /\ \A m \in mem[b] : file["creds"] = {m} \/ \E i \in DOMAIN queue[b] : ~IsKeys(queue[b][i])
         /\ ~IsKeys(t) => tmp[b] = mem[b]
    <3>1. ASSUME NEW m \in mem[b]
          PROVE  /\ file["creds"] = {m} \/ \E i \in DOMAIN queue[b] : ~IsKeys(queue[b][i])
                 /\ ~IsKeys(queue[b][1]) => tmp[b] = mem[b]
      BY <1>s, <2>1, <2>9 DEF Saved
    <3> QED
      BY <2>8, <3>1 DEF t
  <2>11. \A i \in DOMAIN s : IsKeys(s[i]) => s[i].val.rev > 0
    BY <2>2, <2>9
  <2>12. CASE /\ t.files = <<"creds">> /\ file' = [file EXCEPT !["creds"] = tmp[b]]
              /\ queue' = [queue EXCEPT ![b] = s] /\ mem' = mem
    <3>1. file'["creds"] = mem[b] /\ queue'[b] = s
      BY <1>0, <2>10, <2>12 DEF IsKeys
    <3>2. \A m \in mem[b] : file'["creds"] = {m}
      BY <2>9, <3>1
    <3> QED
      BY <2>1, <2>2, <2>9, <2>11, <2>12, <3>1, <3>2 DEF Saved
  \* The credentials that follow the keys are queued.
  <2>13. CASE /\ t.files = <<"k2">> /\ t.live /\ mem' = [mem EXCEPT ![b] = {t.val}]
              /\ queue' = [queue EXCEPT ![b] = Append(s, Creds(t.val))]
    <3> DEFINE r == Append(s, Creds(t.val))
    <3>0. t.val \in Value /\ IsKeys(t)
      BY <2>1, <2>13 DEF Write, IsKeys
    <3>1. Creds(t.val) \in Write /\ ~IsKeys(Creds(t.val))
      BY <3>0 DEF Creds, Write, IsKeys
    <3>2. /\ DOMAIN r = DOMAIN s \cup {Len(s) + 1} /\ r[Len(s) + 1] = Creds(t.val)
          /\ \A i \in DOMAIN s : r[i] = s[i]
      BY <2>2, <3>1, Appended
    <3>3. queue'[b] = r /\ mem'[b] = {t.val}
      BY <1>0, <2>13
    <3> HIDE DEF r
    <3>4. t.val.rev > 0 /\ t.val.rev \in Nat
      BY <2>2, <2>9, <3>0 DEF t, Value
    <3>5. t.val.rev # 0
      BY <3>4
    <3>6. \A i \in DOMAIN r : IsKeys(r[i]) => r[i].val.rev > 0
      BY <2>11, <3>1, <3>2
    <3> QED
      BY <2>1, <2>2, <2>9, <3>1, <3>2, <3>3, <3>5, <3>6 DEF Saved
  <2>14. CASE /\ t.files = <<"k1", "k2">> /\ file' = [file EXCEPT !["k1"] = tmp[b]]
              /\ queue' = [queue EXCEPT ![b] = <<HalfDone(t)>> \o s] /\ mem' = mem
    <3> DEFINE r == <<HalfDone(t)>> \o s
    <3>1. /\ HalfDone(t) \in Write /\ HalfDone(t).val = t.val /\ IsKeys(HalfDone(t)) /\ IsKeys(t)
      <4>1. <<"k1", "k2">> # <<"creds">> /\ <<"k2">> # <<"creds">>
        OBVIOUS
      <4> QED
        BY <2>1, <2>14, <4>1 DEF HalfDone, Write, IsKeys
    <3>2. /\ DOMAIN r = DOMAIN queue[b] /\ r[1] = HalfDone(t)
          /\ \A i \in DOMAIN queue[b] : i # 1 => r[i] = queue[b][i]
      BY <2>1, <3>1, Beheaded DEF s
    <3>3. queue'[b] = r /\ file'["creds"] = file["creds"]
      BY <1>0, <2>14
    <3> HIDE DEF r
    <3>4. \A i \in DOMAIN queue[b] : ~IsKeys(queue[b][i]) => ~IsKeys(r[i])
      BY <3>1, <3>2 DEF t
    <3>5. \A i \in DOMAIN r : IsKeys(r[i]) => r[i].val.rev > 0
      BY <2>2, <2>9, <3>1, <3>2 DEF t
    <3> QED
      BY <2>1, <2>2, <2>9, <2>10, <2>14, <3>2, <3>3, <3>4, <3>5 DEF Saved
  <2>15. <<"k2">> # <<"k1", "k2">> /\ <<"k2">> # <<"creds">>
    OBVIOUS
  <2> QED
    BY <1>11, <2>5, <2>8, <2>12, <2>13, <2>14, <2>15, RenameCases DEF t, s
<1>12. ASSUME NEW b \in Boot, Purge(b) \/ Migrate(b) PROVE SavedInv'
  <2>1. Closed(b) /\ Removed(b)
    BY <1>12 DEF Purge, Migrate
  <2>2. \A c \in Boot \ {b} : ~held[c]
    BY <2>1 DEF Removed
  <2>3. \A c \in Boot \ {b} : mem[c] = {}
    BY <1>0, <2>2 DEF LockInv, ProcessInv, HasOpen
  <2>4. \A c \in Boot : mem'[c] = {}
    BY <1>0, <2>1, <2>3 DEF Closed
  <2> QED
    BY <2>4 DEF SavedInv, Saved
<1>13. ASSUME NEW b \in Boot,
              Boots(b) \/ StoreMessage(b) \/ ClaimLock(b) \/ OpenThrows(b)
       PROVE  SavedInv'
  BY <1>1, <1>13 DEF Boots, StoreMessage, ClaimLock, OpenThrows
<1>14. ASSUME NEW p \in Pid, ForeignProgram(p) PROVE SavedInv'
  BY <1>1, <1>14 DEF ForeignProgram
<1>15. CASE UNCHANGED dirVars
  BY <1>1, <1>15 DEF dirVars
<1> QED
  BY <1>3, <1>4, <1>5, <1>6, <1>7, <1>8, <1>9, <1>10, <1>11, <1>12, <1>13, <1>14,
     <1>15 DEF DirNext

(* hardenedMultiFileAuthState.ts: between any two steps of any write, by   *)
(* any number of processes, the credentials on disk go with the keys       *)
(* beside them, and with nothing queued they are the latest.               *)
THEOREM DiskStaysSound == DirSpec => []DiskIsSound
<1>1. DiskInv => KeysBeforeCreds
  BY DEF DiskInv, KeysBeforeCreds, Sound, Backed
<1>2. ASSUME DataOK, SavedInv PROVE SavedIsLatest
  <2> SUFFICES ASSUME excused = {}, NEW b \in Boot, NEW m \in mem[b], queue[b] = <<>>, m.rev > 0
               PROVE  file["creds"] = {m}
    BY DEF SavedIsLatest
  <2>1. m.rev # 0 /\ DOMAIN queue[b] = {}
    OBVIOUS
  <2> QED
    BY <1>2, <2>1 DEF SavedInv, Saved
<1>3. LockInv /\ DataOK /\ DiskInv /\ SavedInv /\ [DirNext]_dirVars
        => LockInv' /\ DataOK' /\ DiskInv' /\ SavedInv'
  BY LockInvStep, DataStep, DiskStep, SavedStep
<1>4. DataOK /\ DiskInv /\ SavedInv => DiskIsSound
  BY <1>1, <1>2 DEF DiskIsSound
<1> QED
  BY <1>3, <1>4, LockInvInit, DataInit, DiskInit, SavedInit, PTL DEF DirSpec

-----------------------------------------------------------------------------
(* The messages kept for retries (OutgoingStore).                          *)

\* A file has the time its store gave it, and a message is stored once.
MessagesOK ==
  /\ time \in Nat \ {0} /\ count \in Nat
  /\ json \in [Outgoing -> Nat] /\ draft \in [Outgoing -> Nat]
  /\ storedAt \in [Outgoing -> Nat]
  /\ storing \in [Outgoing -> {"no", "writing", "sweeping", "ended"}]
  /\ \A m \in Outgoing : json[m] # 0 => json[m] = storedAt[m]
  /\ \A m \in Outgoing : storedAt[m] # 0 => storing[m] \in {"sweeping", "ended"}

\* As many as the cap were stored no earlier.
Later(m) == {k \in Outgoing \ {m} : storedAt[k] >= storedAt[m]}
Shielded(m) == Cardinality(Later(m)) >= Kept

\* A sweep is not ahead of the clock, it has listed what was stored, and what
\* it is to cut can be spared.
SweepsOK ==
  /\ sweep \in [Outgoing -> [pc : {"none", "stat", "cut"}, now : Nat,
                             left : SUBSET Outgoing, metas : SUBSET Outgoing]]
  /\ \A s \in Outgoing :
       /\ sweep[s].now <= time
       /\ \A m \in sweep[s].left \cup sweep[s].metas : storedAt[m] # 0
       /\ sweep[s].pc = "cut" => \A m \in sweep[s].left : Shielded(m)

Since == count % Every

\* The files that no sweep knows of are those of the stores since the last one
\* began; when it has ended, at most the cap is left of the others.
BoundedBy(disk, at, since) ==
  \/ Cardinality(disk) <= Kept + since
  \/ \E s \in Outgoing :
       /\ at[s].pc = "stat"
       /\ Cardinality(disk \ (at[s].left \cup at[s].metas)) <= since
  \/ \E s \in Outgoing :
       /\ at[s].pc = "cut"
       /\ Cardinality(disk \ at[s].left) <= Kept + since

StoresAreCounted == restarted \/ BoundedBy(OnDisk, sweep, Since)

OutgoingInv == MessagesOK /\ SweepsOK /\ NewestAreKept /\ StoresAreCounted

\* Sets of messages are finite, and a part of one is no larger.
LEMMA Messages ==
  /\ IsFiniteSet(Outgoing)
  /\ \A A \in SUBSET Outgoing : IsFiniteSet(A) /\ Cardinality(A) \in Nat
  /\ \A A, B \in SUBSET Outgoing : A \subseteq B => Cardinality(A) <= Cardinality(B)
<1>1. MaxSent \in Int
  BY OutgoingAssumption
<1>2. IsFiniteSet(Outgoing)
  BY <1>1, FS_Interval DEF Outgoing
<1>3. ASSUME NEW A \in SUBSET Outgoing PROVE IsFiniteSet(A) /\ Cardinality(A) \in Nat
  BY <1>2, FS_Subset, FS_CardinalityType
<1>4. ASSUME NEW A \in SUBSET Outgoing, NEW B \in SUBSET Outgoing, A \subseteq B
      PROVE  Cardinality(A) <= Cardinality(B)
  BY <1>3, <1>4, FS_Subset
<1> QED
  BY <1>2, <1>3, <1>4

\* Two sets of messages together are no larger than their sizes together.
LEMMA Together ==
  ASSUME NEW A \in SUBSET Outgoing, NEW B \in SUBSET Outgoing
  PROVE  Cardinality(A \cup B) <= Cardinality(A) + Cardinality(B)
<1>1. IsFiniteSet(A) /\ IsFiniteSet(B) /\ IsFiniteSet(A \cap B)
  BY Messages
<1>2. Cardinality(A \cap B) \in Nat /\ Cardinality(A) \in Nat /\ Cardinality(B) \in Nat
  BY <1>1, Messages
<1>3. Cardinality(A \cup B) = Cardinality(A) + Cardinality(B) - Cardinality(A \cap B)
  BY <1>1, FS_Union
<1> QED
  BY <1>2, <1>3

LEMMA Multiples ==
  ASSUME NEW d \in Nat \ {0}, NEW q \in Int, NEW r \in Nat, NEW s \in Nat,
         r < d, s < d, d * q + r = s
  PROVE  q = 0
<1>1. CASE q >= 1
  <2>1. d * q >= d
    BY <1>1
  <2> QED
    BY <2>1
<1>2. CASE q <= -1
  <2>1. d * q <= -d
    BY <1>2
  <2> QED
    BY <2>1
<1> QED
  BY <1>1, <1>2

LEMMA Quotients ==
  ASSUME NEW n \in Nat
  PROVE  /\ n = Every * (n \div Every) + (n % Every)
         /\ n \div Every \in Int /\ n % Every \in Nat /\ n % Every < Every
<1>0. Every \in Nat \ {0}
  BY OutgoingAssumption
<1>1. n = Every * (n \div Every) + (n % Every)
  BY <1>0
<1>2. n \div Every \in Int
  BY <1>0
<1>3. n % Every \in Nat /\ n % Every < Every
  BY <1>0
<1> QED
  BY <1>1, <1>2, <1>3

\* Counting on without coming to a multiple of Every.
LEMMA OneMore ==
  ASSUME NEW n \in Nat, (n + 1) % Every # 0
  PROVE  (n + 1) % Every = (n % Every) + 1
<1> DEFINE p == (n + 1) \div Every
           q == n \div Every
           r == n % Every
           t == (n + 1) % Every
<1>1. Every \in Nat \ {0}
  BY OutgoingAssumption
<1>2. n = Every * q + r /\ q \in Int /\ r \in Nat /\ r < Every
  BY Quotients
<1>3. n + 1 = Every * p + t /\ p \in Int /\ t \in Nat /\ t < Every
  BY Quotients
<1>4. t # 0
  OBVIOUS
<1> HIDE DEF p, q, r, t
<1>5. Every * (p - q) + t = r + 1
  BY <1>1, <1>2, <1>3
<1>6. CASE r + 1 < Every
  <2>1. p - q = 0
    BY <1>1, <1>2, <1>3, <1>5, <1>6, Multiples
  <2> QED
    BY <1>1, <1>2, <1>3, <1>5, <2>1 DEF r, t
<1>7. CASE r + 1 = Every
  <2>1. Every * (p - q - 1) + t = 0
    BY <1>1, <1>2, <1>3, <1>5, <1>7
  <2>2. p - q - 1 = 0
    BY <1>1, <1>2, <1>3, <2>1, Multiples
  <2> QED
    BY <1>1, <1>3, <1>4, <2>1, <2>2
<1> QED
  BY <1>1, <1>2, <1>6, <1>7

-----------------------------------------------------------------------------
LEMMA OutgoingInitially == OutgoingInit => OutgoingInv
<1> SUFFICES ASSUME OutgoingInit PROVE OutgoingInv
  OBVIOUS
<1>0. Kept \in Nat /\ Every \in Nat \ {0} /\ 0 % Every = 0
  BY OutgoingAssumption
<1>1. MessagesOK
  <2>1. /\ json \in [Outgoing -> Nat] /\ draft \in [Outgoing -> Nat]
        /\ storedAt \in [Outgoing -> Nat]
        /\ \A m \in Outgoing : json[m] = 0 /\ storedAt[m] = 0
    BY DEF OutgoingInit
  <2>2. storing \in [Outgoing -> {"no", "writing", "sweeping", "ended"}]
    BY DEF OutgoingInit
  <2>3. time \in Nat \ {0} /\ count \in Nat
    BY DEF OutgoingInit
  <2> QED
    BY <2>1, <2>2, <2>3 DEF MessagesOK
<1>2. SweepsOK
  BY DEF OutgoingInit, SweepsOK, NoSweep
<1>3. NewestAreKept
  BY DEF OutgoingInit, NewestAreKept
<1>4. OnDisk = {}
  BY DEF OutgoingInit, OnDisk
<1>5. Cardinality(OnDisk) = 0 /\ Since = 0
  BY <1>0, <1>4, FS_EmptySet DEF OutgoingInit, Since
<1>6. StoresAreCounted
  BY <1>0, <1>5 DEF StoresAreCounted, BoundedBy
<1> QED
  BY <1>1, <1>2, <1>3, <1>6 DEF OutgoingInv

LEMMA MessagesStep == MessagesOK /\ [OutgoingNext]_outgoingVars => MessagesOK'
<1> SUFFICES ASSUME MessagesOK, [OutgoingNext]_outgoingVars PROVE MessagesOK'
  OBVIOUS
<1> USE DEF MessagesOK
<1>1. ASSUME NEW m \in Outgoing, Writes(m) PROVE MessagesOK'
  BY <1>1 DEF Writes
<1>2. ASSUME NEW m \in Outgoing, Renames(m) PROVE MessagesOK'
  <2>1. /\ json' = [json EXCEPT ![m] = draft[m]] /\ draft' = [draft EXCEPT ![m] = 0]
        /\ storedAt' = [storedAt EXCEPT ![m] = draft[m]]
        /\ count' = count + 1 /\ UNCHANGED <<time, restarted>>
        /\ \E to \in {"sweeping", "ended"} : storing' = [storing EXCEPT ![m] = to]
    BY <1>2 DEF Renames
  <2> QED
    BY <2>1
<1>3. ASSUME NEW m \in Outgoing, StoreFails(m) PROVE MessagesOK'
  BY <1>3 DEF StoreFails
<1>4. ASSUME NEW m \in Outgoing, FoundExpired(m) PROVE MessagesOK'
  BY <1>4 DEF FoundExpired, Without
<1>5. ASSUME NEW s \in Outgoing, NEW m \in Outgoing, SweepsDraft(s, m) PROVE MessagesOK'
  BY <1>5 DEF SweepsDraft
<1>6. ASSUME NEW s \in Outgoing, NEW m \in Outgoing, Stats(s, m) PROVE MessagesOK'
  BY <1>6 DEF Stats, Without
<1>7. ASSUME NEW s \in Outgoing, NEW m \in Outgoing, Unlinks(s, m) PROVE MessagesOK'
  <2>1. /\ json' = [json EXCEPT ![m] = 0]
        /\ UNCHANGED <<time, draft, count, storedAt, restarted>>
        /\ storing' = storing \/ storing' = [storing EXCEPT ![s] = "ended"]
    BY <1>7 DEF Unlinks, Without, SweepEnds
  <2> QED
    BY <2>1
<1>8. ASSUME NEW s \in Outgoing, Cuts(s) PROVE MessagesOK'
  <2>1. /\ UNCHANGED <<time, json, draft, count, storedAt, restarted>>
        /\ storing' = storing \/ storing' = [storing EXCEPT ![s] = "ended"]
    BY <1>8 DEF Cuts, SweepEnds
  <2> QED
    BY <2>1
<1>9. CASE Passes
  BY <1>9 DEF Passes
<1>10. CASE Restarts
  BY <1>10 DEF Restarts
<1>11. CASE UNCHANGED outgoingVars
  BY <1>11 DEF outgoingVars
<1> QED
  BY <1>1, <1>2, <1>3, <1>4, <1>5, <1>6, <1>7, <1>8, <1>9, <1>10, <1>11 DEF OutgoingNext

\* Time does not run back, and a message keeps the time of its store.
LEMMA StoredOnce ==
  MessagesOK /\ [OutgoingNext]_outgoingVars =>
    /\ time <= time'
    /\ \A m \in Outgoing : storedAt[m] # 0 => storedAt'[m] = storedAt[m]
<1> SUFFICES ASSUME MessagesOK, [OutgoingNext]_outgoingVars
             PROVE  /\ time <= time'
                    /\ \A m \in Outgoing : storedAt[m] # 0 => storedAt'[m] = storedAt[m]
  OBVIOUS
<1> USE DEF MessagesOK
<1>1. ASSUME NEW m \in Outgoing, Renames(m)
      PROVE  /\ time <= time'
             /\ \A k \in Outgoing : storedAt[k] # 0 => storedAt'[k] = storedAt[k]
  <2>1. storing[m] = "writing" /\ storedAt' = [storedAt EXCEPT ![m] = draft[m]]
        /\ time' = time
    BY <1>1 DEF Renames
  <2>2. storedAt[m] = 0
    BY <2>1
  <2> QED
    BY <2>1, <2>2
<1>2. CASE Passes
  BY <1>2 DEF Passes
<1>3. CASE UNCHANGED <<time, storedAt>>
  BY <1>3
<1>4. CASE Restarts \/ UNCHANGED outgoingVars
  BY <1>3, <1>4 DEF Restarts, outgoingVars
<1>5. ASSUME NEW m \in Outgoing, Writes(m) \/ StoreFails(m) \/ FoundExpired(m)
      PROVE  UNCHANGED <<time, storedAt>>
  BY <1>5 DEF Writes, StoreFails, FoundExpired
<1>6. ASSUME NEW s \in Outgoing, NEW m \in Outgoing,
             SweepsDraft(s, m) \/ Stats(s, m) \/ Unlinks(s, m)
      PROVE  UNCHANGED <<time, storedAt>>
  BY <1>6 DEF SweepsDraft, Stats, Unlinks
<1>7. ASSUME NEW s \in Outgoing, Cuts(s) PROVE UNCHANGED <<time, storedAt>>
  BY <1>7 DEF Cuts
<1> QED
  BY <1>1, <1>2, <1>3, <1>4, <1>5, <1>6, <1>7 DEF OutgoingNext

\* What shields a message goes on shielding it.
LEMMA ShieldStays ==
  ASSUME MessagesOK, MessagesOK', NEW m \in Outgoing, storedAt[m] # 0, Shielded(m),
         \A k \in Outgoing : storedAt[k] # 0 => storedAt'[k] = storedAt[k]
  PROVE  Shielded(m)'
<1>1. storedAt \in [Outgoing -> Nat] /\ storedAt' \in [Outgoing -> Nat]
  BY DEF MessagesOK
<1>2. Later(m) \subseteq Later(m)'
  BY <1>1 DEF Later
<1>3. Later(m) \in SUBSET Outgoing /\ Later(m)' \in SUBSET Outgoing
  BY DEF Later
<1>4. /\ Cardinality(Later(m)) <= Cardinality(Later(m)')
      /\ Cardinality(Later(m)) \in Nat /\ Cardinality(Later(m)') \in Nat
  BY <1>2, <1>3, Messages
<1>5. Kept \in Nat
  BY OutgoingAssumption
<1>6. Cardinality(Later(m)') >= Kept
  BY <1>4, <1>5 DEF Shielded
<1> QED
  BY <1>6 DEF Shielded

\* The n oldest of those counted, when they are more than the cap by n, are shielded.
LEMMA OldestAreShielded ==
  ASSUME MessagesOK, NEW metas \in SUBSET Outgoing, Cardinality(metas) > Kept,
         NEW d \in OldestOf(metas, Cardinality(metas) - Kept)
  PROVE  /\ d \subseteq metas /\ Cardinality(metas \ d) = Kept
         /\ \A m \in d : Shielded(m)
<1>1. /\ d \subseteq metas /\ Cardinality(d) = Cardinality(metas) - Kept
      /\ \A m \in d, k \in metas \ d : storedAt[m] <= storedAt[k]
  BY DEF OldestOf
<1>2. IsFiniteSet(metas) /\ Cardinality(metas) \in Nat /\ Kept \in Nat
  BY Messages, OutgoingAssumption
<1>3. metas \cap d = d
  BY <1>1
<1>4. Cardinality(metas \ d) = Cardinality(metas) - Cardinality(metas \cap d)
  BY <1>2, FS_Difference
<1>5. Cardinality(metas \ d) = Kept
  <2>1. Cardinality(metas \cap d) = Cardinality(metas) - Kept
    BY <1>1, <1>3
  <2> QED
    BY <1>2, <1>4, <2>1
<1>6. ASSUME NEW m \in d PROVE Shielded(m)
  <2>1. m \in Outgoing /\ metas \ d \subseteq Later(m)
    BY <1>1 DEF Later, MessagesOK
  <2>2. metas \ d \in SUBSET Outgoing /\ Later(m) \in SUBSET Outgoing
    BY DEF Later
  <2> QED
    BY <1>2, <1>5, <2>1, <2>2, Messages DEF Shielded
<1> QED
  BY <1>1, <1>5, <1>6

-----------------------------------------------------------------------------
\* A step keeps the newest if every message whose file goes had expired or is
\* shielded.
LEMMA NewestStay ==
  ASSUME MessagesOK, MessagesOK', NewestAreKept, time <= time',
         \A m \in Outgoing : storedAt[m] # 0 => storedAt'[m] = storedAt[m],
         \A m \in Outgoing : storedAt[m] = 0 /\ storedAt'[m] # 0 => json'[m] # 0,
         \A m \in Outgoing : json[m] # 0 /\ json'[m] = 0 =>
           IsExpired(storedAt[m], time) \/ Shielded(m)
  PROVE  NewestAreKept'
<1> SUFFICES ASSUME NEW m \in Outgoing, storedAt'[m] # 0,
                    ~IsExpired(storedAt'[m], time'), json'[m] = 0
             PROVE  Shielded(m)'
  BY DEF NewestAreKept, Shielded, Later
<1>1. storedAt[m] # 0 /\ storedAt'[m] = storedAt[m]
  OBVIOUS
<1>2. ~IsExpired(storedAt[m], time)
  <2>1. storedAt[m] \in Nat /\ time \in Nat /\ time' \in Nat /\ Ttl \in Nat
    BY OutgoingAssumption DEF MessagesOK
  <2> QED
    BY <1>1, <2>1 DEF IsExpired
<1>3. Shielded(m)
  <2>1. CASE json[m] = 0
    BY <1>1, <1>2, <2>1 DEF NewestAreKept, Shielded, Later
  <2>2. CASE json[m] # 0
    BY <1>2, <2>2
  <2> QED
    BY <2>1, <2>2
<1> QED
  BY <1>1, <1>3, ShieldStays

LEMMA NewestStep ==
  OutgoingInv /\ [OutgoingNext]_outgoingVars => NewestAreKept'
<1> SUFFICES ASSUME OutgoingInv, [OutgoingNext]_outgoingVars PROVE NewestAreKept'
  OBVIOUS
<1>0. /\ MessagesOK /\ MessagesOK' /\ NewestAreKept /\ time <= time'
      /\ \A m \in Outgoing : storedAt[m] # 0 => storedAt'[m] = storedAt[m]
  BY MessagesStep, StoredOnce DEF OutgoingInv
<1>a. /\ json \in [Outgoing -> Nat] /\ storedAt \in [Outgoing -> Nat]
      /\ \A m \in Outgoing : json[m] # 0 => json[m] = storedAt[m]
  BY <1>0 DEF MessagesOK
<1>1. ASSUME UNCHANGED <<json, storedAt>> PROVE NewestAreKept'
  BY <1>0, <1>1, NewestStay
<1>2. ASSUME UNCHANGED storedAt, NEW m \in Outgoing, Without(m),
             json[m] # 0 => IsExpired(json[m], time) \/ Shielded(m)
      PROVE  NewestAreKept'
  <2>1. \A k \in Outgoing : json[k] # 0 /\ json'[k] = 0 => k = m
    BY <1>a, <1>2 DEF Without
  <2>2. \A k \in Outgoing : json[k] # 0 /\ json'[k] = 0 =>
           IsExpired(storedAt[k], time) \/ Shielded(k)
    BY <1>a, <1>2, <2>1
  <2>3. \A k \in Outgoing : storedAt[k] = 0 /\ storedAt'[k] # 0 => json'[k] # 0
    BY <1>2
  <2> QED
    BY <1>0, <2>2, <2>3, NewestStay
<1>3. ASSUME NEW m \in Outgoing, Renames(m) PROVE NewestAreKept'
  <2>1. /\ draft[m] # 0 /\ json' = [json EXCEPT ![m] = draft[m]]
        /\ storedAt' = [storedAt EXCEPT ![m] = draft[m]]
    BY <1>3 DEF Renames
  <2>2. \A k \in Outgoing : json[k] # 0 => json'[k] # 0
    BY <1>a, <2>1
  <2>3. \A k \in Outgoing : storedAt[k] = 0 /\ storedAt'[k] # 0 => json'[k] # 0
    BY <1>a, <2>1
  <2> QED
    BY <1>0, <2>2, <2>3, NewestStay
<1>4. ASSUME NEW m \in Outgoing, FoundExpired(m) PROVE NewestAreKept'
  BY <1>2, <1>4 DEF FoundExpired
<1>5. ASSUME NEW s \in Outgoing, NEW m \in Outgoing, Stats(s, m) PROVE NewestAreKept'
  <2>1. /\ storedAt' = storedAt
        /\ json' = json \/ (Without(m) /\ ~(json[m] # 0 /\ ~IsExpired(json[m], sweep[s].now)))
    BY <1>5 DEF Stats
  <2>2. sweep[s].now \in Nat /\ sweep[s].now <= time
    BY DEF OutgoingInv, SweepsOK
  <2>3. IsExpired(json[m], sweep[s].now) => IsExpired(json[m], time)
    <3>1. json[m] \in Nat /\ time \in Nat /\ Ttl \in Nat
      BY <1>0, OutgoingAssumption DEF MessagesOK
    <3> QED
      BY <2>2, <3>1 DEF IsExpired
  <2> QED
    BY <1>1, <1>2, <2>1, <2>3
<1>6. ASSUME NEW s \in Outgoing, NEW m \in Outgoing, Unlinks(s, m) PROVE NewestAreKept'
  <2>1. storedAt' = storedAt /\ Without(m) /\ sweep[s].pc = "cut" /\ m \in sweep[s].left
    BY <1>6 DEF Unlinks
  <2>2. Shielded(m)
    BY <2>1 DEF OutgoingInv, SweepsOK
  <2> QED
    BY <1>2, <2>1, <2>2
<1>7. ASSUME NEW m \in Outgoing, Writes(m) \/ StoreFails(m) PROVE NewestAreKept'
  BY <1>1, <1>7 DEF Writes, StoreFails
<1>8. ASSUME NEW s \in Outgoing, NEW m \in Outgoing, SweepsDraft(s, m)
      PROVE  NewestAreKept'
  BY <1>1, <1>8 DEF SweepsDraft
<1>9. ASSUME NEW s \in Outgoing, Cuts(s) PROVE NewestAreKept'
  BY <1>1, <1>9 DEF Cuts
<1>10. CASE Passes \/ Restarts \/ UNCHANGED outgoingVars
  BY <1>1, <1>10 DEF Passes, Restarts, outgoingVars
<1> QED
  BY <1>3, <1>4, <1>5, <1>6, <1>7, <1>8, <1>9, <1>10 DEF OutgoingNext

-----------------------------------------------------------------------------
SweepRec == [pc : {"none", "stat", "cut"}, now : Nat,
             left : SUBSET Outgoing, metas : SUBSET Outgoing]

\* A sweep that is as it was, or has less left to do, is as good as it was.
LEMMA SweepsStay ==
  ASSUME MessagesOK, MessagesOK', SweepsOK, time <= time',
         \A m \in Outgoing : storedAt[m] # 0 => storedAt'[m] = storedAt[m],
         sweep' \in [Outgoing -> SweepRec],
         \A s \in Outgoing :
           \/ /\ sweep'[s].now <= time'
              /\ \A m \in sweep'[s].left \cup sweep'[s].metas : storedAt'[m] # 0
              /\ sweep'[s].pc = "cut" => \A m \in sweep'[s].left : Shielded(m)'
           \/ /\ sweep'[s].now = sweep[s].now /\ sweep'[s].pc = sweep[s].pc
              /\ sweep'[s].left \subseteq sweep[s].left
              /\ \A m \in sweep'[s].metas : storedAt[m] # 0
  PROVE  SweepsOK'
<1>1. ASSUME NEW s \in Outgoing,
             sweep'[s].now = sweep[s].now, sweep'[s].pc = sweep[s].pc,
             sweep'[s].left \subseteq sweep[s].left,
             \A m \in sweep'[s].metas : storedAt[m] # 0
      PROVE  /\ sweep'[s].now <= time'
             /\ \A m \in sweep'[s].left \cup sweep'[s].metas : storedAt'[m] # 0
             /\ sweep'[s].pc = "cut" => \A m \in sweep'[s].left : Shielded(m)'
  <2>1. /\ sweep[s] \in SweepRec /\ sweep'[s] \in SweepRec /\ sweep[s].now <= time
        /\ \A m \in sweep[s].left \cup sweep[s].metas : storedAt[m] # 0
        /\ sweep[s].pc = "cut" => \A m \in sweep[s].left : Shielded(m)
    BY DEF SweepsOK, SweepRec
  <2>2. sweep'[s].now <= time'
    BY <1>1, <2>1 DEF SweepRec, MessagesOK
  <2>3. \A m \in sweep'[s].left \cup sweep'[s].metas : m \in Outgoing /\ storedAt[m] # 0
    BY <1>1, <2>1 DEF SweepRec
  <2>4. ASSUME sweep'[s].pc = "cut", NEW m \in sweep'[s].left PROVE Shielded(m)'
    <3>1. m \in Outgoing /\ storedAt[m] # 0 /\ Shielded(m)
      BY <1>1, <2>1, <2>3, <2>4
    <3> QED
      BY <3>1, ShieldStays
  <2> QED
    BY <2>2, <2>3, <2>4
<1> QED
  BY <1>1 DEF SweepsOK, SweepRec

LEMMA SweepsStep ==
  OutgoingInv /\ [OutgoingNext]_outgoingVars => SweepsOK'
<1> SUFFICES ASSUME OutgoingInv, [OutgoingNext]_outgoingVars PROVE SweepsOK'
  OBVIOUS
<1>0. /\ MessagesOK /\ MessagesOK' /\ SweepsOK /\ time <= time'
      /\ \A m \in Outgoing : storedAt[m] # 0 => storedAt'[m] = storedAt[m]
  BY MessagesStep, StoredOnce DEF OutgoingInv
<1>a. /\ sweep \in [Outgoing -> SweepRec]
      /\ \A s \in Outgoing : \A m \in sweep[s].left \cup sweep[s].metas : storedAt[m] # 0
  BY <1>0 DEF SweepsOK, SweepRec
<1>b. NoSweep \in SweepRec
  BY DEF NoSweep, SweepRec
<1>1. ASSUME sweep' = sweep PROVE SweepsOK'
  <2>1. sweep' \in [Outgoing -> SweepRec]
    BY <1>a, <1>1
  <2>2. \A s \in Outgoing :
          /\ sweep'[s].now = sweep[s].now /\ sweep'[s].pc = sweep[s].pc
          /\ sweep'[s].left \subseteq sweep[s].left
          /\ \A m \in sweep'[s].metas : storedAt[m] # 0
    BY <1>a, <1>1
  <2> QED
    BY <1>0, <2>1, <2>2, SweepsStay
\* One sweep changes.
<1>2. ASSUME NEW s \in Outgoing, NEW new \in SweepRec, sweep' = [sweep EXCEPT ![s] = new],
             \/ /\ new.now <= time'
                /\ \A m \in new.left \cup new.metas : storedAt'[m] # 0
                /\ new.pc = "cut" => \A m \in new.left : Shielded(m)'
             \/ /\ new.now = sweep[s].now /\ new.pc = sweep[s].pc
                /\ new.left \subseteq sweep[s].left
                /\ \A m \in new.metas : storedAt[m] # 0
      PROVE  SweepsOK'
  <2>1. sweep' \in [Outgoing -> SweepRec]
    BY <1>a, <1>2
  <2>2. sweep'[s] = new /\ \A r \in Outgoing \ {s} : sweep'[r] = sweep[r]
    BY <1>a, <1>2
  <2>3. \A r \in Outgoing \ {s} :
          /\ sweep'[r].now = sweep[r].now /\ sweep'[r].pc = sweep[r].pc
          /\ sweep'[r].left \subseteq sweep[r].left
          /\ \A m \in sweep'[r].metas : storedAt[m] # 0
    BY <1>a, <2>2
  <2> QED
    BY <1>0, <1>2, <2>1, <2>2, <2>3, SweepsStay
<1>3. ASSUME NEW s \in Outgoing, SweepEnds(s) PROVE SweepsOK'
  <2>1. NoSweep.now <= time' /\ NoSweep.left = {} /\ NoSweep.metas = {}
    BY <1>0 DEF NoSweep, MessagesOK
  <2> QED
    BY <1>2, <1>3, <1>b, <2>1 DEF SweepEnds
<1>4. ASSUME NEW m \in Outgoing, Renames(m) PROVE SweepsOK'
  <2>1. CASE sweep' = sweep
    BY <1>1, <2>1
  <2>2. CASE sweep' = [sweep EXCEPT ![m] = [NoSweep EXCEPT
                         !.pc = "stat", !.now = time, !.left = OnDisk']]
    <3> DEFINE disk == OnDisk'
               new == [NoSweep EXCEPT !.pc = "stat", !.now = time, !.left = disk]
    <3>1. sweep' = [sweep EXCEPT ![m] = new]
      BY <2>2
    <3>2. time' = time /\ time \in Nat
      BY <1>0, <1>4 DEF Renames, MessagesOK
    <3>3. disk \in SUBSET Outgoing /\ \A k \in disk : storedAt'[k] # 0
      BY <1>0 DEF OnDisk, MessagesOK
    <3> HIDE DEF disk
    <3>4. NoSweep.metas = {}
      BY DEF NoSweep
    <3>5. /\ new \in SweepRec /\ new.now = time /\ new.pc = "stat"
          /\ new.left = disk /\ new.metas = {}
      BY <1>b, <3>2, <3>3, <3>4 DEF SweepRec
    <3>6. \A k \in new.left \cup new.metas : storedAt'[k] # 0
      BY <3>3, <3>5
    <3>7. new.now <= time' /\ new.pc # "cut"
      BY <3>2, <3>5
    <3> HIDE DEF new
    <3> QED
      BY <1>2, <3>1, <3>5, <3>6, <3>7
  <2> QED
    BY <1>4, <2>1, <2>2 DEF Renames
<1>5. ASSUME NEW s \in Outgoing, NEW m \in Outgoing, Stats(s, m) PROVE SweepsOK'
  <2> DEFINE counted == json[m] # 0 /\ ~IsExpired(json[m], sweep[s].now)
             metas == IF counted THEN sweep[s].metas \cup {m} ELSE sweep[s].metas
             new == [sweep[s] EXCEPT !.left = sweep[s].left \ {m}, !.metas = metas]
  <2>1. sweep' = [sweep EXCEPT ![s] = new]
    BY <1>5 DEF Stats
  <2>2. sweep[s] \in SweepRec /\ metas \in SUBSET Outgoing
    BY <1>a DEF SweepRec
  <2>3. \A k \in metas : storedAt[k] # 0
    BY <1>0, <1>a DEF MessagesOK
  <2> HIDE DEF metas
  <2>4. /\ new \in SweepRec /\ new.now = sweep[s].now /\ new.pc = sweep[s].pc
        /\ new.left \subseteq sweep[s].left /\ new.metas = metas
    BY <2>2 DEF SweepRec
  <2> HIDE DEF new
  <2> QED
    BY <1>2, <2>1, <2>3, <2>4
<1>6. ASSUME NEW s \in Outgoing, Cuts(s) PROVE SweepsOK'
  <2>1. CASE SweepEnds(s)
    BY <1>3, <2>1
  <2>2. ASSUME Cardinality(sweep[s].metas) > Kept,
               NEW d \in OldestOf(sweep[s].metas, Cardinality(sweep[s].metas) - Kept),
               sweep' = [sweep EXCEPT ![s].pc = "cut", ![s].left = d]
        PROVE  SweepsOK'
    <3> DEFINE new == [sweep[s] EXCEPT !.pc = "cut", !.left = d]
    <3>1. sweep' = [sweep EXCEPT ![s] = new]
      BY <2>2
    <3>2. sweep[s] \in SweepRec /\ sweep[s].metas \in SUBSET Outgoing
      BY <1>a DEF SweepRec
    <3>3. d \subseteq sweep[s].metas /\ \A m \in d : Shielded(m)
      BY <1>0, <2>2, <3>2, OldestAreShielded
    <3>4. \A m \in d : m \in Outgoing /\ storedAt[m] # 0
      BY <1>a, <3>2, <3>3
    <3>5. \A m \in d : Shielded(m)'
      BY <1>0, <3>3, <3>4, ShieldStays
    <3>6. /\ new \in SweepRec /\ new.now = sweep[s].now /\ new.left = d
          /\ new.metas = sweep[s].metas
      BY <3>2, <3>3 DEF SweepRec
    <3>7. new.now <= time'
      BY <1>0, <3>2, <3>6 DEF SweepsOK, SweepRec, MessagesOK
    <3>8. \A m \in d \cup sweep[s].metas : m \in Outgoing /\ storedAt'[m] # 0
      BY <1>0, <1>a, <3>2, <3>4
    <3> HIDE DEF new
    <3> QED
      BY <1>2, <3>1, <3>5, <3>6, <3>7, <3>8
  <2> QED
    BY <1>6, <1>0, <1>a, <2>1, <2>2, Messages, OutgoingAssumption DEF Cuts, SweepRec
<1>7. ASSUME NEW s \in Outgoing, NEW m \in Outgoing, Unlinks(s, m) PROVE SweepsOK'
  <2>1. CASE SweepEnds(s)
    BY <1>3, <2>1
  <2>2. CASE sweep' = [sweep EXCEPT ![s].left = sweep[s].left \ {m}]
    <3> DEFINE new == [sweep[s] EXCEPT !.left = sweep[s].left \ {m}]
    <3>1. sweep' = [sweep EXCEPT ![s] = new]
      BY <2>2
    <3>2. sweep[s] \in SweepRec
      BY <1>a
    <3>3. /\ new \in SweepRec /\ new.now = sweep[s].now /\ new.pc = sweep[s].pc
          /\ new.left \subseteq sweep[s].left /\ new.metas = sweep[s].metas
      BY <3>2 DEF SweepRec
    <3> HIDE DEF new
    <3> QED
      BY <1>2, <1>a, <3>1, <3>3
  <2> QED
    BY <1>7, <2>1, <2>2 DEF Unlinks
<1>8. CASE Restarts
  <2>1. sweep' = [m \in Outgoing |-> NoSweep]
    BY <1>8 DEF Restarts
  <2>2. \A s \in Outgoing : sweep'[s].now <= time' /\ sweep'[s].pc = "none"
          /\ sweep'[s].left = {} /\ sweep'[s].metas = {}
    BY <1>0, <2>1 DEF NoSweep, MessagesOK
  <2>3. sweep' \in [Outgoing -> SweepRec]
    BY <1>b, <2>1
  <2> QED
    BY <2>2, <2>3 DEF SweepsOK, SweepRec
<1>9. ASSUME NEW m \in Outgoing, Writes(m) \/ StoreFails(m) \/ FoundExpired(m)
      PROVE  SweepsOK'
  BY <1>1, <1>9 DEF Writes, StoreFails, FoundExpired
<1>10. ASSUME NEW s \in Outgoing, NEW m \in Outgoing, SweepsDraft(s, m) PROVE SweepsOK'
  BY <1>1, <1>10 DEF SweepsDraft
<1>11. CASE Passes \/ UNCHANGED outgoingVars
  BY <1>1, <1>11 DEF Passes, outgoingVars
<1> QED
  BY <1>4, <1>5, <1>6, <1>7, <1>8, <1>9, <1>10, <1>11 DEF OutgoingNext

-----------------------------------------------------------------------------
\* The bound counts files, so that fewer files keep it.
LEMMA FewerAreBounded ==
  ASSUME NEW A \in SUBSET Outgoing, NEW B \in SUBSET Outgoing, A \subseteq B,
         NEW at \in [Outgoing -> SweepRec], NEW n \in Nat, BoundedBy(B, at, n)
  PROVE  BoundedBy(A, at, n)
<1>0. Kept \in Nat
  BY OutgoingAssumption
<1>1. ASSUME NEW C \in SUBSET Outgoing, NEW k \in Nat, Cardinality(B \ C) <= k
      PROVE  Cardinality(A \ C) <= k
  <2>1. A \ C \in SUBSET Outgoing /\ B \ C \in SUBSET Outgoing /\ A \ C \subseteq B \ C
    OBVIOUS
  <2>2. /\ Cardinality(A \ C) \in Nat /\ Cardinality(B \ C) \in Nat
        /\ Cardinality(A \ C) <= Cardinality(B \ C)
    BY <2>1, Messages
  <2> QED
    BY <1>1, <2>2
<1>2. CASE Cardinality(B) <= Kept + n
  <2>1. /\ Cardinality(A) \in Nat /\ Cardinality(B) \in Nat
        /\ Cardinality(A) <= Cardinality(B)
    BY Messages
  <2> QED
    BY <1>0, <1>2, <2>1 DEF BoundedBy
<1>3. ASSUME NEW s \in Outgoing, at[s].pc = "stat",
             Cardinality(B \ (at[s].left \cup at[s].metas)) <= n
      PROVE  BoundedBy(A, at, n)
  <2>1. at[s].left \cup at[s].metas \in SUBSET Outgoing
    BY DEF SweepRec
  <2> QED
    BY <1>1, <1>3, <2>1 DEF BoundedBy
<1>4. ASSUME NEW s \in Outgoing, at[s].pc = "cut", Cardinality(B \ at[s].left) <= Kept + n
      PROVE  BoundedBy(A, at, n)
  <2>1. at[s].left \in SUBSET Outgoing /\ Kept + n \in Nat
    BY <1>0 DEF SweepRec
  <2> QED
    BY <1>1, <1>4, <2>1 DEF BoundedBy
<1> QED
  BY <1>2, <1>3, <1>4 DEF BoundedBy

\* One file more is one store more.
LEMMA OneMoreIsBounded ==
  ASSUME NEW A \in SUBSET Outgoing, NEW m \in Outgoing,
         NEW at \in [Outgoing -> SweepRec], NEW n \in Nat, BoundedBy(A, at, n)
  PROVE  BoundedBy(A \cup {m}, at, n + 1)
<1>0. Kept \in Nat
  BY OutgoingAssumption
<1>1. ASSUME NEW C \in SUBSET Outgoing, NEW k \in Nat, Cardinality(A \ C) <= k
      PROVE  Cardinality((A \cup {m}) \ C) <= k + 1
  <2>1. Cardinality((A \ C) \cup {m}) <= Cardinality(A \ C) + Cardinality({m})
    BY Together
  <2>2. Cardinality({m}) = 1
    BY FS_Singleton
  <2>3. /\ (A \cup {m}) \ C \in SUBSET Outgoing /\ (A \ C) \cup {m} \in SUBSET Outgoing
        /\ (A \cup {m}) \ C \subseteq (A \ C) \cup {m} /\ A \ C \in SUBSET Outgoing
    OBVIOUS
  <2>4. /\ Cardinality((A \cup {m}) \ C) <= Cardinality((A \ C) \cup {m})
        /\ Cardinality((A \cup {m}) \ C) \in Nat /\ Cardinality((A \ C) \cup {m}) \in Nat
        /\ Cardinality(A \ C) \in Nat
    BY <2>3, Messages
  <2> QED
    BY <1>1, <2>1, <2>2, <2>4
<1>2. CASE Cardinality(A) <= Kept + n
  <2>1. A \ {} = A /\ (A \cup {m}) \ {} = A \cup {m}
    OBVIOUS
  <2>2. Cardinality(A \ {}) <= Kept + n /\ Kept + n \in Nat /\ {} \in SUBSET Outgoing
    BY <1>0, <1>2, <2>1
  <2>3. Cardinality((A \cup {m}) \ {}) <= (Kept + n) + 1
    BY <1>1, <2>2
  <2>4. Cardinality(A \cup {m}) <= Kept + (n + 1)
    BY <1>0, <2>1, <2>3
  <2> QED
    BY <2>4 DEF BoundedBy
<1>3. ASSUME NEW s \in Outgoing, at[s].pc = "stat",
             Cardinality(A \ (at[s].left \cup at[s].metas)) <= n
      PROVE  BoundedBy(A \cup {m}, at, n + 1)
  <2>1. at[s].left \cup at[s].metas \in SUBSET Outgoing
    BY DEF SweepRec
  <2> QED
    BY <1>1, <1>3, <2>1 DEF BoundedBy
<1>4. ASSUME NEW s \in Outgoing, at[s].pc = "cut", Cardinality(A \ at[s].left) <= Kept + n
      PROVE  BoundedBy(A \cup {m}, at, n + 1)
  <2>1. at[s].left \in SUBSET Outgoing /\ Kept + n \in Nat
    BY <1>0 DEF SweepRec
  <2>2. Cardinality((A \cup {m}) \ at[s].left) <= (Kept + n) + 1
    BY <1>1, <1>4, <2>1
  <2>3. Cardinality((A \cup {m}) \ at[s].left) <= Kept + (n + 1)
    BY <1>0, <2>2
  <2> QED
    BY <1>4, <2>3 DEF BoundedBy
<1> QED
  BY <1>2, <1>3, <1>4 DEF BoundedBy

LEMMA CountedStep ==
  OutgoingInv /\ [OutgoingNext]_outgoingVars => StoresAreCounted'
<1> SUFFICES ASSUME OutgoingInv, [OutgoingNext]_outgoingVars, ~restarted'
             PROVE  BoundedBy(OnDisk, sweep, Since)'
  BY DEF StoresAreCounted
<1>0. /\ MessagesOK /\ MessagesOK' /\ SweepsOK /\ SweepsOK'
      /\ sweep \in [Outgoing -> SweepRec] /\ sweep' \in [Outgoing -> SweepRec]
  BY MessagesStep, SweepsStep DEF OutgoingInv, SweepsOK, SweepRec
<1>a. /\ OnDisk \in SUBSET Outgoing /\ OnDisk' \in SUBSET Outgoing
      /\ Since \in Nat /\ Since < Every /\ Since' \in Nat
      /\ Kept \in Nat /\ Every \in Nat \ {0}
  <2>1. count \in Nat /\ count' \in Nat
    BY <1>0 DEF MessagesOK
  <2> QED
    BY <2>1, Quotients, OutgoingAssumption DEF OnDisk, Since
<1>b. json \in [Outgoing -> Nat] /\ json' \in [Outgoing -> Nat]
  BY <1>0 DEF MessagesOK
<1>c. ASSUME restarted' = restarted PROVE BoundedBy(OnDisk, sweep, Since)
  BY <1>c DEF OutgoingInv, StoresAreCounted
\* Files may go while every sweep stays where it is.
<1>1. ASSUME sweep' = sweep, count' = count, OnDisk' \subseteq OnDisk, restarted' = restarted
      PROVE  BoundedBy(OnDisk, sweep, Since)'
  <2>1. BoundedBy(OnDisk', sweep, Since)
    BY <1>0, <1>a, <1>c, <1>1, FewerAreBounded
  <2> QED
    BY <1>1, <2>1 DEF Since, BoundedBy
\* One sweep goes on; it matters when it is the one that bounds the files.
<1>2. ASSUME NEW s \in Outgoing, count' = count, OnDisk' \subseteq OnDisk,
             restarted' = restarted, \A r \in Outgoing \ {s} : sweep'[r] = sweep[r],
             sweep[s].pc = "stat" /\
               Cardinality(OnDisk \ (sweep[s].left \cup sweep[s].metas)) <= Since =>
                 BoundedBy(OnDisk, sweep, Since)',
             sweep[s].pc = "cut" /\
               Cardinality(OnDisk \ sweep[s].left) <= Kept + Since =>
                 BoundedBy(OnDisk, sweep, Since)'
      PROVE  BoundedBy(OnDisk, sweep, Since)'
  <2>1. BoundedBy(OnDisk, sweep, Since) /\ Since' = Since
    BY <1>c, <1>2 DEF Since
  <2>2. CASE Cardinality(OnDisk) <= Kept + Since
    <3>1. /\ Cardinality(OnDisk') <= Cardinality(OnDisk)
          /\ Cardinality(OnDisk') \in Nat /\ Cardinality(OnDisk) \in Nat
      BY <1>a, <1>2, Messages
    <3>2. Cardinality(OnDisk') <= Kept + Since'
      BY <1>a, <2>1, <2>2, <3>1
    <3> QED
      BY <3>2 DEF BoundedBy
  <2>3. ASSUME NEW r \in Outgoing \ {s}, sweep[r].pc = "stat",
               Cardinality(OnDisk \ (sweep[r].left \cup sweep[r].metas)) <= Since
        PROVE  BoundedBy(OnDisk, sweep, Since)'
    <3> DEFINE C == sweep[r].left \cup sweep[r].metas
    <3>1. OnDisk' \ C \subseteq OnDisk \ C
      BY <1>2
    <3>2. /\ Cardinality(OnDisk' \ C) <= Cardinality(OnDisk \ C)
          /\ Cardinality(OnDisk' \ C) \in Nat /\ Cardinality(OnDisk \ C) \in Nat
      BY <1>a, <3>1, Messages
    <3>3. Cardinality(OnDisk' \ (sweep'[r].left \cup sweep'[r].metas)) <= Since'
      BY <1>2, <1>a, <2>1, <2>3, <3>2
    <3> QED
      BY <1>2, <2>3, <3>3 DEF BoundedBy
  <2>4. ASSUME NEW r \in Outgoing \ {s}, sweep[r].pc = "cut",
               Cardinality(OnDisk \ sweep[r].left) <= Kept + Since
        PROVE  BoundedBy(OnDisk, sweep, Since)'
    <3>1. OnDisk' \ sweep[r].left \subseteq OnDisk \ sweep[r].left
      BY <1>2
    <3>2. /\ Cardinality(OnDisk' \ sweep[r].left) <= Cardinality(OnDisk \ sweep[r].left)
          /\ Cardinality(OnDisk' \ sweep[r].left) \in Nat
          /\ Cardinality(OnDisk \ sweep[r].left) \in Nat
      BY <1>a, <3>1, Messages
    <3>3. sweep'[r] = sweep[r]
      BY <1>2
    <3>4. Cardinality(OnDisk' \ sweep'[r].left) <= Kept + Since'
      BY <1>a, <2>1, <2>4, <3>2, <3>3
    <3> QED
      BY <2>4, <3>3, <3>4 DEF BoundedBy
  <2> QED
    BY <1>2, <2>1, <2>2, <2>3, <2>4 DEF BoundedBy
<1>3. ASSUME NEW s \in Outgoing, SweepEnds(s), count' = count, OnDisk' \subseteq OnDisk,
             restarted' = restarted,
             sweep[s].pc = "stat" => /\ sweep[s].left = {} /\ json' = json
                                     /\ Cardinality(sweep[s].metas) <= Kept,
             sweep[s].pc = "cut" => \A m \in sweep[s].left : json'[m] = 0
      PROVE  BoundedBy(OnDisk, sweep, Since)'
  <2>0. Since' = Since /\ sweep[s].metas \in SUBSET Outgoing
    BY <1>0, <1>3 DEF Since, SweepRec
  <2>1. \A r \in Outgoing \ {s} : sweep'[r] = sweep[r]
    BY <1>0, <1>3 DEF SweepEnds
  <2>2. ASSUME sweep[s].pc = "stat",
               Cardinality(OnDisk \ (sweep[s].left \cup sweep[s].metas)) <= Since
        PROVE  BoundedBy(OnDisk, sweep, Since)'
    <3> DEFINE new == OnDisk \ sweep[s].metas
               all == new \cup sweep[s].metas
    <3>1. new \in SUBSET Outgoing /\ all \in SUBSET Outgoing /\ OnDisk \subseteq all
      BY <1>a, <2>0
    <3>2. Cardinality(new) <= Since /\ OnDisk' = OnDisk
      <4>1. sweep[s].left \cup sweep[s].metas = sweep[s].metas
        BY <1>3, <2>2
      <4> QED
        BY <1>3, <2>2, <4>1 DEF OnDisk
    <3>3. Cardinality(all) <= Cardinality(new) + Cardinality(sweep[s].metas)
      BY <2>0, <3>1, Together
    <3>4. /\ Cardinality(OnDisk) <= Cardinality(all)
          /\ Cardinality(OnDisk) \in Nat /\ Cardinality(all) \in Nat
          /\ Cardinality(new) \in Nat /\ Cardinality(sweep[s].metas) \in Nat
      BY <1>a, <2>0, <3>1, Messages
    <3> HIDE DEF new, all
    <3>5. Cardinality(OnDisk') <= Kept + Since'
      BY <1>a, <1>3, <2>0, <2>2, <3>2, <3>3, <3>4
    <3> QED
      BY <3>5 DEF BoundedBy
  <2>3. ASSUME sweep[s].pc = "cut", Cardinality(OnDisk \ sweep[s].left) <= Kept + Since
        PROVE  BoundedBy(OnDisk, sweep, Since)'
    <3>1. OnDisk' \subseteq OnDisk \ sweep[s].left
      BY <1>3, <2>3 DEF OnDisk
    <3>2. /\ Cardinality(OnDisk') <= Cardinality(OnDisk \ sweep[s].left)
          /\ Cardinality(OnDisk') \in Nat /\ Cardinality(OnDisk \ sweep[s].left) \in Nat
      BY <1>a, <3>1, Messages
    <3>3. Cardinality(OnDisk') <= Kept + Since'
      BY <1>a, <2>0, <2>3, <3>2
    <3> QED
      BY <3>3 DEF BoundedBy
  <2> QED
    BY <1>2, <1>3, <2>1, <2>2, <2>3
<1>4. ASSUME NEW m \in Outgoing, Renames(m) PROVE BoundedBy(OnDisk, sweep, Since)'
  <2>1. /\ OnDisk' \subseteq OnDisk \cup {m} /\ count' = count + 1 /\ count \in Nat
        /\ restarted' = restarted
    BY <1>0, <1>4 DEF Renames, OnDisk, MessagesOK
  <2>2. CASE count' % Every = 0
    <3>1. sweep' = [sweep EXCEPT ![m] = [NoSweep EXCEPT
                      !.pc = "stat", !.now = time, !.left = OnDisk']]
      BY <1>4, <2>2 DEF Renames
    <3>2. sweep'[m].pc = "stat" /\ sweep'[m].left = OnDisk' /\ sweep'[m].metas = {}
      BY <1>0, <3>1 DEF NoSweep
    <3>3. OnDisk' \ (sweep'[m].left \cup sweep'[m].metas) = {}
      BY <3>2
    <3>4. Cardinality(OnDisk' \ (sweep'[m].left \cup sweep'[m].metas)) <= Since'
      BY <1>a, <3>3, FS_EmptySet
    <3> QED
      BY <3>2, <3>4 DEF BoundedBy
  <2>3. CASE count' % Every # 0
    <3>1. sweep' = sweep
      BY <1>4, <2>3 DEF Renames
    <3>2. Since' = Since + 1
      BY <2>1, <2>3, OneMore DEF Since
    <3>3. BoundedBy(OnDisk \cup {m}, sweep, Since + 1)
      BY <1>0, <1>a, <1>c, <2>1, OneMoreIsBounded
    <3>4. OnDisk \cup {m} \in SUBSET Outgoing /\ Since + 1 \in Nat
      BY <1>a
    <3>5. BoundedBy(OnDisk', sweep, Since + 1)
      BY <1>0, <1>a, <2>1, <3>3, <3>4, FewerAreBounded
    <3> QED
      BY <3>1, <3>2, <3>5 DEF BoundedBy
  <2> QED
    BY <2>2, <2>3
<1>5. ASSUME NEW s \in Outgoing, NEW m \in Outgoing, Stats(s, m)
      PROVE  BoundedBy(OnDisk, sweep, Since)'
  <2> DEFINE counted == json[m] # 0 /\ ~IsExpired(json[m], sweep[s].now)
  <2>1. /\ sweep[s].pc = "stat" /\ count' = count /\ restarted' = restarted
        /\ IF counted THEN json' = json ELSE json' = [json EXCEPT ![m] = 0]
        /\ sweep' = [sweep EXCEPT ![s] =
             [sweep[s] EXCEPT !.left = sweep[s].left \ {m},
                !.metas = IF counted THEN sweep[s].metas \cup {m} ELSE sweep[s].metas]]
    BY <1>5 DEF Stats, Without
  <2> HIDE DEF counted
  <2>2. OnDisk' \subseteq OnDisk /\ (~counted => m \notin OnDisk')
    BY <1>b, <2>1 DEF OnDisk
  <2>3. \A r \in Outgoing \ {s} : sweep'[r] = sweep[r]
    BY <1>0, <2>1
  <2>4. sweep'[s] = [sweep[s] EXCEPT !.left = sweep[s].left \ {m},
          !.metas = IF counted THEN sweep[s].metas \cup {m} ELSE sweep[s].metas]
    BY <1>0, <2>1
  <2>5. sweep[s] \in SweepRec
    BY <1>0
  <2>6. /\ sweep'[s].pc = "stat" /\ sweep'[s].left = sweep[s].left \ {m}
        /\ sweep'[s].metas = IF counted THEN sweep[s].metas \cup {m} ELSE sweep[s].metas
    <3> DEFINE metas == IF counted THEN sweep[s].metas \cup {m} ELSE sweep[s].metas
    <3>1. sweep'[s] = [sweep[s] EXCEPT !.left = sweep[s].left \ {m}, !.metas = metas]
      BY <2>4
    <3> HIDE DEF metas
    <3>2. /\ sweep'[s].pc = "stat" /\ sweep'[s].left = sweep[s].left \ {m}
          /\ sweep'[s].metas = metas
      BY <2>1, <2>5, <3>1 DEF SweepRec
    <3> QED
      BY <3>2 DEF metas
  <2>7. ASSUME Cardinality(OnDisk \ (sweep[s].left \cup sweep[s].metas)) <= Since
        PROVE  BoundedBy(OnDisk, sweep, Since)'
    <3>1. OnDisk' \ (sweep'[s].left \cup sweep'[s].metas)
            \subseteq OnDisk \ (sweep[s].left \cup sweep[s].metas)
      BY <2>2, <2>6
    <3>2. OnDisk' \ (sweep'[s].left \cup sweep'[s].metas) \in SUBSET Outgoing
          /\ OnDisk \ (sweep[s].left \cup sweep[s].metas) \in SUBSET Outgoing
      BY <1>a
    <3>3. Since' = Since
      BY <2>1 DEF Since
    <3>4. Cardinality(OnDisk' \ (sweep'[s].left \cup sweep'[s].metas)) <= Since'
      BY <1>a, <2>7, <3>1, <3>2, <3>3, Messages
    <3> QED
      BY <2>6, <3>4 DEF BoundedBy
  <2> QED
    BY <1>2, <2>1, <2>2, <2>3, <2>7
<1>6. ASSUME NEW s \in Outgoing, Cuts(s) PROVE BoundedBy(OnDisk, sweep, Since)'
  <2>1. /\ sweep[s].pc = "stat" /\ sweep[s].left = {} /\ json' = json /\ count' = count
        /\ restarted' = restarted /\ OnDisk' = OnDisk
        /\ sweep[s] \in SweepRec /\ sweep[s].metas \in SUBSET Outgoing
        /\ Cardinality(sweep[s].metas) \in Nat
    BY <1>0, <1>6, Messages DEF Cuts, OnDisk, SweepRec
  <2>2. CASE Cardinality(sweep[s].metas) <= Kept
    BY <1>3, <1>6, <2>1, <2>2 DEF Cuts
  <2>3. CASE ~(Cardinality(sweep[s].metas) <= Kept)
    <3>1. PICK d \in OldestOf(sweep[s].metas, Cardinality(sweep[s].metas) - Kept) :
            sweep' = [sweep EXCEPT ![s] = [sweep[s] EXCEPT !.pc = "cut", !.left = d]]
      BY <1>6, <2>3 DEF Cuts
    <3>2. Cardinality(sweep[s].metas) > Kept
      BY <1>a, <2>1, <2>3
    <3>3. d \subseteq sweep[s].metas /\ Cardinality(sweep[s].metas \ d) = Kept
      BY <1>0, <2>1, <3>2, OldestAreShielded
    <3>4. \A r \in Outgoing \ {s} : sweep'[r] = sweep[r]
      BY <1>0, <3>1
    <3>5. sweep'[s].pc = "cut" /\ sweep'[s].left = d
      BY <1>0, <2>1, <3>1 DEF SweepRec
    <3>6. ASSUME Cardinality(OnDisk \ (sweep[s].left \cup sweep[s].metas)) <= Since
          PROVE  BoundedBy(OnDisk, sweep, Since)'
      <4> DEFINE new == OnDisk \ sweep[s].metas
                 kept == sweep[s].metas \ d
      <4>1. /\ new \in SUBSET Outgoing /\ kept \in SUBSET Outgoing
            /\ OnDisk \ d \in SUBSET Outgoing /\ new \cup kept \in SUBSET Outgoing
            /\ OnDisk \ d \subseteq new \cup kept
        BY <1>a, <2>1, <3>3
      <4>2. sweep[s].left \cup sweep[s].metas = sweep[s].metas
        BY <2>1
      <4>3. Cardinality(new) <= Since /\ Cardinality(kept) = Kept
        BY <3>3, <3>6, <4>2
      <4>4. Cardinality(new \cup kept) <= Cardinality(new) + Cardinality(kept)
        BY <4>1, Together
      <4>5. /\ Cardinality(OnDisk \ d) <= Cardinality(new \cup kept)
            /\ Cardinality(OnDisk \ d) \in Nat /\ Cardinality(new \cup kept) \in Nat
            /\ Cardinality(new) \in Nat
        BY <4>1, Messages
      <4> HIDE DEF new, kept
      <4>6. Since' = Since
        BY <2>1 DEF Since
      <4>7. Cardinality(OnDisk' \ sweep'[s].left) <= Kept + Since'
        <5>1. Cardinality(OnDisk \ d) <= Kept + Since
          BY <1>a, <4>3, <4>4, <4>5
        <5> QED
          BY <2>1, <3>5, <4>6, <5>1
      <4> QED
        BY <3>5, <4>7 DEF BoundedBy
    <3> QED
      BY <1>2, <2>1, <3>4, <3>6
  <2> QED
    BY <2>2, <2>3
<1>7. ASSUME NEW s \in Outgoing, NEW m \in Outgoing, Unlinks(s, m)
      PROVE  BoundedBy(OnDisk, sweep, Since)'
  <2>1. /\ sweep[s].pc = "cut" /\ m \in sweep[s].left /\ count' = count
        /\ restarted' = restarted /\ json' = [json EXCEPT ![m] = 0]
        /\ sweep[s] \in SweepRec
    BY <1>0, <1>7 DEF Unlinks, Without
  <2>2. OnDisk' \subseteq OnDisk /\ m \notin OnDisk' /\ json'[m] = 0
    BY <1>b, <2>1 DEF OnDisk
  <2>3. CASE sweep[s].left = {m}
    <3>1. SweepEnds(s)
      BY <1>7, <2>3 DEF Unlinks
    <3> QED
      BY <1>3, <2>1, <2>2, <2>3, <3>1
  <2>4. CASE sweep[s].left # {m}
    <3>1. sweep' = [sweep EXCEPT ![s] = [sweep[s] EXCEPT !.left = sweep[s].left \ {m}]]
      BY <1>7, <2>4 DEF Unlinks
    <3>2. \A r \in Outgoing \ {s} : sweep'[r] = sweep[r]
      BY <1>0, <3>1
    <3>3. sweep'[s].pc = "cut" /\ sweep'[s].left = sweep[s].left \ {m}
      BY <1>0, <2>1, <3>1 DEF SweepRec
    <3>4. ASSUME Cardinality(OnDisk \ sweep[s].left) <= Kept + Since
          PROVE  BoundedBy(OnDisk, sweep, Since)'
      <4>1. OnDisk' \ sweep'[s].left \subseteq OnDisk \ sweep[s].left
        BY <2>2, <3>3
      <4>2. /\ Cardinality(OnDisk' \ sweep'[s].left) <= Cardinality(OnDisk \ sweep[s].left)
            /\ Cardinality(OnDisk' \ sweep'[s].left) \in Nat
            /\ Cardinality(OnDisk \ sweep[s].left) \in Nat
        BY <1>a, <4>1, Messages
      <4>3. Since' = Since
        BY <2>1 DEF Since
      <4>4. Cardinality(OnDisk' \ sweep'[s].left) <= Kept + Since'
        BY <1>a, <3>4, <4>2, <4>3
      <4> QED
        BY <3>3, <4>4 DEF BoundedBy
    <3> QED
      BY <1>2, <2>1, <2>2, <3>2, <3>4
  <2> QED
    BY <2>3, <2>4
<1>8. ASSUME NEW m \in Outgoing, FoundExpired(m) PROVE BoundedBy(OnDisk, sweep, Since)'
  <2>1. /\ sweep' = sweep /\ count' = count /\ restarted' = restarted
        /\ json' = [json EXCEPT ![m] = 0]
    BY <1>8 DEF FoundExpired, Without
  <2>2. OnDisk' \subseteq OnDisk
    BY <1>b, <2>1 DEF OnDisk
  <2> QED
    BY <1>1, <2>1, <2>2
<1>9. ASSUME UNCHANGED <<json, count, sweep, restarted>>
      PROVE  BoundedBy(OnDisk, sweep, Since)'
  BY <1>1, <1>9 DEF OnDisk
<1>10. ASSUME NEW m \in Outgoing, Writes(m) \/ StoreFails(m)
       PROVE  BoundedBy(OnDisk, sweep, Since)'
  BY <1>9, <1>10 DEF Writes, StoreFails
<1>11. ASSUME NEW s \in Outgoing, NEW m \in Outgoing, SweepsDraft(s, m)
       PROVE  BoundedBy(OnDisk, sweep, Since)'
  BY <1>9, <1>11 DEF SweepsDraft
<1>12. CASE Passes \/ UNCHANGED outgoingVars
  BY <1>9, <1>12 DEF Passes, outgoingVars
<1>13. CASE Restarts
  BY <1>13 DEF Restarts
<1> QED
  BY <1>4, <1>5, <1>6, <1>7, <1>8, <1>10, <1>11, <1>12, <1>13 DEF OutgoingNext

\* outgoingMessageStore.ts:13-22: a message is kept until it expires or as many as
\* the cap were stored no earlier, and between sweeps the directory is above its cap
\* by less than the stores from one sweep to the next, for any cap, any pace of
\* sweeps and any number of messages.
THEOREM StoredMessagesAreKept == OutgoingSpec => []RetriesAreKept
<1>1. OutgoingInv /\ [OutgoingNext]_outgoingVars => OutgoingInv'
  BY MessagesStep, SweepsStep, NewestStep, CountedStep DEF OutgoingInv
<1>2. OutgoingInv => RetriesAreKept
  <2> SUFFICES ASSUME OutgoingInv, ~restarted, \A s \in Outgoing : sweep[s] = NoSweep
               PROVE  Cardinality(OnDisk) < Kept + Every
    BY DEF OutgoingInv, RetriesAreKept, OvershootIsBounded
  <2>1. \A s \in Outgoing : sweep[s].pc = "none"
    BY DEF NoSweep
  <2>2. Cardinality(OnDisk) <= Kept + Since
    BY <2>1 DEF OutgoingInv, StoresAreCounted, BoundedBy
  <2>3. Since \in Nat /\ Since < Every
    BY Quotients DEF OutgoingInv, MessagesOK, Since
  <2>4. Cardinality(OnDisk) \in Nat /\ Kept \in Nat /\ Every \in Nat
    BY Messages, OutgoingAssumption DEF OnDisk
  <2> QED
    BY <2>2, <2>3, <2>4
<1> QED
  BY OutgoingInitially, <1>1, <1>2, PTL DEF OutgoingSpec
=============================================================================
