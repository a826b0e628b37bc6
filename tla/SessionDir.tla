----------------------------- MODULE SessionDir -----------------------------
(***************************************************************************)
(* The directory sessions/<key>/ of one session without HA: its lock file  *)
(* (lib/sessionAuthLock.ts), the credential and key files of the auth      *)
(* state (lib/hardenedMultiFileAuthState.ts), and what start, stop, purge  *)
(* and migration do to them (baileysProvider.ts, lib/sessionStore.ts).     *)
(*                                                                         *)
(* Several processes share the directory.  A process is known by its boot  *)
(* id and has a pid, which is given again after its end, also to a program *)
(* that has nothing to do with the service (foreign).  A step is what a    *)
(* process does to the directory in one call; between reading the lock and *)
(* writing it, and between the temporary file and its rename, others run.  *)
(***************************************************************************)
EXTENDS Naturals, Sequences, FiniteSets

CONSTANTS
  Boot,      \* PROCESS_BOOT_ID of the processes that may run
  Pid,       \* process ids
  NoPid,     \* the pid of a boot that does not run
  MaxId,     \* bound: login identities made by initAuthCreds()
  MaxRev,    \* bound: revisions of the first identity's credentials,
             \* of a later one's fewer by one each
  MaxQueue   \* bound: writes that wait in one process

ASSUME NoPidAssumption == NoPid \notin Pid
ASSUME BoundAssumption == MaxId \in Nat /\ MaxRev \in Nat /\ MaxQueue \in Nat

VARIABLES
  pid,       \* the pid of each boot
  spent,     \* boots that have run
  foreign,   \* pids of other programs
  lockFile,  \* .session.lock: a set of at most one record
  pc,        \* where each process stands with this session
  held,      \* heldSessionLocks has the session
  dir,       \* the directory exists
  file,      \* the content of each file
  tmp,       \* the temporary file of each process's write
  mem,       \* the creds object of each process's auth state
  queue,     \* folderQueues: the writes that wait or run in each process
  drawn,     \* identities made so far
  gone,      \* history: identities purged here or moved away
  excused    \* history: what happened that the code has nothing against

lockVars == <<pid, spent, foreign, lockFile, pc, held>>
dirVars == <<pid, spent, foreign, lockFile, pc, held, dir, file, tmp, mem, queue,
             drawn, gone, excused>>

File == {"creds", "k1", "k2"}

(* What a file says: the login identity it belongs to and its revision.    *)
(* Revision 0 has no creds.me yet.                                         *)
Content == [id : 1..MaxId, rev : 0..MaxRev]

(* A queued task: what it still writes and, unless live, the value it      *)
(* writes.  saveCreds serialises its creds object when the task runs:      *)
(* while the auth state is in use such a task is live.                     *)
Task == [files : Seq(File), val : Content, live : BOOLEAN]

Running(b) == pid[b] # NoPid

Holder(b) == [pid |-> pid[b], boot |-> b]

\* mutant: a process of another user, or an error, counts as dead
IsPidAliveNoEperm(p) == p \in foreign

(* process.kill(p, 0) finds a process, whose ever it is                    *)
IsPidAlive(p) == p \in foreign \/ \E b \in Boot : pid[b] = p

HasOpen(b) == pc[b] \in {"loading", "open"}

DirInit ==
  /\ pid = [b \in Boot |-> NoPid] /\ spent = {} /\ foreign = {}
  /\ lockFile = {}
  /\ pc = [b \in Boot |-> "closed"] /\ held = [b \in Boot |-> FALSE]
  /\ dir = FALSE /\ file = [f \in File |-> {}] /\ tmp = [b \in Boot |-> {}]
  /\ mem = [b \in Boot |-> {}] /\ queue = [b \in Boot |-> <<>>]
  /\ drawn = 0 /\ gone = {} /\ excused = {}

-----------------------------------------------------------------------------
(* Processes of the operating system.                                      *)

Boots(b) ==
  /\ b \notin spent
  /\ \E p \in Pid : ~IsPidAlive(p) /\ pid' = [pid EXCEPT ![b] = p]
  /\ spent' = spent \cup {b}
  /\ UNCHANGED <<foreign, lockFile, pc, held, dir, file, tmp, mem, queue, drawn,
                 gone, excused>>

(* A process ends, by a crash or not: its memory is lost, the directory    *)
(* stays as it is.                                                         *)
Exits(b) ==
  /\ Running(b)
  /\ pid' = [pid EXCEPT ![b] = NoPid]
  /\ pc' = [pc EXCEPT ![b] = "closed"]
  /\ held' = [held EXCEPT ![b] = FALSE]
  /\ tmp' = [tmp EXCEPT ![b] = {}]
  /\ mem' = [mem EXCEPT ![b] = {}]
  /\ queue' = [queue EXCEPT ![b] = <<>>]
  /\ UNCHANGED <<spent, foreign, lockFile, dir, file, drawn, gone, excused>>

ForeignProgram(p) ==
  /\ \/ ~IsPidAlive(p) /\ foreign' = foreign \cup {p}
     \/ p \in foreign /\ foreign' = foreign \ {p}
  /\ UNCHANGED <<pid, spent, lockFile, pc, held, dir, file, tmp, mem, queue,
                 drawn, gone, excused>>

-----------------------------------------------------------------------------
(* A start.  An auth state that is replaced or closed no longer changes:   *)
(* its tasks write what its creds object then was.                         *)

Frozen(b) ==
  LET Freeze(t) == IF t.live
                   THEN [t EXCEPT !.live = FALSE,
                                  !.val = IF t.files[1] = "creds"
                                          THEN CHOOSE m \in mem[b] : TRUE
                                          ELSE t.val]
                   ELSE t
  IN  [i \in DOMAIN queue[b] |-> Freeze(queue[b][i])]

(* saveSessionMeta() makes the directory and acquireSessionLock() reads    *)
(* the lock: it is ours, it is free or stale, or the start is refused.     *)
StartOwned(b) ==
  /\ Running(b) /\ pc[b] \in {"closed", "open"}
  /\ dir' = TRUE
  /\ queue' = [queue EXCEPT ![b] = Frozen(b)]
  /\ mem' = [mem EXCEPT ![b] = {}]
  /\ \/ /\ lockFile = {Holder(b)}
        /\ pc' = [pc EXCEPT ![b] = "loading"]
        /\ held' = [held EXCEPT ![b] = TRUE]
        /\ UNCHANGED excused
     \/ /\ lockFile # {Holder(b)}
        /\ \A l \in lockFile : l.pid = pid[b] \/ ~IsPidAlive(l.pid)
        /\ pc' = [pc EXCEPT ![b] = "claiming"]
        /\ excused' = IF \E c \in Boot : pc[c] = "claiming"
                      THEN excused \cup {"raced"} ELSE excused
        /\ UNCHANGED held
     \/ /\ \E l \in lockFile : l.pid # pid[b] /\ IsPidAlive(l.pid)
        /\ pc' = [pc EXCEPT ![b] = "closed"]
        /\ UNCHANGED <<held, excused>>
  /\ UNCHANGED <<pid, spent, foreign, lockFile, file, tmp, drawn, gone>>

(* writeLockAtomic() renames the new lock over whatever is there.          *)
ClaimLock(b) ==
  /\ pc[b] = "claiming"
  /\ dir' = TRUE
  /\ lockFile' = {Holder(b)}
  /\ held' = [held EXCEPT ![b] = TRUE]
  /\ pc' = [pc EXCEPT ![b] = "loading"]
  /\ UNCHANGED <<pid, spent, foreign, file, tmp, mem, queue, drawn, gone,
                 excused>>

(* useHardenedMultiFileAuthState(): the creds of the file, or new ones.    *)
(* It does not wait for the queue of the folder.                           *)
Load(b) ==
  /\ pc[b] = "loading"
  /\ dir' = TRUE
  /\ \/ /\ file["creds"] # {}
        /\ mem' = [mem EXCEPT ![b] = file["creds"]]
        /\ UNCHANGED drawn
     \/ /\ file["creds"] = {} /\ drawn < MaxId
        /\ drawn' = drawn + 1
        /\ mem' = [mem EXCEPT ![b] = {[id |-> drawn + 1, rev |-> 0]}]
  /\ pc' = [pc EXCEPT ![b] = "open"]
  /\ excused' = IF \A c \in Boot : queue[c] = <<>>
               THEN excused ELSE excused \cup {"stale"}
  /\ UNCHANGED <<pid, spent, foreign, lockFile, held, file, tmp, queue, gone>>

(* The rest of a start throws: the lock stays held.                        *)
OpenThrows(b) ==
  /\ pc[b] = "loading"
  /\ pc' = [pc EXCEPT ![b] = "closed"]
  /\ UNCHANGED <<pid, spent, foreign, lockFile, held, dir, file, tmp, mem, queue,
                 drawn, gone, excused>>

-----------------------------------------------------------------------------
(* The writes of an open session.  Baileys changes its creds object and    *)
(* emits creds.update, which calls saveCreds(); keys it has generated it   *)
(* stores first, and waits for them.                                       *)

Credentials(b, v) == [files |-> <<"creds">>, val |-> v, live |-> TRUE]

MayChange(m) == m.id + m.rev <= MaxRev

Pairs(b) ==
  /\ pc[b] = "open" /\ Len(queue[b]) < MaxQueue
  /\ \E m \in mem[b] :
       LET v == [m EXCEPT !.rev = 1] IN
       /\ m.rev = 0 /\ MayChange(m)
       /\ mem' = [mem EXCEPT ![b] = {v}]
       /\ queue' = [queue EXCEPT ![b] = Append(@, Credentials(b, v))]
  /\ UNCHANGED <<pid, spent, foreign, lockFile, pc, held, dir, file, tmp, drawn,
                 gone, excused>>

SetKeys(b) ==
  /\ pc[b] = "open" /\ Len(queue[b]) < MaxQueue
  /\ \A i \in DOMAIN queue[b] :
       queue[b][i].live => queue[b][i].files[1] = "creds"
  /\ \E m \in mem[b] :
       /\ m.rev > 0 /\ MayChange(m)
       /\ queue' = [queue EXCEPT ![b] =
                      Append(@, [files |-> <<"k1", "k2">>,
                                 val |-> [m EXCEPT !.rev = @ + 1],
                                 live |-> TRUE])]
  /\ UNCHANGED <<pid, spent, foreign, lockFile, pc, held, dir, file, tmp, mem,
                 drawn, gone, excused>>

(* What the head of the queue writes next.                                 *)
Body(b) ==
  LET t == Head(queue[b]) IN
  IF t.live /\ t.files[1] = "creds" THEN mem[b] ELSE {t.val}

WriteTemporary(b) ==
  /\ queue[b] # <<>> /\ tmp[b] = {} /\ dir
  /\ tmp' = [tmp EXCEPT ![b] = Body(b)]
  /\ UNCHANGED <<pid, spent, foreign, lockFile, pc, held, dir, file, mem, queue,
                 drawn, gone, excused>>

(* The rename ends one file of the task.  After the last one the task is   *)
(* done; if it stored the keys of the session that is still open, that     *)
(* goes on to change its creds and to save them.                           *)
Rename(b) ==
  /\ queue[b] # <<>> /\ tmp[b] # {}
  /\ LET t == Head(queue[b])
         rest == Tail(queue[b]) IN
     /\ file' = [file EXCEPT ![t.files[1]] = tmp[b]]
     /\ \/ /\ Len(t.files) > 1
           /\ queue' = [queue EXCEPT ![b] =
                          <<[t EXCEPT !.files = Tail(@)]>> \o rest]
           /\ UNCHANGED mem
        \/ /\ Len(t.files) = 1
           /\ IF t.live /\ t.files[1] # "creds"
              THEN /\ mem' = [mem EXCEPT ![b] = {t.val}]
                   /\ queue' = [queue EXCEPT ![b] =
                                  Append(rest, Credentials(b, t.val))]
              ELSE /\ queue' = [queue EXCEPT ![b] = rest]
                   /\ UNCHANGED mem
  /\ tmp' = [tmp EXCEPT ![b] = {}]
  /\ UNCHANGED <<pid, spent, foreign, lockFile, pc, held, dir, drawn, gone,
                 excused>>

\* mutant: the queue's catch is returned to the caller, who goes on
WriteFailsQuietly(b) ==
  /\ queue[b] # <<>>
  /\ excused' = IF dir THEN excused \cup {"lossy"} ELSE excused
  /\ LET t == Head(queue[b])
         on == t.live /\ t.files[1] # "creds" IN
     /\ queue' = [queue EXCEPT ![b] = IF on
                    THEN Append(Tail(@), Credentials(b, t.val)) ELSE Tail(@)]
     /\ mem' = IF on THEN [mem EXCEPT ![b] = {t.val}] ELSE mem
  /\ tmp' = [tmp EXCEPT ![b] = {}]
  /\ UNCHANGED <<pid, spent, foreign, lockFile, pc, held, dir, file, drawn,
                 gone>>

(* The directory or the temporary file is no longer there, or the disk     *)
(* refuses: the task is over, and the queue goes on with the next one.     *)
WriteFails(b) ==
  /\ queue[b] # <<>>
  /\ excused' = IF dir THEN excused \cup {"lossy"} ELSE excused
  /\ queue' = [queue EXCEPT ![b] = Tail(@)]
  /\ tmp' = [tmp EXCEPT ![b] = {}]
  /\ UNCHANGED <<pid, spent, foreign, lockFile, pc, held, dir, file, mem, drawn,
                 gone>>

-----------------------------------------------------------------------------
(* The end of a session.  stop() releases the lock if this process         *)
(* believes to hold it and the file says so too, and does not wait for the *)
(* queue.                                                                  *)

Closed(b) ==
  /\ Running(b) /\ pc[b] \in {"closed", "open"}
  /\ pc' = [pc EXCEPT ![b] = "closed"]
  /\ held' = [held EXCEPT ![b] = FALSE]
  /\ queue' = [queue EXCEPT ![b] = Frozen(b)]
  /\ mem' = [mem EXCEPT ![b] = {}]

Released(b) == IF held[b] THEN lockFile \ {Holder(b)} ELSE lockFile

StopSession(b) ==
  /\ Closed(b)
  /\ lockFile' = Released(b)
  /\ dir' = TRUE
  /\ UNCHANGED <<pid, spent, foreign, file, tmp, drawn, gone, excused>>

(* A stop that keeps the files, as the first half of a migration that then *)
(* finds no credentials to move.                                           *)
StopKeeping(b) ==
  /\ file["creds"] = {}
  /\ Closed(b)
  /\ lockFile' = Released(b)
  /\ UNCHANGED <<pid, spent, foreign, dir, file, tmp, drawn, gone, excused>>

\* mutant: the files are copied
RemovedCopies(b) ==
  /\ lockFile' = {}
  /\ gone' = gone \cup {m.id : m \in file["creds"] \cup mem[b]}
  /\ excused' = excused
       \cup (IF \E c \in Boot : queue[c] # <<>> THEN {"late"} ELSE {})
       \cup (IF \E c \in Boot \ {b} : held[c] THEN {"stolen"} ELSE {})
  /\ UNCHANGED <<dir, file, tmp>>

(* deleteSessionAuthDir(), or the rename of migrateSessionAuthDir(), which *)
(* needs credentials: all files leave the directory, the lock as well.     *)
(* Either may find the writes of a session still under way, or take away   *)
(* the lock of a process that has the session open.                        *)
Removed(b) ==
  /\ dir' = FALSE
  /\ lockFile' = {}
  /\ file' = [f \in File |-> {}]
  /\ tmp' = [c \in Boot |-> {}]
  /\ gone' = gone \cup {m.id : m \in file["creds"] \cup mem[b]}
  /\ excused' = excused
       \cup (IF \E c \in Boot : queue[c] # <<>> THEN {"late"} ELSE {})
       \cup (IF \E c \in Boot \ {b} : held[c] THEN {"stolen"} ELSE {})

Purge(b) == Closed(b) /\ Removed(b) /\ UNCHANGED <<pid, spent, foreign, drawn>>

Migrate(b) ==
  /\ file["creds"] # {}
  /\ Closed(b) /\ Removed(b)
  /\ UNCHANGED <<pid, spent, foreign, drawn>>

(* A message sent before is stored, or received media saved: its mkdir     *)
(* makes the directory again.                                              *)
StoreMessage(b) ==
  /\ Running(b) /\ spent # {} /\ ~dir
  /\ dir' = TRUE
  /\ UNCHANGED <<pid, spent, foreign, lockFile, pc, held, file, tmp, mem, queue,
                 drawn, gone, excused>>

DirNext ==
  \/ \E b \in Boot :
       \/ Boots(b) \/ Exits(b)
       \/ StartOwned(b) \/ ClaimLock(b) \/ Load(b) \/ OpenThrows(b)
       \/ Pairs(b) \/ SetKeys(b)
       \/ WriteTemporary(b) \/ Rename(b) \/ WriteFails(b)
       \/ StopSession(b) \/ StopKeeping(b) \/ Purge(b) \/ Migrate(b)
       \/ StoreMessage(b)
  \/ \E p \in Pid : ForeignProgram(p)

DirSpec == DirInit /\ [][DirNext]_dirVars

-----------------------------------------------------------------------------
(* Properties.  What they except is excused: two processes that claim the  *)
(* lock at once (raced), a purge or a migration by a process that does not *)
(* hold the lock its holder believes in (stolen), writes that are still    *)
(* queued when the directory goes (late) or when a start reads it (stale), *)
(* and a write the disk refuses (lossy).                                   *)

(* The types.  Only an open session has an auth state.                     *)
DirTypeOK ==
  /\ pid \in [Boot -> Pid \cup {NoPid}] /\ spent \subseteq Boot
  /\ foreign \subseteq Pid
  /\ lockFile \subseteq [pid : Pid, boot : Boot]
  /\ pc \in [Boot -> {"closed", "claiming", "loading", "open"}]
  /\ held \in [Boot -> BOOLEAN] /\ dir \in BOOLEAN
  /\ file \in [File -> SUBSET Content] /\ tmp \in [Boot -> SUBSET Content]
  /\ mem \in [Boot -> SUBSET Content]
  /\ \A b \in Boot : /\ Cardinality(mem[b]) <= 1 /\ Cardinality(tmp[b]) <= 1
                     /\ (pc[b] = "open") = (mem[b] # {})
                     /\ tmp[b] # {} => queue[b] # <<>> /\ dir
                     /\ Len(queue[b]) <= MaxQueue + 1
  /\ (\E f \in File : file[f] # {}) \/ lockFile # {} => dir
  /\ drawn \in 0..MaxId /\ gone \subseteq 1..MaxId
  /\ excused \subseteq {"raced", "stale", "lossy", "late", "stolen"}

(* Whoever loads or has loaded the auth state holds the lock, so no two    *)
(* processes do: acquireSessionLock() takes a lock over only from the      *)
(* dead, across crashes, restarts and pids that are given again.           *)
OpenersHoldLock ==
  excused \cap {"raced", "stolen"} = {} =>
    \A b \in Boot : HasOpen(b) => lockFile = {Holder(b)}

(* Credentials on disk never run ahead of the keys that were stored before *)
(* them, wherever a crash or a failed write falls: the queue is in order,  *)
(* saveCreds() serialises late, and a failed keys.set() is told.           *)
KeysBeforeCreds ==
  excused \cap {"raced", "stolen", "late", "stale"} = {} =>
    \A m \in file["creds"] : m.rev > 1 =>
      \A f \in {"k1", "k2"} : \E v \in file[f] : v.id = m.id /\ v.rev >= m.rev

(* A pairing that was purged, or has moved to another session, does not    *)
(* come back to this directory.                                            *)
GoneStaysGone ==
  excused \cap {"stolen", "late"} = {} =>
    \A m \in file["creds"] : m.id \notin gone

(* With nothing queued, the file has what the open session has in memory,  *)
(* so a crash then loses nothing.                                          *)
SavedIsLatest ==
  excused = {} =>
    \A b \in Boot : \A m \in mem[b] :
      queue[b] = <<>> /\ m.rev > 0 => file["creds"] = {m}

(* A crash between any two steps of any write leaves credentials that the  *)
(* keys beside them go with, and the latest where nothing was queued.      *)
DiskIsSound == KeysBeforeCreds /\ SavedIsLatest
=============================================================================
