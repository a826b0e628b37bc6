---------------------------- MODULE SocketRoutes ----------------------------
(***************************************************************************)
(* The HTTP handlers that drive a live WhatsApp socket (routes/groups.ts,  *)
(* routes/contacts.ts).  A handler is written as its plan: the sequence of *)
(* things it awaits, each with what becomes of the answer when it fails.   *)
(* Between two steps of a plan other requests, the device's rows and the   *)
(* socket move on; WhatsApp may do what it was asked and never reply.      *)
(***************************************************************************)
EXTENDS WaDevice, Sequences, SequencesExt

CONSTANTS
  Req,           \* requests that run at once
  NoRoute,       \* the route of an idle request
  QueryTimeout,  \* WA_QUERY_TIMEOUT_MS, in ticks
  CacheTtl,      \* PROFILE_TTL_MS, PARTICIPATING_CACHE_TTL_MS
  MaxNow         \* bound: the clock

ASSUME TimeAssumption ==
  QueryTimeout \in Nat \ {0} /\ CacheTtl \in Nat \ {0} /\ MaxNow \in Nat

VARIABLES
  now,      \* Date.now()
  route,    \* the route of each request and the optional parts of its body
  at,       \* the step of its plan it is at
  got,      \* the socket requireSocket() gave it
  wait,     \* the operations it awaits
  due,      \* when their timers fire, 0 without a timer
  asked,    \* when it sent its first operation to WhatsApp
  ans,      \* the status it answered with
  cache,    \* participatingCache and profileCache, one entry of each
  done,     \* history: operations WhatsApp performed, by request
  back,     \* history: operations whose reply the request received
  reading,  \* how far the policy is read
  shown     \* history: what was so of the device since it arrived

reqVars == <<now, route, at, got, wait, due, asked, ans, cache, done, back,
             reading, shown>>

-----------------------------------------------------------------------------
(* Steps of a plan.  part: on a failure that is skipped the rest of the    *)
(* part is skipped with it.  late: what a timeout answers, if there is one.*)
Step(do, part, ops, fail, late) ==
  [do |-> do, part |-> part, ops |-> ops, fail |-> fail, late |-> late]

PolicyCheck    == Step("policy", "policy", {}, "503", "none")
RequireSocket  == Step("socket", "socket", {}, "503", "none")
LookUp(c)      == Step("lookup", c, {c}, "none", "none")
StoreIn(c)     == Step("store", c, {c}, "none", "none")
Fetch(part, f) == Step("fetch", part, {}, f, "none")
Must(op)       == Step("call", op, {op}, "500", "none")
Try(part, op)  == Step("call", part, {op}, "skip", "none")
Within(op)     == Step("call", op, {op}, "500", "504")
Optional(op)   == Step("call", op, {op}, "skip", "skip")

Part(opts, o, plan) == IF o \in opts THEN plan ELSE <<>>

-----------------------------------------------------------------------------
(* routes/groups.ts                                                        *)

\* mutant: the invite code is fetched like the group itself
GroupCreateAllOrNothing(opts) ==
  <<RequireSocket, Must("create")>>
    \o Part(opts, "icon", <<Fetch("icon", "skip"), Try("icon", "setIcon")>>)
    \o <<Must("invite")>>

(* The group is answered for once it exists: what follows is best effort.  *)
GroupCreate(opts) ==
  <<RequireSocket, Must("create")>>
    \o Part(opts, "description", <<Try("description", "describe")>>)
    \o Part(opts, "icon", <<Fetch("icon", "skip"), Try("icon", "setIcon")>>)
    \o <<Try("invite", "invite")>>

(* Each participant WhatsApp rejects costs a call for the invite code.     *)
GroupAdd(opts) ==
  <<RequireSocket, Must("add")>>
    \o Part(opts, "rejected", <<Try("invite1", "invite"), Try("invite2", "invite")>>)

GroupRemove == <<RequireSocket, Must("remove")>>

GroupPromote == <<RequireSocket, Must("promote")>>

GroupDemote == <<RequireSocket, Must("demote")>>

(* The policy is read again right before the message; here a refusal is an *)
(* error like any other.                                                   *)
GroupSend ==
  <<RequireSocket, Step("policy", "recheck", {}, "500", "none"), Must("send")>>

GroupMetadata == <<RequireSocket, Must("metadata")>>

(* A cached list is answered before anybody asks for the socket.           *)
GroupParticipating ==
  <<LookUp("lists"), RequireSocket, Must("list"), StoreIn("lists")>>

GroupAdmined == <<RequireSocket, Must("list")>>

GroupInviteCode == <<RequireSocket, Must("invite")>>

GroupSubject == <<RequireSocket, Must("subject")>>

GroupDescription == <<RequireSocket, Must("describe")>>

(* The image comes from elsewhere: 400 if it is no image or too large.     *)
GroupIcon == <<RequireSocket, Fetch("icon", "400"), Must("setIcon")>>

GroupSendPermission == <<RequireSocket, Must("setting")>>

GroupEditInfo == <<RequireSocket, Must("setting")>>

GroupApprovalMode == <<RequireSocket, Must("joinMode")>>

GroupMemberAddMode == <<RequireSocket, Must("addMode")>>

GroupInviteInfo == <<RequireSocket, Must("inviteInfo")>>

-----------------------------------------------------------------------------
(* routes/contacts.ts                                                      *)

ContactExists == <<RequireSocket, Within("onWhatsApp")>>

(* With "known" the number is on WhatsApp: picture, about, business        *)
(* profile and catalog are fetched at once, each for itself.  "details"    *)
(* settles with the last of them.                                          *)
ContactProfile(opts) ==
  <<LookUp("profiles"), RequireSocket, Within("onWhatsApp")>>
    \o Part(opts, "known",
            <<Optional("details")>>)
    \o <<StoreIn("profiles")>>

-----------------------------------------------------------------------------
Mutating == {"create", "describe", "setIcon", "add", "remove", "promote",
             "demote", "send", "subject", "setting", "joinMode", "addMode"}

(* The plans of the routes that are not GET: the router reads the policy   *)
(* before it looks for the handler.                                        *)
Written(name, opts) ==
  CASE name = "create"      -> GroupCreate(opts)
    [] name = "add"         -> GroupAdd(opts)
    [] name = "remove"      -> GroupRemove
    [] name = "promote"     -> GroupPromote
    [] name = "demote"      -> GroupDemote
    [] name = "send"        -> GroupSend
    [] name = "subject"     -> GroupSubject
    [] name = "description" -> GroupDescription
    [] name = "icon"        -> GroupIcon
    [] name = "sendPermission" -> GroupSendPermission
    [] name = "editInfo"    -> GroupEditInfo
    [] name = "approval"    -> GroupApprovalMode
    [] name = "memberAdd"   -> GroupMemberAddMode

WrittenRoutes == {"create", "add", "remove", "promote", "demote", "send",
  "subject", "description", "icon", "sendPermission", "editInfo", "approval",
  "memberAdd"}

ReadPlan(name, opts) ==
  CASE name = "metadata"      -> GroupMetadata
    [] name = "participating" -> GroupParticipating
    [] name = "admined"       -> GroupAdmined
    [] name = "inviteCode"    -> GroupInviteCode
    [] name = "inviteInfo"    -> GroupInviteInfo
    [] name = "exists"        -> ContactExists
    [] name = "profile"       -> ContactProfile(opts)

ContactRoutes == {"exists", "profile"}

ReadRoutes == {"metadata", "participating", "admined", "inviteCode",
               "inviteInfo"} \cup ContactRoutes

Plan(rt) ==
  IF rt.name \in WrittenRoutes
  THEN <<PolicyCheck>> \o Written(rt.name, rt.opts)
  ELSE ReadPlan(rt.name, rt.opts)

Route == [name : WrittenRoutes \cup ReadRoutes,
          opts : SUBSET {"description", "icon", "rejected", "known"}]

-----------------------------------------------------------------------------
SocketRoutesInit ==
  /\ DeviceInit
  /\ now = 1
  /\ route = [r \in Req |-> NoRoute] /\ at = [r \in Req |-> 0]
  /\ got = [r \in Req |-> 0] /\ wait = [r \in Req |-> {}]
  /\ due = [r \in Req |-> 0] /\ asked = [r \in Req |-> 0]
  /\ ans = [r \in Req |-> "none"]
  /\ cache = [c \in {"lists", "profiles"} |-> {}]
  /\ done = {} /\ back = {}
  /\ reading = [r \in Req |-> "rows"] /\ shown = [r \in Req |-> {}]

Current(r) == Plan(route[r])[at[r]]

At(r, do) ==
  route[r] # NoRoute /\ at[r] > 0 /\ wait[r] = {} /\ Current(r).do = do

(* A request that does not await anything runs on: nothing else happens in *)
(* the process, and nothing it looks at changes, before it does.           *)
Awaits(r) == wait[r] # {} \/ Current(r).do \in {"policy", "fetch"}

Idle == \A r \in Req : at[r] > 0 => Awaits(r)

Answer(r, code) ==
  /\ at' = [at EXCEPT ![r] = 0] /\ ans' = [ans EXCEPT ![r] = code]
  /\ got' = [got EXCEPT ![r] = 0] /\ asked' = [asked EXCEPT ![r] = 0]

(* Where the request goes on: behind its step, or behind the step's part.  *)
(* After the last step the answer is 200.                                  *)
GoTo(r, i) ==
  IF i <= Len(Plan(route[r]))
  THEN at' = [at EXCEPT ![r] = i] /\ UNCHANGED <<ans, got, asked>>
  ELSE Answer(r, "200")

Behind(r) ==
  LET plan == Plan(route[r])
      rest == {i \in at[r] + 1..Len(plan) : plan[i].part # Current(r).part}
  IN  Min(rest \cup {Len(plan) + 1})

Fail(r, outcome) ==
  IF outcome = "skip" THEN GoTo(r, Behind(r)) ELSE Answer(r, outcome)

(* A request arrives; an idle one is used again.                           *)
Arrive(r, rt) ==
  /\ Idle /\ at[r] = 0
  /\ now + 2 * QueryTimeout <= MaxNow
  /\ route' = [route EXCEPT ![r] = rt]
  /\ at' = [at EXCEPT ![r] = 1]
  /\ got' = [got EXCEPT ![r] = 0] /\ wait' = [wait EXCEPT ![r] = {}]
  /\ due' = [due EXCEPT ![r] = 0] /\ asked' = [asked EXCEPT ![r] = 0]
  /\ ans' = [ans EXCEPT ![r] = "none"]
  /\ done' = {d \in done : d.req # r} /\ back' = {b \in back : b[1] # r}
  /\ reading' = [reading EXCEPT ![r] = "rows"]
  /\ shown' = [shown EXCEPT ![r] = Facts(device)]
  /\ UNCHANGED <<now, cache, deviceVars>>

(* The database has looked at the table that was asked.                    *)
TableAnswers(r) ==
  /\ Idle /\ At(r, "policy") /\ reading[r] \in Table
  /\ reading' = [reading EXCEPT ![r] = ReadDeviceListenOnly(@, device)]
  /\ UNCHANGED <<now, route, at, got, wait, due, asked, ans, cache, done, back,
                 shown, deviceVars>>

(* The middleware answers 403 to a listen-only device, 503 when the policy *)
(* cannot be read; a recheck inside a handler fails like the rest of it.   *)
ReadPolicy(r) ==
  /\ Idle /\ At(r, "policy") /\ reading[r] \in Verdict
  /\ CASE reading[r] = "may_send" -> GoTo(r, at[r] + 1)
       [] reading[r] # "may_send" ->
            Answer(r, IF reading[r] = "listen_only" /\ Current(r).part = "policy"
                      THEN "403" ELSE Current(r).fail)
  /\ reading' = [reading EXCEPT ![r] = "rows"]
  /\ UNCHANGED <<now, route, wait, due, cache, done, back, shown, deviceVars>>

TakeSocket(r) ==
  /\ At(r, "socket")
  /\ CASE status # "connected"             -> Answer(r, "404")
       [] status = "connected" /\ sock = 0 -> Answer(r, "503")
       [] status = "connected" /\ sock > 0 ->
            /\ at' = [at EXCEPT ![r] = @ + 1] /\ got' = [got EXCEPT ![r] = sock]
            /\ UNCHANGED <<ans, asked>>
  /\ UNCHANGED <<now, route, wait, due, cache, done, back, reading, shown,
                 deviceVars>>

\* mutant: reading an entry keeps it alive
FreshSliding(c) == {e \in cache[c] : now <= e.exp + CacheTtl}

Fresh(c) == {e \in cache[c] : now <= e.exp}

(* An entry that has expired is deleted when it is read.                   *)
LookInCache(r) ==
  /\ At(r, "lookup")
  /\ LET c == Current(r).part IN
       /\ cache' = [cache EXCEPT ![c] = Fresh(c)]
       /\ IF Fresh(c) # {} THEN Answer(r, "hit") ELSE GoTo(r, at[r] + 1)
  /\ UNCHANGED <<now, route, wait, due, done, back, reading, shown,
                 deviceVars>>

StoreInCache(r) ==
  /\ At(r, "store")
  /\ cache' = [cache EXCEPT ![Current(r).part] =
                 {[exp |-> now + CacheTtl, asked |-> asked[r]]}]
  /\ GoTo(r, at[r] + 1)
  /\ UNCHANGED <<now, route, wait, due, done, back, reading, shown,
                 deviceVars>>

(* An HTTP fetch of something that is not WhatsApp's.                      *)
FetchEnds(r, ok) ==
  /\ Idle /\ At(r, "fetch")
  /\ IF ok THEN GoTo(r, at[r] + 1)
     ELSE \E outcome \in {Current(r).fail} \cup
                         (IF Current(r).fail = "skip" THEN {} ELSE {"500"}) :
            Fail(r, outcome)
  /\ UNCHANGED <<now, route, wait, due, cache, done, back, reading, shown,
                 deviceVars>>

(* The operation goes to the socket the request took; one that has been    *)
(* closed since throws at once.                                            *)
Issue(r) ==
  /\ At(r, "call")
  /\ IF got[r] = sock /\ open
     THEN /\ wait' = [wait EXCEPT ![r] = Current(r).ops]
          /\ due' = [due EXCEPT ![r] = IF Current(r).late = "none" THEN 0
                                       ELSE now + QueryTimeout]
          /\ asked' = [asked EXCEPT ![r] = IF @ = 0 THEN now ELSE @]
          /\ UNCHANGED <<at, ans, got>>
     ELSE Fail(r, Current(r).fail) /\ UNCHANGED <<wait, due>>
  /\ UNCHANGED <<now, route, cache, done, back, reading, shown, deviceVars>>

Performed(r, op) == \E d \in done : d.req = r /\ d.op = op

(* WhatsApp does what it is asked, replied to or not.                      *)
Performs(r, op) ==
  /\ Idle /\ op \in wait[r] \cap Mutating /\ ~Performed(r, op)
  /\ done' = done \cup {[req |-> r, op |-> op]}
  /\ UNCHANGED <<now, route, at, got, wait, due, asked, ans, cache, back,
                 reading, shown, deviceVars>>

(* The steps a settled operation leaves: the request goes on when none is  *)
(* awaited any more.                                                       *)
Settle(r, op) ==
  /\ wait' = [wait EXCEPT ![r] = @ \ {op}]
  /\ due' = [due EXCEPT ![r] = IF wait[r] = {op} THEN 0 ELSE @]
  /\ IF wait[r] = {op} THEN GoTo(r, at[r] + 1) ELSE UNCHANGED <<at, ans, got, asked>>

Reply(r, op) ==
  /\ Idle /\ op \in wait[r]
  /\ (op \in Mutating => Performed(r, op))
  /\ open /\ got[r] = sock
  /\ back' = IF op \in Mutating THEN back \cup {<<r, op>>} ELSE back
  /\ Settle(r, op)
  /\ UNCHANGED <<now, route, cache, done, reading, shown, deviceVars>>

(* WhatsApp refuses, or the socket closed under the operation: it may have *)
(* been performed all the same.                                            *)
ReplyError(r, op) ==
  /\ Idle /\ op \in wait[r]
  /\ IF Current(r).fail = "skip" THEN Settle(r, op)
     ELSE /\ wait' = [wait EXCEPT ![r] = {}] /\ due' = [due EXCEPT ![r] = 0]
          /\ Answer(r, Current(r).fail)
  /\ UNCHANGED <<now, route, cache, done, back, reading, shown,
                 deviceVars>>

(* withTimeout() of routes/contacts.ts.                                    *)
QueryTimesOut(r) ==
  /\ Idle /\ wait[r] # {} /\ due[r] # 0 /\ now >= due[r]
  /\ wait' = [wait EXCEPT ![r] = {}] /\ due' = [due EXCEPT ![r] = 0]
  /\ Fail(r, Current(r).late)
  /\ UNCHANGED <<now, route, cache, done, back, reading, shown,
                 deviceVars>>

(* Time passes in the event loop's pace: no timer is overtaken.  bound: it *)
(* stands still while no timer and no entry of a cache depends on it.      *)
Tick ==
  /\ Idle /\ now < MaxNow
  /\ (\E r \in Req : due[r] # 0) \/ (\E c \in DOMAIN cache : cache[c] # {})
  /\ \A r \in Req : due[r] = 0 \/ now < due[r]
  /\ now' = now + 1
  /\ UNCHANGED <<route, at, got, wait, due, asked, ans, cache, done, back,
                 reading, shown, deviceVars>>

(* The environment, with the record of what was so when.                   *)
DeviceMoves(devices) ==
  /\ Idle /\ DeviceStep(devices)
  /\ shown' = [r \in Req |-> IF at[r] > 0 THEN shown[r] \cup Facts(device')
                             ELSE shown[r]]
  /\ UNCHANGED <<now, route, at, got, wait, due, asked, ans, cache, done, back,
                 reading>>

Advances(r) ==
  \/ TableAnswers(r)
  \/ ReadPolicy(r)
  \/ TakeSocket(r)
  \/ LookInCache(r)
  \/ StoreInCache(r)
  \/ Issue(r)

WhatsApp(r) ==
  \E op \in wait[r] : Performs(r, op) \/ Reply(r, op) \/ ReplyError(r, op)

SocketRoutesNext(routes, devices) ==
  \/ \E r \in Req, rt \in routes : Arrive(r, rt)
  \/ \E r \in Req : Advances(r) \/ WhatsApp(r) \/ QueryTimesOut(r)
  \/ \E r \in Req, ok \in BOOLEAN : FetchEnds(r, ok)
  \/ Tick
  \/ DeviceMoves(devices)

SocketRoutesSpec ==
  SocketRoutesInit /\ [][SocketRoutesNext(Route, Device)]_<<deviceVars, reqVars>>

(* What the event loop has begun it finishes, a timer that is due has its  *)
(* turn however many requests arrive, and time passes for one that is set. *)
(* WhatsApp owes nothing.                                                  *)
SocketRoutesFairness ==
  /\ \A r \in Req : /\ WF_<<deviceVars, reqVars>>(Advances(r))
                    /\ SF_<<deviceVars, reqVars>>(QueryTimesOut(r))
  /\ SF_<<deviceVars, reqVars>>(Tick /\ \E r \in Req : due[r] # 0)

-----------------------------------------------------------------------------
(* Properties.                                                             *)

(* Each variable has its type.                                             *)
SocketRoutesTypeOK ==
  /\ device \in Device /\ flips \in 0..MaxFlip
  /\ sock \in 0..MaxSock /\ open \in BOOLEAN
  /\ now \in 1..MaxNow
  /\ \A r \in Req :
       /\ route[r] \in Route \cup {NoRoute}
       /\ at[r] > 0 => at[r] <= Len(Plan(route[r]))
       /\ wait[r] # {} => at[r] > 0 /\ wait[r] \subseteq Current(r).ops
       /\ due[r] > 0 => wait[r] # {}
       /\ at[r] = 0 /\ route[r] # NoRoute =>
            ans[r] \in {"200", "hit", "400", "403", "404", "500", "503", "504"}

(* groups.ts:42-52: WhatsApp performs a change of a group, or a message to *)
(* it, only for a device that had a row that lets it send since the        *)
(* request arrived, or, each at some time since then, no row, an external  *)
(* product's entry in the hub and no organization of JumpStart's.          *)
OnlyOpenDevicesAct == \A d \in done : MaySend(shown[d.req])

(* groups.ts:110-157: a request that has heard WhatsApp do a part of what  *)
(* it asked for does not answer with an error, whatever fails afterwards:  *)
(* the caller would do it, or create the group, again.                     *)
DoneIsReported ==
  \A b \in back : at[b[1]] = 0 => ans[b[1]] = "200"

(* contacts.ts:51-78: what the profile cache would answer was asked of     *)
(* WhatsApp at most the cache's lifetime and two query timeouts ago, also  *)
(* when two requests fill the same entry at once.                          *)
ProfileIsRecent ==
  \A e \in Fresh("profiles") :
    now - e.asked <= CacheTtl + 2 * QueryTimeout

(* contacts.ts:21-49: a contact request never waits for ever, although     *)
(* WhatsApp may never reply to any of its queries.                         *)
ContactAnswered ==
  \A r \in Req :
    []<>~(at[r] > 0 /\ route[r].name \in ContactRoutes)
=============================================================================
