---------------------------- MODULE StratumClient ----------------------------
(***************************************************************************)
(* StratumClient (src/stratum/stratum_client.cpp): one TCP connection at a *)
(* time to a mining pool, the handshake (subscribe, authorize), the        *)
(* receive loop, the jobs it hands to the job callback and the answers it  *)
(* hands to the share callback.  The calling thread is                     *)
(* Miner::stratum_thread, reduced to the order of its calls.               *)
(*                                                                         *)
(* Data is reduced to where it came from.  A session is numbered by the    *)
(* connection that carries it; an extranonce is known by its session and   *)
(* by the way it was announced, and a difficulty level is a number the     *)
(* pool never reuses (a target and the difficulty it stands for are the    *)
(* same level); a job carries, beside what the client put in it, what the  *)
(* pool meant: poolXn and poolLevel.                                       *)
(*                                                                         *)
(* The pool is external: it answers the requests it reads in order, and    *)
(* sends notifications once the miner is subscribed.                       *)
(***************************************************************************)
EXTENDS Naturals, Sequences

CONSTANTS
  Pools,          \* the configured pools
  ArrayPools,     \* pools whose subscribe answer has extranonce1 in its first array
  TargetPools,    \* pools that announce targets; the others announce difficulties
  AuthVerdicts,   \* how pools may answer mining.authorize
  ShareRefusals,  \* how pools refuse a share
  XnForms,        \* forms of mining.set_extranonce the pools use
  Noise,          \* lines no handler wants: "blank", "malformed", "overlong"
  IdsRestart,     \* every session of a pool numbers its jobs from 1 again
  MaxAuthLines,   \* lines authorize() reads before it gives up (10 in the code)
  MaxSessions,    \* bound: connections
  MaxJobs,        \* bound: jobs notified per session
  MaxLevels,      \* bound: difficulty changes per session
  MaxShares       \* bound: shares submitted

(* What a response says: result true, result false with error null, an      *)
(* error array, or an error in another form.                                *)
Verdict == {"true", "false", "error", "other"}

ASSUME PoolAssumption == ArrayPools \subseteq Pools /\ TargetPools \subseteq Pools
ASSUME VerdictAssumption == AuthVerdicts \subseteq Verdict /\ ShareRefusals \subseteq Verdict
ASSUME FormAssumption ==
  /\ XnForms \subseteq {"keyed", "odd", "positional"}
  /\ Noise \subseteq {"blank", "malformed", "overlong"}
ASSUME SwitchAssumption == IdsRestart \in BOOLEAN
ASSUME CountAssumption ==
  /\ MaxAuthLines \in Nat \ {0}
  /\ MaxSessions \in Nat
  /\ MaxJobs \in Nat
  /\ MaxLevels \in Nat \ {0}
  /\ MaxShares \in Nat

VARIABLES
  pc,          \* the call the stratum thread is in
  socket,      \* m_socket: the session it carries, 0 for -1
  connected,   \* m_connected
  running,     \* m_running
  recvBuffer,  \* m_recv_buffer: the complete lines not taken yet
  extranonce1, \* m_extranonce1, NoXn when empty
  difficulty,  \* m_difficulty
  poolTarget,  \* m_pool_target, NoTarget while m_has_pool_target is false
  attempts,    \* attempts, a local of authorize()
  job,         \* the last job handed to m_job_callback
  results,     \* calls of m_share_callback, by verdict
  session,     \* connections established so far
  pool,        \* the pool's side of the session
  wire,        \* lines from the pool on their way to the miner
  outbox,      \* requests from the miner on their way to the pool
  submitted,   \* calls of submit_share
  verdicts,    \* history: the pools' verdicts on shares
  overtaken,   \* history: requests of this handshake a share was sent ahead of
  delivered    \* history: jobs of this session handed to the callback

conn == <<socket, connected, running>>
learned == <<extranonce1, difficulty, poolTarget>>
jobs == <<job, delivered>>
net == <<session, pool, wire, outbox>>
shares == <<submitted, verdicts, overtaken>>
vars == <<pc, conn, recvBuffer, learned, attempts, jobs, results, net, shares>>

(* An extranonce: the session it is of, and how the pool announced it.       *)
NoXn == [from |-> 0, form |-> "none"]
Xn(form) == [from |-> session, form |-> form]
Extranonces == [from : 0 .. MaxSessions, form : {"none", "answer"} \cup XnForms]
NoTarget == 0
NoJob == [id |-> 0, n |-> 0, from |-> 0, xn |-> NoXn, level |-> 0, poolXn |-> NoXn, poolLevel |-> 0]

(* The lines a pool sends. *)
Response(to, verdict) == [kind |-> "response", to |-> to, verdict |-> verdict, from |-> session]
SubscribeResponse(xn) ==
  [kind |-> "response", to |-> "subscribe", verdict |-> "array", xn |-> xn, from |-> session]
JobId(n) == IF IdsRestart THEN n ELSE (session - 1) * MaxJobs + n
Notify(n) ==
  [kind |-> "notify", id |-> JobId(n), n |-> n, xn |-> pool.xn, level |-> pool.level, from |-> session]
SetLevel(level) ==
  [kind |-> IF pool.name \in TargetPools THEN "set_target" ELSE "set_difficulty",
   level |-> level, from |-> session]
SetExtranonce(xn) == [kind |-> "set_extranonce", xn |-> xn, from |-> session]
NoiseLine(kind) == [kind |-> kind, from |-> session]

Closed == [name |-> "none", open |-> FALSE, subscribed |-> FALSE, verdict |-> "none",
           xn |-> NoXn, level |-> 0, levels |-> 0, sent |-> 0]

Init ==
  /\ pc = "idle"
  /\ socket = 0
  /\ connected = FALSE
  /\ running = FALSE
  /\ recvBuffer = <<>>
  /\ extranonce1 = NoXn
  /\ difficulty = 0
  /\ poolTarget = NoTarget
  /\ attempts = 0
  /\ job = NoJob
  /\ results = [accepted |-> 0, rejected |-> 0]
  /\ session = 0
  /\ pool = Closed
  /\ wire = <<>>
  /\ outbox = <<>>
  /\ submitted = 0
  /\ verdicts = [accepted |-> 0, refused |-> 0]
  /\ overtaken = {}
  /\ delivered = 0

-------------------------------------------------------------------------------
(* Connection *)

KeptBuffer(buffer) == buffer  \* mutant of ClearedBuffer

(* m_recv_buffer.clear() *)
ClearedBuffer(buffer) == <<>>

(* connect() succeeds: a new session with pool p. *)
Connect(p) ==
  /\ pc = "idle"
  /\ session < MaxSessions
  /\ session' = session + 1
  /\ socket' = session'
  /\ connected' = TRUE
  /\ recvBuffer' = ClearedBuffer(recvBuffer)
  /\ pool' = [Closed EXCEPT !.name = p, !.open = TRUE]
  /\ wire' = <<>>
  /\ outbox' = <<>>
  /\ delivered' = 0
  /\ overtaken' = {}
  /\ pc' = "connected"
  /\ UNCHANGED <<learned, submitted, verdicts, running, attempts, job, results>>

(* connect() fails: whatever was open is closed. *)
ConnectFails ==
  /\ pc = "idle"
  /\ socket' = 0
  /\ connected' = FALSE
  /\ recvBuffer' = ClearedBuffer(recvBuffer)
  /\ UNCHANGED <<learned, jobs, net, shares, pc, running, attempts, results>>

DisconnectLeaving(flag) ==
  /\ pc = "disconnect"
  /\ running' = FALSE
  /\ connected' = flag
  /\ recvBuffer' = ClearedBuffer(recvBuffer)
  /\ socket' = 0
  /\ pool' = Closed
  /\ wire' = <<>>
  /\ outbox' = <<>>
  /\ pc' = "idle"
  /\ UNCHANGED <<learned, jobs, shares, attempts, results, session>>

DisconnectKeepsFlag == DisconnectLeaving(connected)  \* mutant of Disconnect

(* disconnect(), which stratum_thread calls after every failure and after    *)
(* run(): the extranonce, the target and the last job stay.                  *)
Disconnect == DisconnectLeaving(FALSE)

CanSend == connected /\ socket # 0

(* send_message(): nothing is sent when there is no connection, and what is  *)
(* sent to a pool that has closed is lost.                                   *)
Send(request) ==
  outbox' = IF CanSend /\ pool.open THEN Append(outbox, request) ELSE outbox

(* recv() in receive_line(): the buffer holds no complete line, some arrive. *)
Receiving == pc \in {"subscribing", "authorizing", "running"} /\ connected

Recv ==
  /\ Receiving
  /\ recvBuffer = <<>>
  /\ \E k \in 1 .. Len(wire) :
       /\ recvBuffer' = SubSeq(wire, 1, k)
       /\ wire' = SubSeq(wire, k + 1, Len(wire))
  /\ UNCHANGED <<conn, learned, jobs, shares, pc, attempts, results, session, pool, outbox>>

RecvRetried ==  \* mutant of RecvFails
  /\ Receiving
  /\ recvBuffer = <<>>
  /\ wire = <<>>
  /\ ~pool.open
  /\ UNCHANGED vars

(* recv() returns 0 or an error: receive_line() returns "" and each of its   *)
(* callers fails.                                                            *)
RecvFails ==
  /\ Receiving
  /\ recvBuffer = <<>>
  /\ wire = <<>>
  /\ ~pool.open
  /\ connected' = FALSE
  /\ pc' = "disconnect"
  /\ UNCHANGED <<learned, jobs, net, shares, socket, running, recvBuffer, attempts, results>>

(* receive_line() returns the first complete line of the buffer. *)
TakeLine == Receiving /\ recvBuffer # <<>> /\ recvBuffer' = Tail(recvBuffer)
Line == Head(recvBuffer)

(* A line over MAX_LINE_LENGTH, which receive_line() drops with the buffer,  *)
(* or an empty line, which it returns: both read as "" and end the session.  *)
EmptyLine ==
  /\ Receiving
  /\ recvBuffer # <<>>
  /\ \/ /\ Line.kind = "overlong"
        /\ connected' = FALSE
        /\ recvBuffer' = ClearedBuffer(recvBuffer)
     \/ /\ Line.kind = "blank"
        /\ connected' = (connected /\ pc # "running")
        /\ recvBuffer' = Tail(recvBuffer)
  /\ pc' = "disconnect"
  /\ UNCHANGED <<learned, jobs, net, shares, socket, running, attempts, results>>

-------------------------------------------------------------------------------
(* Messages *)

IsText == Line.kind \notin {"blank", "overlong"}
IsResponse == Line.kind = "response"
IsNotification == IsText /\ ~IsResponse

(* calculate_target(): the pool's target if one was ever received. *)
JobLevel == IF poolTarget # NoTarget THEN poolTarget ELSE difficulty

StaleHeader ==  \* mutant of BuiltJob: the header of the job before
  [id |-> Line.id, n |-> Line.n, from |-> Line.from, xn |-> job.xn, level |-> JobLevel,
   poolXn |-> Line.xn, poolLevel |-> Line.level]

(* parse_job(): the job is built from the notification and from what the     *)
(* client holds at that moment.                                              *)
BuiltJob ==
  [id |-> Line.id, n |-> Line.n, from |-> Line.from, xn |-> extranonce1, level |-> JobLevel,
   poolXn |-> Line.xn, poolLevel |-> Line.level]

FirstTargetKept ==  \* mutant of ReceivedTarget
  IF poolTarget = NoTarget THEN Line.level ELSE poolTarget

ReceivedTarget == Line.level

IgnoreNotification ==  \* mutant of HandleNotification
  UNCHANGED <<learned, jobs>>

HandleNotification ==
  \/ /\ Line.kind = "notify"
     /\ job' = BuiltJob
     /\ delivered' = delivered + 1
     /\ UNCHANGED learned
  \/ /\ Line.kind = "set_difficulty"
     /\ difficulty' = Line.level
     /\ UNCHANGED <<jobs, poolTarget, extranonce1>>
  \/ /\ Line.kind = "set_target"
     /\ poolTarget' = ReceivedTarget
     /\ difficulty' = Line.level
     /\ UNCHANGED <<jobs, extranonce1>>
  \/ /\ Line.kind = "set_extranonce"  \* read by the key "extranonce1" only
     /\ extranonce1' = IF Line.xn.form = "positional" THEN extranonce1 ELSE Line.xn
     /\ UNCHANGED <<jobs, difficulty, poolTarget>>
  \/ /\ Line.kind = "malformed"       \* mining.notify with less than 8 elements
     /\ UNCHANGED <<learned, jobs>>

(* process_message(): result true, or error null and no error array. *)
Success(verdict) == verdict \in {"true", "false", "array"}

(* handle_response(): whatever request the response is for, it is reported   *)
(* as the result of a share.                                                 *)
HandleResponse ==
  results' = IF Success(Line.verdict)
             THEN [results EXCEPT !.accepted = @ + 1]
             ELSE [results EXCEPT !.rejected = @ + 1]

-------------------------------------------------------------------------------
(* Handshake *)

Subscribe ==
  /\ pc = "connected"
  /\ Send([kind |-> "subscribe"])
  /\ pc' = IF CanSend THEN "subscribing" ELSE "disconnect"
  /\ UNCHANGED <<conn, learned, jobs, shares, recvBuffer, attempts, results, session, pool, wire>>

FirstExtranonceKept(line) ==  \* mutant of ExtranonceIn
  IF line.kind = "response" /\ line.to = "subscribe" /\ extranonce1 = NoXn
  THEN line.xn ELSE extranonce1

(* The extranonce subscribe() extracts: from the first array of the result   *)
(* if it is there, from the end of the line only if there was none before.   *)
ExtranonceIn(line) ==
  IF line.kind = "response" /\ line.to = "subscribe"
       /\ (pool.name \in ArrayPools \/ extranonce1 = NoXn)
  THEN line.xn ELSE extranonce1

(* subscribe() takes the first line it gets for its response. *)
SubscribeLine ==
  /\ pc = "subscribing"
  /\ TakeLine
  /\ IsText
  /\ extranonce1' = ExtranonceIn(Line)
  /\ pc' = "subscribed"
  /\ UNCHANGED <<conn, jobs, net, shares, difficulty, poolTarget, attempts, results>>

Authorize ==
  /\ pc = "subscribed"
  /\ attempts' = 0
  /\ Send([kind |-> "authorize"])
  /\ pc' = IF CanSend THEN "authorizing" ELSE "disconnect"
  /\ UNCHANGED <<conn, learned, jobs, shares, recvBuffer, results, session, pool, wire>>

(* Notifications before the answer are processed, and count as attempts. *)
AuthorizeNotification ==
  /\ pc = "authorizing"
  /\ TakeLine
  /\ IsNotification
  /\ HandleNotification
  /\ attempts' = attempts + 1
  /\ pc' = IF attempts' < MaxAuthLines THEN "authorizing" ELSE "disconnect"
  /\ UNCHANGED <<conn, net, shares, results>>

ErrorsGrant(verdict) == verdict # "other"  \* mutant of Grants

(* authorize() succeeds on result true and on error null. *)
Grants(verdict) == verdict \in {"true", "false", "array"}

AnswerReported ==  \* mutant of AuthorizeResponse: process_message() gets every line
  /\ pc = "authorizing"
  /\ TakeLine
  /\ IsResponse
  /\ HandleResponse
  /\ attempts' = attempts + 1
  /\ pc' = IF Grants(Line.verdict) THEN "run"
           ELSE IF Line.verdict = "error" \/ attempts' = MaxAuthLines THEN "disconnect"
           ELSE "authorizing"
  /\ UNCHANGED <<conn, learned, jobs, net, shares>>

(* The first response with a verdict is taken for the answer. *)
AuthorizeResponse ==
  /\ pc = "authorizing"
  /\ TakeLine
  /\ IsResponse
  /\ attempts' = attempts + 1
  /\ pc' = IF Grants(Line.verdict) THEN "run"
           ELSE IF Line.verdict = "error" \/ attempts' = MaxAuthLines THEN "disconnect"
           ELSE "authorizing"
  /\ UNCHANGED <<conn, learned, jobs, net, shares, results>>

-------------------------------------------------------------------------------
(* run() *)

Run ==
  /\ pc = "run"
  /\ running' = TRUE
  /\ pc' = "loop"
  /\ UNCHANGED <<learned, jobs, net, shares, socket, connected, recvBuffer, attempts, results>>

(* while (m_running && m_connected) *)
RunLoop ==
  /\ pc = "loop"
  /\ pc' = IF running /\ connected THEN "running" ELSE "disconnect"
  /\ UNCHANGED <<conn, learned, jobs, net, shares, recvBuffer, attempts, results>>

RunNotification ==
  /\ pc = "running"
  /\ TakeLine
  /\ IsNotification
  /\ HandleNotification
  /\ pc' = "loop"
  /\ UNCHANGED <<conn, net, shares, attempts, results>>

RunResponse ==
  /\ pc = "running"
  /\ TakeLine
  /\ IsResponse
  /\ HandleResponse
  /\ pc' = "loop"
  /\ UNCHANGED <<conn, learned, jobs, net, shares, attempts>>

(* stop(), from another thread: run() sees it after its next line. *)
Stop ==
  /\ running
  /\ running' = FALSE
  /\ UNCHANGED <<learned, jobs, net, shares, pc, socket, connected, recvBuffer, attempts, results>>

-------------------------------------------------------------------------------
(* Shares *)

(* submit_share() for a share of job j, called by a mining thread: it uses   *)
(* the extranonce of the moment, refuses one of odd length, and ignores the  *)
(* result of send_message.  Its answer comes before those of the requests    *)
(* the handshake has still to send.                                          *)
SubmitShare(j) ==
  /\ submitted < MaxShares
  /\ submitted' = submitted + 1
  /\ IF extranonce1.form = "odd"
     THEN UNCHANGED <<outbox, overtaken>>
     ELSE /\ Send([kind |-> "submit", job |-> j, xn |-> extranonce1])
          /\ overtaken' = overtaken \cup
               IF outbox' = outbox THEN {}
               ELSE IF pc = "connected" THEN {"subscribe", "authorize"}
               ELSE IF pc \in {"subscribing", "subscribed"} THEN {"authorize"}
               ELSE {}
  /\ UNCHANGED <<pc, conn, recvBuffer, learned, attempts, jobs, results, session, pool, wire,
                 verdicts>>

(* Mining goes on with the last job whatever the state of the connection.    *)
MinerSubmits == job # NoJob /\ SubmitShare(job)

-------------------------------------------------------------------------------
(* The pool (external) *)

client == <<pc, conn, recvBuffer, learned, attempts, jobs, results, session, submitted, overtaken>>

ValidShare(share) ==
  pool.verdict = "true" /\ share.job.from = session /\ share.xn = pool.xn

(* Some verdict on share: "true" if it is valid. *)
AnswerShare(share) ==
  IF ValidShare(share)
  THEN /\ wire' = Append(wire, Response("submit", "true"))
       /\ verdicts' = [verdicts EXCEPT !.accepted = @ + 1]
  ELSE /\ \E v \in ShareRefusals : wire' = Append(wire, Response("submit", v))
       /\ verdicts' = [verdicts EXCEPT !.refused = @ + 1]

PoolAnswers ==
  /\ pool.open
  /\ outbox # <<>>
  /\ outbox' = Tail(outbox)
  /\ LET request == Head(outbox) IN
     \/ /\ request.kind = "subscribe"
        /\ pool' = [pool EXCEPT !.subscribed = TRUE, !.xn = Xn("answer")]
        /\ wire' = Append(wire, SubscribeResponse(Xn("answer")))
        /\ UNCHANGED verdicts
     \/ /\ request.kind = "authorize"
        /\ \E v \in AuthVerdicts :
             /\ pool' = [pool EXCEPT !.verdict = v]
             /\ wire' = Append(wire, Response("authorize", v))
        /\ UNCHANGED verdicts
     \/ /\ request.kind = "submit"
        /\ AnswerShare(request)
        /\ UNCHANGED pool
  /\ UNCHANGED client

(* A pool announces a target or a difficulty before its first job. *)
PoolNotifies ==
  /\ pool.open
  /\ pool.subscribed
  /\ pool.levels > 0
  /\ pool.sent < MaxJobs
  /\ pool' = [pool EXCEPT !.sent = @ + 1]
  /\ wire' = Append(wire, Notify(pool.sent + 1))
  /\ UNCHANGED <<client, outbox, verdicts>>

PoolSetsLevel ==
  /\ pool.open
  /\ pool.subscribed
  /\ pool.levels < MaxLevels
  /\ LET level == (session - 1) * MaxLevels + pool.levels + 1 IN
     /\ pool' = [pool EXCEPT !.level = level, !.levels = @ + 1]
     /\ wire' = Append(wire, SetLevel(level))
  /\ UNCHANGED <<client, outbox, verdicts>>

(* One change of extranonce per session.                                     *)
PoolSetsExtranonce ==
  /\ pool.open
  /\ pool.subscribed
  /\ pool.xn = Xn("answer")
  /\ \E form \in XnForms :
       /\ pool' = [pool EXCEPT !.xn = Xn(form)]
       /\ wire' = Append(wire, SetExtranonce(Xn(form)))
  /\ UNCHANGED <<client, outbox, verdicts>>

PoolSendsNoise ==
  /\ pool.open
  /\ pool.subscribed
  /\ wire = <<>>
  /\ \E kind \in Noise : wire' = Append(wire, NoiseLine(kind))
  /\ UNCHANGED <<client, pool, outbox, verdicts>>

(* The pool closes; a reset loses the lines the miner has not read. *)
PoolCloses ==
  /\ pool.open
  /\ pool' = [pool EXCEPT !.open = FALSE]
  /\ wire' \in {wire, <<>>}
  /\ outbox' = <<>>
  /\ UNCHANGED <<client, verdicts>>

-------------------------------------------------------------------------------
Handshake ==
  \/ \E p \in Pools : Connect(p)
  \/ Subscribe
  \/ SubscribeLine
  \/ Authorize
  \/ AuthorizeNotification
  \/ AuthorizeResponse

Thread ==
  \/ Handshake
  \/ Recv
  \/ RecvFails
  \/ EmptyLine
  \/ Run
  \/ RunLoop
  \/ RunNotification
  \/ RunResponse
  \/ Disconnect

Pool ==
  \/ PoolAnswers
  \/ PoolNotifies
  \/ PoolSetsLevel
  \/ PoolSetsExtranonce
  \/ PoolSendsNoise
  \/ PoolCloses

Next == Thread \/ ConnectFails \/ Stop \/ MinerSubmits \/ Pool

Spec == Init /\ [][Next]_vars

(* The stratum thread is scheduled.  Nothing is assumed of the pool. *)
FairThread == Spec /\ WF_vars(Thread)
(* ... and the pool answers what it is asked, or closes. *)
FairSpec == FairThread /\ WF_vars(PoolAnswers)

-------------------------------------------------------------------------------
TypeOK ==
  /\ pc \in {"idle", "connected", "subscribing", "subscribed", "authorizing", "run", "loop",
             "running", "disconnect"}
  /\ session \in 0 .. MaxSessions
  /\ socket \in {0, session}
  /\ connected \in BOOLEAN
  /\ connected => socket = session /\ session # 0
  /\ running \in BOOLEAN
  /\ attempts \in 0 .. MaxAuthLines
  /\ extranonce1 \in Extranonces
  /\ difficulty \in Nat
  /\ poolTarget \in Nat
  /\ results \in [accepted : Nat, rejected : Nat]
  /\ verdicts \in [accepted : Nat, refused : Nat]
  /\ submitted \in 0 .. MaxShares
  /\ overtaken \subseteq {"subscribe", "authorize"}
  /\ delivered \in 0 .. MaxJobs
  /\ job.from \in 0 .. session

(* The lines on their way to the client, and which of them are jobs.         *)
Stream == recvBuffer \o wire
Pending == {i \in 1 .. Len(Stream) : Stream[i].kind = "notify"}

(* While the connection lasts no job is lost: subscribe() and authorize()    *)
(* read the stream too, and a job that arrives before the answer they wait   *)
(* for still reaches the job callback, in the order of the pool.             *)
NoJobLost ==
  connected /\ pool.open =>
    /\ {Stream[i].n : i \in Pending} = delivered + 1 .. pool.sent
    /\ \A i, j \in Pending : i < j => Stream[i].n < Stream[j].n

(* Every job handed to the job callback comes from the session that is open, *)
(* and follows the previous one of that session: nothing received on an      *)
(* earlier connection is replayed through m_recv_buffer.                     *)
JobsInOrder ==
  [][delivered' > delivered => job'.from = session /\ job'.n = delivered + 1]_vars

(* A job is hashed against the target the pool had announced when it sent    *)
(* the job (calculate_target uses whatever the client holds).                *)
JobsCarryTarget == job.level = job.poolLevel

(* While the connection lasts, a job of it is hashed with the extranonce its *)
(* pool had given when it sent the job (construct_header uses whatever the   *)
(* client holds, that of an earlier connection or the one before a change    *)
(* included).  What undoes this: a share sent ahead of mining.subscribe,     *)
(* whose answer subscribe() takes; an answer without extranonce1 in its      *)
(* first array when the client has one; a change the client cannot read.     *)
JobsCarryExtranonce ==
  /\ connected
  /\ job.from = session
  /\ "subscribe" \notin overtaken
  /\ pool.name \in ArrayPools \/ session = 1
  /\ job.poolXn.form # "positional"
  => job.xn = job.poolXn

(* "The first 4 bytes are the pool's extranonce1", whatever happens.         *)
JobsCarryPoolExtranonce == job.xn = job.poolXn

(* A share is submitted with the extranonce its nonce was hashed with: the   *)
(* layout of nonceSpace in submit_share and in mining_thread must agree.     *)
SharesMatchHash ==
  \A i \in 1 .. Len(outbox) : outbox[i].kind = "submit" => outbox[i].xn = outbox[i].job.xn

(* run() is entered only on a session whose authorization the pool has       *)
(* granted, or refused with result false and no error, which authorize()     *)
(* takes for success: it takes no line of an earlier session and no answer   *)
(* to another request for that answer, though it looks at no id, however the *)
(* handshakes before this one went.  What undoes this: a share sent ahead of *)
(* mining.authorize, or a share answered after an answer authorize() cannot  *)
(* read.                                                                     *)
RunsAuthorized ==
  pc \in {"run", "loop", "running"} /\ "authorize" \notin overtaken =>
    pool.verdict \in {"true", "false"} \/ (pool.verdict = "other" /\ submitted > 0)

(* authorize(): "@return true if authorized".                                *)
TrueIfAuthorized == pc \in {"run", "loop", "running"} => pool.verdict = "true"

(* The share callback is not called more often than pools have answered a    *)
(* share: each response a handshake takes for its own leaves one of its      *)
(* answers to be reported, never more, over any number of handshakes, given  *)
(* up, refused or cut off.                                                   *)
ReportsAnswers ==
  results.accepted + results.rejected <= verdicts.accepted + verdicts.refused

(* No more accepted, and no more rejected, shares are reported to the share  *)
(* callback than the pools have accepted and refused.                        *)
ReportsVerdicts ==
  results.accepted <= verdicts.accepted /\ results.rejected <= verdicts.refused

(* A handshake comes to an end: authorized, refused, or given up.            *)
HandshakeEnds ==
  pc \in {"subscribing", "authorizing"} ~> pc \notin {"subscribing", "authorizing"}
===============================================================================
