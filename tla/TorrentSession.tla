--------------------------- MODULE TorrentSession ---------------------------
(***************************************************************************)
(* The three torrent clients of internal/torrent, as the service uses      *)
(* them: several goroutines share one client, and with it the session that *)
(* the torrent program has given it: a cookie in the client's jar          *)
(* (qBittorrent), a session id (Transmission), or both a cookie and a      *)
(* token (uTorrent), which are written at two moments and read at two.     *)
(* The program may drop all its sessions, by a restart or an expiry.  A    *)
(* call is one request on behalf of one torrent or of all.                 *)
(*                                                                         *)
(* The programs are external: a request is done if and only if its answer  *)
(* is 200, which the clients suppose, the configured password is right,    *)
(* and uTorrent wants cookie and token of one session.                     *)
(***************************************************************************)
EXTENDS Naturals

CONSTANTS
  Callers,
  Loop,          \* the caller that is the pipeline loop
  MaxFaults      \* bound on dropped sessions, outages and lost messages

ASSUME SessionAssumption == Loop \in Callers /\ MaxFaults \in Nat

VARIABLES
  provider,      \* the configured client
  bypass,        \* qBittorrent without password: the program asks for none
  epoch,         \* sessions opened before this one are void
  last,          \* the last session the program has opened
  up,            \* whether the program answers
  faults,
  cookie,        \* the session of the cookie in the jar, 0 for none
  token,         \* the session of uTorrent's token, Transmission's session id
  loggedIn,      \* qBittorrent's flag
  at,            \* where each caller is
  wire,          \* its request or the answer to it
  sid,           \* the token or session id in that request or answer
  sent,          \* the cookie in that request
  applied,       \* how often the program did what the call asks
  disturbed,     \* the program or the network failed during the call
  outcome,       \* what the last call returned
  crossed        \* two handshakes have been under way at once (history only)

server == <<provider, bypass, epoch, last, up, faults>>
client == <<cookie, token, loggedIn>>
calls == <<at, wire, sid, sent, applied, disturbed, outcome, crossed>>
vars == <<server, client, calls>>

Providers == {"qbittorrent", "transmission", "utorrent"}

TypeOK ==
  /\ provider \in Providers
  /\ bypass \in BOOLEAN /\ (bypass => provider = "qbittorrent")
  /\ last \in Nat /\ epoch \in 1 .. last
  /\ cookie \in 0 .. last /\ token \in 0 .. last
  /\ up \in BOOLEAN /\ loggedIn \in BOOLEAN /\ crossed \in BOOLEAN
  /\ faults \in 0 .. MaxFaults
  /\ at \in [Callers -> {"idle", "start", "login", "body", "ready", "call",
                         "again"}]
  /\ wire \in [Callers -> {"none", "asked", "ok", "refused", "conflict",
                           "lost"}]
  /\ sid \in [Callers -> 0 .. last] /\ sent \in [Callers -> 0 .. last]
  /\ applied \in [Callers -> Nat]
  /\ disturbed \in [Callers -> BOOLEAN]
  /\ outcome \in [Callers -> {"none", "ok", "error"}]
  /\ \A c \in Callers : at[c] \in {"idle", "start", "ready"} <=> wire[c] = "none"

\* NewClient.  Transmission has its first session id, whoever asks.
Init ==
  /\ provider \in Providers
  /\ bypass \in BOOLEAN /\ (bypass => provider = "qbittorrent")
  /\ epoch = 1 /\ last = 1 /\ up = TRUE /\ faults = 0
  /\ cookie = 0 /\ token = 0 /\ loggedIn = FALSE /\ crossed = FALSE
  /\ at = [c \in Callers |-> "idle"]
  /\ wire = [c \in Callers |-> "none"]
  /\ sid = [c \in Callers |-> 0] /\ sent = [c \in Callers |-> 0]
  /\ applied = [c \in Callers |-> 0]
  /\ disturbed = [c \in Callers |-> FALSE]
  /\ outcome = [c \in Callers |-> "none"]

-----------------------------------------------------------------------------
(* A call of the client.                                                   *)

Begin(c) ==
  /\ at[c] = "idle"
  /\ at' = [at EXCEPT ![c] = "start"]
  /\ applied' = [applied EXCEPT ![c] = 0]
  /\ disturbed' = [disturbed EXCEPT ![c] = ~ up]
  /\ outcome' = [outcome EXCEPT ![c] = "none"]
  /\ UNCHANGED <<server, client, wire, sid, sent, crossed>>

\* The request leaves with this token and with the cookie of this moment.
Ask(c, place, session) ==
  /\ at' = [at EXCEPT ![c] = place]
  /\ wire' = [wire EXCEPT ![c] = "asked"]
  /\ sid' = [sid EXCEPT ![c] = session]
  /\ sent' = [sent EXCEPT ![c] = cookie]

\* The caller goes on without a request under way.
GoOn(c, place, session) ==
  /\ at' = [at EXCEPT ![c] = place]
  /\ wire' = [wire EXCEPT ![c] = "none"]
  /\ sid' = [sid EXCEPT ![c] = session]
  /\ sent' = [sent EXCEPT ![c] = 0]

End(c, result) ==
  /\ GoOn(c, "idle", 0)
  /\ outcome' = [outcome EXCEPT ![c] = result]
  /\ disturbed' = [disturbed EXCEPT ![c] = FALSE]

\* What ensureLogin and ensureToken look at.  Transmission has no login.
NeedsLogin ==
  \/ provider = "qbittorrent" /\ ~ loggedIn /\ ~ bypass
  \/ provider = "utorrent" /\ token = 0

ShakesHands(c) == at[c] \in {"login", "body"}

\* ensureLogin, ensureToken.  Several callers may log in at once.
Login(c) ==
  /\ at[c] = "start" /\ NeedsLogin
  /\ Ask(c, "login", 0)
  /\ crossed' = (crossed \/ \E d \in Callers \ {c} : ShakesHands(d))
  /\ UNCHANGED <<server, client, applied, disturbed, outcome>>

\* Do stores the cookie when the header of the answer is there.
CookieSet(c) ==
  /\ at[c] = "login" /\ wire[c] = "ok"
  /\ cookie' = sid[c]
  /\ at' = [at EXCEPT ![c] = "body"]
  /\ UNCHANGED <<server, token, loggedIn, wire, sid, sent, applied, disturbed,
                 outcome, crossed>>

\* Mutant: the flag is set whatever the answer to the login.
LoggedInAnyway(c) ==
  /\ \/ at[c] = "body" /\ wire[c] = "ok"
     \/ at[c] = "login" /\ wire[c] = "lost"
  /\ token' = IF provider = "utorrent" THEN sid[c] ELSE token
  /\ loggedIn' = (provider = "qbittorrent")
  /\ GoOn(c, "start", 0)
  /\ UNCHANGED <<server, cookie, applied, disturbed, outcome, crossed>>

\* Mutant: the answer to the login is taken for the answer to the call.
LoggedInIsDone(c) ==
  /\ at[c] = "body" /\ wire[c] = "ok"
  /\ token' = IF provider = "utorrent" THEN sid[c] ELSE token
  /\ loggedIn' = (provider = "qbittorrent")
  /\ at' = [at EXCEPT ![c] = "start"]
  /\ UNCHANGED <<server, cookie, wire, sid, sent, applied, disturbed, outcome,
                 crossed>>

\* uTorrent's body has been read to its end.  Token or flag is set under the
\* lock, then the call goes on.
LoggedIn(c) ==
  /\ at[c] = "body" /\ wire[c] = "ok"
  /\ token' = IF provider = "utorrent" THEN sid[c] ELSE token
  /\ loggedIn' = (provider = "qbittorrent")
  /\ GoOn(c, "start", 0)
  /\ UNCHANGED <<server, cookie, applied, disturbed, outcome, crossed>>

\* The token or session id is read under the lock.  qBittorrent's flag is
\* set at once without a password.
ReadToken(c) ==
  /\ at[c] = "start" /\ ~ NeedsLogin
  /\ loggedIn' = (provider = "qbittorrent")
  /\ GoOn(c, "ready", token)
  /\ UNCHANGED <<server, cookie, token, applied, disturbed, outcome, crossed>>

\* Do adds the cookie that the jar has by now.
Call(c) ==
  /\ at[c] = "ready"
  /\ Ask(c, "call", sid[c])
  /\ UNCHANGED <<server, client, applied, disturbed, outcome, crossed>>

\* Mutant: any answer will do.
SucceedAnswered(c) ==
  /\ at[c] \in {"call", "again"}
  /\ wire[c] \in {"ok", "refused"}
  /\ End(c, "ok")
  /\ UNCHANGED <<server, client, applied, crossed>>

Succeed(c) ==
  /\ at[c] \in {"call", "again"} /\ wire[c] = "ok"
  /\ End(c, "ok")
  /\ UNCHANGED <<server, client, applied, crossed>>

\* Mutant: a lost answer is retried too.
RetryLost(c) ==
  /\ at[c] = "call" /\ wire[c] \in {"conflict", "lost"}
  /\ token' = sid[c] /\ UNCHANGED <<cookie, loggedIn>>
  /\ Ask(c, "again", sid[c])
  /\ UNCHANGED <<server, applied, disturbed, outcome, crossed>>

\* Mutant: the retry carries the session id that was refused.
RetryOldSession(c) ==
  /\ at[c] = "call" /\ wire[c] = "conflict"
  /\ token' = sid[c] /\ UNCHANGED <<cookie, loggedIn>>
  /\ Ask(c, "again", token)
  /\ UNCHANGED <<server, applied, disturbed, outcome, crossed>>

\* Transmission's 409 brings the session id to use; one retry.
Retry(c) ==
  /\ at[c] = "call" /\ wire[c] = "conflict"
  /\ token' = sid[c] /\ UNCHANGED <<cookie, loggedIn>>
  /\ Ask(c, "again", sid[c])
  /\ UNCHANGED <<server, applied, disturbed, outcome, crossed>>

\* A refusal leaves cookie, flag and token as they are.
Fail(c) ==
  /\ \/ wire[c] \in {"lost", "refused"}
     \/ at[c] = "again" /\ wire[c] = "conflict"
  /\ End(c, "error")
  /\ UNCHANGED <<server, client, applied, crossed>>

-----------------------------------------------------------------------------
(* The torrent program and the network.                                    *)

Accepts(c) ==
  CASE provider = "qbittorrent"  -> bypass \/ sent[c] >= epoch
    [] provider = "transmission" -> sid[c] >= epoch
    [] provider = "utorrent"     -> sid[c] = sent[c] /\ sid[c] >= epoch

Answer(c, answer, session) ==
  /\ wire' = [wire EXCEPT ![c] = answer]
  /\ sid' = [sid EXCEPT ![c] = session]

\* A login opens a session, or goes on with the one its cookie names.
ServeLogin(c) ==
  \/ /\ last' = last + 1
     /\ Answer(c, "ok", last + 1)
  \/ /\ sent[c] >= epoch /\ UNCHANGED last
     /\ Answer(c, "ok", sent[c])

ServeCall(c) ==
  \/ /\ Accepts(c)
     /\ Answer(c, "ok", sid[c])
     /\ applied' = [applied EXCEPT ![c] = @ + 1]
  \/ /\ ~ Accepts(c)
     /\ IF provider = "transmission" THEN Answer(c, "conflict", epoch)
                                     ELSE Answer(c, "refused", sid[c])
     /\ UNCHANGED applied

Serve(c) ==
  /\ wire[c] = "asked" /\ up
  /\ \/ at[c] = "login" /\ ServeLogin(c) /\ UNCHANGED applied
     \/ at[c] # "login" /\ ServeCall(c) /\ UNCHANGED last
  /\ UNCHANGED <<provider, bypass, epoch, up, faults, client, at, sent,
                 disturbed, outcome, crossed>>

\* No connection: an error at once.
Unreachable(c) ==
  /\ wire[c] = "asked" /\ ~ up
  /\ Answer(c, "lost", sid[c])
  /\ UNCHANGED <<server, client, at, sent, applied, disturbed, outcome, crossed>>

Fault == faults < MaxFaults /\ faults' = faults + 1

\* A request or an answer is lost, or comes after the client's 10 s or the
\* caller's deadline.  qBittorrent's client does not read the login's body.
Lose(c) ==
  /\ wire[c] \notin {"none", "lost"} /\ Fault
  /\ at[c] = "body" => provider = "utorrent"
  /\ Answer(c, "lost", sid[c])
  /\ disturbed' = [disturbed EXCEPT ![c] = TRUE]
  /\ UNCHANGED <<provider, bypass, epoch, last, up, client, at, sent, applied,
                 outcome, crossed>>

\* net/http sends a GET again when a kept-alive connection breaks under it;
\* uTorrent's calls are GETs, those of the others that change something POSTs.
Resend(c) ==
  /\ provider = "utorrent" /\ at[c] = "call"
  /\ wire[c] \in {"asked", "ok", "refused"} /\ Fault
  /\ Answer(c, "asked", sid[c])
  /\ UNCHANGED <<provider, bypass, epoch, last, up, client, at, sent, applied,
                 disturbed, outcome, crossed>>

Disturbs == disturbed' = [c \in Callers |-> at[c] # "idle"]

DropSessions ==
  /\ Fault /\ last' = last + 1 /\ epoch' = last + 1
  /\ Disturbs
  /\ UNCHANGED <<provider, bypass, up, client, at, wire, sid, sent, applied,
                 outcome, crossed>>

GoDown ==
  /\ up /\ Fault /\ up' = FALSE
  /\ Disturbs
  /\ UNCHANGED <<provider, bypass, epoch, last, client, at, wire, sid, sent,
                 applied, outcome, crossed>>

ComeBack ==
  /\ ~ up /\ up' = TRUE
  /\ UNCHANGED <<provider, bypass, epoch, last, faults, client, calls>>

ClientStep(c) ==
  \/ Login(c) \/ CookieSet(c) \/ LoggedIn(c)
  \/ ReadToken(c) \/ Call(c)
  \/ Succeed(c) \/ Retry(c) \/ Fail(c)

Next ==
  \/ \E c \in Callers : \/ Begin(c) \/ ClientStep(c)
                        \/ Serve(c) \/ Unreachable(c) \/ Lose(c) \/ Resend(c)
  \/ DropSessions \/ GoDown \/ ComeBack

Spec == Init /\ [][Next]_vars

(* The loop calls again and again; a program that is up answers.           *)
LiveSpec ==
  /\ Spec
  /\ WF_vars(Begin(Loop)) /\ WF_vars(ClientStep(Loop))
  /\ WF_vars(Serve(Loop) \/ Unreachable(Loop))

-----------------------------------------------------------------------------
(* Success is reported only for a call that was done, whatever the other   *)
(* callers do to the session meanwhile (transmission.go:77, qbittorrent.go *)
(* List and its siblings, utorrent.go call).                               *)
OkMeansApplied == \A c \in Callers : outcome[c] = "ok" => applied[c] > 0

(* One call adds or pauses once: the retry follows a refusal, never a lost *)
(* answer (transmission.go:72-88).                                         *)
AppliedAtMostOnce ==
  provider # "utorrent" => \A c \in Callers : applied[c] <= 1

(* A call fails only if the program or the network failed meanwhile, if    *)
(* the session it used was dropped and the client is one of the two that   *)
(* do not renew it, or if it carried cookie and token of two uTorrent      *)
(* sessions.  Of these only the last comes from another caller, and only   *)
(* from two first handshakes under way at once: neither qBittorrent's nor  *)
(* Transmission's callers make each other's calls fail, and a uTorrent     *)
(* client whose handshakes come one after the other never mixes them       *)
(* (qbittorrent.go:51, utorrent.go:62 and 91, transmission.go:77).         *)
FailsForAReason ==
  [][\A c \in Callers :
       outcome[c] # "error" /\ outcome'[c] = "error" =>
         \/ disturbed[c]
         \/ provider = "qbittorrent" /\ ~ bypass /\ sent[c] < epoch
         \/ provider = "utorrent" /\ sid[c] < epoch
         \/ provider = "utorrent" /\ crossed /\ sid[c] # sent[c]]_vars

\* A client that needs no session to last.
SelfHealing == provider = "transmission" \/ bypass

\* The jar has the cookie of another uTorrent session than the token's.
Mixed == provider = "utorrent" /\ token # 0 /\ cookie # token

(* After outages, and for a self-healing client also after dropped         *)
(* sessions, the loop's calls succeed again; no lost login leaves the      *)
(* client believing that it has a session (qbittorrent.go:86).  uTorrent's *)
(* must not stay with the cookie of one handshake and the token of         *)
(* another, which nothing would renew (utorrent.go:62).                    *)
SessionRecovers ==
  <>[]up /\ (SelfHealing \/ ([](epoch = 1) /\ <>[]~ Mixed)) =>
    []<>(outcome[Loop] = "ok")
=============================================================================
