--------------------------- MODULE SessionProofs ---------------------------
(***************************************************************************)
(* For any number of callers of one client and any faults: what success    *)
(* and failure of a call mean.                                             *)
(***************************************************************************)
EXTENDS TorrentSession, TLAPS

(* A call that has been done is answered, or its answer is lost; a request *)
(* that is still to be served, or was refused, has done nothing.           *)
DoneOnce(c) ==
  /\ at[c] \in {"call", "again"} /\ wire[c] = "ok" => applied[c] > 0
  /\ outcome[c] # "none" => at[c] = "idle"
  /\ outcome[c] = "ok" => applied[c] > 0
  /\ provider # "utorrent" =>
       /\ applied[c] <= 1
       /\ at[c] # "idle" /\ wire[c] \in {"none", "asked", "refused", "conflict"}
            => applied[c] = 0
       /\ ShakesHands(c) => applied[c] = 0
  /\ at[c] = "body" => wire[c] \in {"ok", "lost"}

(* Why an answer is not the one hoped for.  A retry carries the session id *)
(* the program has just given, so only a drop in between refuses it.       *)
Reasons(c) ==
  /\ ~ up /\ at[c] # "idle" => disturbed[c]
  /\ wire[c] = "lost" => disturbed[c]
  /\ wire[c] = "refused" =>
       /\ at[c] = "call"
       /\ \/ provider = "qbittorrent" /\ ~ bypass /\ sent[c] < epoch
          \/ provider = "utorrent" /\ (sid[c] < epoch \/ sid[c] # sent[c])
  /\ at[c] = "again" => provider = "transmission"
  /\ wire[c] = "conflict" =>
       provider = "transmission" /\ at[c] \in {"call", "again"}
  /\ at[c] = "call" /\ wire[c] = "conflict" => sid[c] = epoch \/ disturbed[c]
  /\ at[c] = "again" /\ wire[c] = "asked" => sid[c] = epoch \/ disturbed[c]
  /\ at[c] = "again" /\ wire[c] = "conflict" => disturbed[c]

(* While no two of uTorrent's handshakes have been under way at once, the  *)
(* one that is under way ends with the cookie and the token it was given,  *)
(* and when there is a token nobody shakes hands any more.                 *)
Matching(c) ==
  /\ ShakesHands(c) => token = 0
  /\ at[c] = "body" /\ wire[c] = "ok" => sid[c] = cookie
  /\ at[c] = "ready" => token # 0 /\ sid[c] = token
  /\ at[c] = "call" => sid[c] = sent[c]

Uncrossed ==
  provider = "utorrent" /\ ~ crossed =>
    /\ ~ Mixed
    /\ \A c, d \in Callers : ShakesHands(c) /\ ShakesHands(d) => c = d
    /\ \A c \in Callers : Matching(c)

Inv ==
  /\ TypeOK
  /\ \A c \in Callers : DoneOnce(c) /\ Reasons(c)
  /\ Uncrossed

-----------------------------------------------------------------------------
LEMMA InitInv == Init => Inv
<1> SUFFICES ASSUME Init PROVE Inv
  OBVIOUS
<1>1. TypeOK
  <2>1. /\ last \in Nat /\ epoch \in 1 .. last
        /\ cookie \in 0 .. last /\ token \in 0 .. last
        /\ faults \in 0 .. MaxFaults
        /\ sid \in [Callers -> 0 .. last] /\ sent \in [Callers -> 0 .. last]
        /\ applied \in [Callers -> Nat]
    BY SessionAssumption DEF Init
  <2>2. /\ up \in BOOLEAN /\ loggedIn \in BOOLEAN /\ crossed \in BOOLEAN
        /\ disturbed \in [Callers -> BOOLEAN]
    BY DEF Init
  <2>3. /\ at \in [Callers -> {"idle", "start", "login", "body", "ready",
                               "call", "again"}]
        /\ wire \in [Callers -> {"none", "asked", "ok", "refused", "conflict",
                                  "lost"}]
        /\ outcome \in [Callers -> {"none", "ok", "error"}]
        /\ \A c \in Callers :
             at[c] \in {"idle", "start", "ready"} <=> wire[c] = "none"
    BY DEF Init
  <2>4. /\ provider \in Providers
        /\ bypass \in BOOLEAN /\ (bypass => provider = "qbittorrent")
    BY DEF Init
  <2> QED
    BY <2>1, <2>2, <2>3, <2>4 DEF TypeOK
<1>2. ASSUME NEW c \in Callers PROVE DoneOnce(c) /\ Reasons(c)
  BY <1>2 DEF Init, DoneOnce, Reasons, ShakesHands
<1>3. Uncrossed
  BY DEF Init, Uncrossed, Mixed, Matching, ShakesHands
<1> QED
  BY <1>1, <1>2, <1>3 DEF Inv

(* Every step keeps the types.                                             *)
LEMMA TypesKept ==
  ASSUME Inv, [Next]_vars
  PROVE  TypeOK'
<1> USE SessionAssumption DEF Inv, TypeOK
<1>1. ASSUME NEW c \in Callers, Begin(c)
      PROVE  TypeOK'
  BY <1>1 DEF Begin, server, client, calls
<1>2. ASSUME NEW c \in Callers, Login(c)
      PROVE  TypeOK'
  BY <1>2 DEF Login, Ask, NeedsLogin, server, client, calls
<1>3. ASSUME NEW c \in Callers, CookieSet(c)
      PROVE  TypeOK'
  BY <1>3 DEF CookieSet, server, client, calls
<1>4. ASSUME NEW c \in Callers, LoggedIn(c)
      PROVE  TypeOK'
  BY <1>4 DEF LoggedIn, GoOn, server, client, calls
<1>5. ASSUME NEW c \in Callers, ReadToken(c)
      PROVE  TypeOK'
  BY <1>5 DEF ReadToken, GoOn, NeedsLogin, server, client, calls
<1>6. ASSUME NEW c \in Callers, Call(c)
      PROVE  TypeOK'
  BY <1>6 DEF Call, Ask, server, client, calls
<1>7. ASSUME NEW c \in Callers, Succeed(c)
      PROVE  TypeOK'
  BY <1>7 DEF Succeed, End, GoOn, server, client, calls
<1>8. ASSUME NEW c \in Callers, Retry(c)
      PROVE  TypeOK'
  BY <1>8 DEF Retry, Ask, server, client, calls
<1>9. ASSUME NEW c \in Callers, Fail(c)
      PROVE  TypeOK'
  BY <1>9 DEF Fail, End, GoOn, server, client, calls
<1>10. ASSUME NEW c \in Callers, Serve(c)
      PROVE  TypeOK'
  <2>1. wire[c] = "asked" /\ at[c] \notin {"idle", "start", "ready"}
    BY <1>10 DEF Serve
  <2>2. CASE at[c] = "login" /\ ServeLogin(c) /\ UNCHANGED applied
    BY <1>10, <2>1, <2>2 DEF Serve, ServeLogin, Answer, client
  <2>3. CASE at[c] # "login" /\ ServeCall(c) /\ UNCHANGED last
    <3>1. applied' \in [Callers -> Nat]
      BY <2>3 DEF ServeCall
    <3>2. \E answer \in {"ok", "conflict", "refused"}, session \in 0 .. last :
            Answer(c, answer, session)
      BY <2>3 DEF ServeCall
    <3> QED
      BY <1>10, <2>1, <2>3, <3>1, <3>2 DEF Serve, Answer, client
  <2> QED
    BY <1>10, <2>2, <2>3 DEF Serve
<1>11. ASSUME NEW c \in Callers, Unreachable(c)
      PROVE  TypeOK'
  BY <1>11 DEF Unreachable, Answer, server, client, calls
<1>12. ASSUME NEW c \in Callers, Lose(c)
      PROVE  TypeOK'
  BY <1>12 DEF Lose, Answer, Fault, server, client, calls
<1>13. ASSUME NEW c \in Callers, Resend(c)
      PROVE  TypeOK'
  BY <1>13 DEF Resend, Answer, Fault, server, client, calls
<1>14. CASE DropSessions
  BY <1>14 DEF DropSessions, Fault, Disturbs, server, client, calls
<1>15. CASE GoDown
  <2>1. disturbed' \in [Callers -> BOOLEAN]
    BY <1>15 DEF GoDown, Disturbs
  <2>2. Fault /\ up' \in BOOLEAN
    BY <1>15, Zenon DEF GoDown
  <2>3. faults' \in 0 .. MaxFaults
    BY <2>2 DEF Fault
  <2>4. UNCHANGED <<provider, bypass, epoch, last, cookie, token, loggedIn, at,
                    wire, sid, sent, applied, outcome, crossed>>
    BY <1>15 DEF GoDown, client
  <2> QED
    BY <2>1, <2>2, <2>3, <2>4, Zenon
<1>16. CASE ComeBack
  BY <1>16 DEF ComeBack, server, client, calls
<1>17. CASE UNCHANGED vars
  BY <1>17 DEF vars, server, client, calls
<1> QED
  BY <1>1, <1>2, <1>3, <1>4, <1>5, <1>6, <1>7, <1>8, <1>9,
     <1>10, <1>11, <1>12, <1>13, <1>14, <1>15, <1>16, <1>17
     DEF Next, ClientStep

(* Every step keeps DoneOnce, for every caller.                            *)
LEMMA DoneOnceKept ==
  ASSUME Inv, [Next]_vars, NEW d \in Callers
  PROVE  DoneOnce(d)'
<1> USE DEF Inv, TypeOK, DoneOnce, ShakesHands
<1>1. ASSUME NEW c \in Callers, Begin(c)
      PROVE  DoneOnce(d)'
  BY <1>1 DEF Begin, server, client, calls
<1>2. ASSUME NEW c \in Callers, Login(c)
      PROVE  DoneOnce(d)'
  BY <1>2 DEF Login, Ask, NeedsLogin, server, client, calls
<1>3. ASSUME NEW c \in Callers, CookieSet(c)
      PROVE  DoneOnce(d)'
  BY <1>3 DEF CookieSet, server, client, calls
<1>4. ASSUME NEW c \in Callers, LoggedIn(c)
      PROVE  DoneOnce(d)'
  BY <1>4 DEF LoggedIn, GoOn, server, client, calls
<1>5. ASSUME NEW c \in Callers, ReadToken(c)
      PROVE  DoneOnce(d)'
  BY <1>5 DEF ReadToken, GoOn, NeedsLogin, server, client, calls
<1>6. ASSUME NEW c \in Callers, Call(c)
      PROVE  DoneOnce(d)'
  BY <1>6 DEF Call, Ask, server, client, calls
<1>7. ASSUME NEW c \in Callers, Succeed(c)
      PROVE  DoneOnce(d)'
  BY <1>7 DEF Succeed, End, GoOn, server, client, calls
<1>8. ASSUME NEW c \in Callers, Retry(c)
      PROVE  DoneOnce(d)'
  BY <1>8 DEF Retry, Ask, server, client, calls
<1>9. ASSUME NEW c \in Callers, Fail(c)
      PROVE  DoneOnce(d)'
  BY <1>9 DEF Fail, End, GoOn, server, client, calls
<1>10. ASSUME NEW c \in Callers, Serve(c)
      PROVE  DoneOnce(d)'
  <2>1. wire[c] = "asked" /\ UNCHANGED <<provider, at, outcome>>
    BY <1>10 DEF Serve
  <2>2. CASE d # c
    <3>1. wire'[d] = wire[d] /\ applied'[d] = applied[d]
      BY <1>10, <2>2 DEF Serve, ServeLogin, ServeCall, Answer
    <3> QED
      BY <2>1, <3>1
  <2>3. CASE d = c /\ at[c] = "login"
    <3>1. wire'[c] = "ok" /\ UNCHANGED applied
      BY <1>10, <2>3 DEF Serve, ServeLogin, Answer
    <3> QED
      BY <2>1, <2>3, <3>1
  <2>4. CASE d = c /\ at[c] # "login"
    <3>1. \/ wire'[c] = "ok" /\ applied'[c] = applied[c] + 1
          \/ wire'[c] \in {"conflict", "refused"} /\ UNCHANGED applied
      BY <1>10, <2>4 DEF Serve, ServeCall, Answer
    <3> QED
      BY <2>1, <2>4, <3>1
  <2> QED
    BY <2>2, <2>3, <2>4
<1>11. ASSUME NEW c \in Callers, Unreachable(c)
      PROVE  DoneOnce(d)'
  BY <1>11 DEF Unreachable, Answer, server, client, calls
<1>12. ASSUME NEW c \in Callers, Lose(c)
      PROVE  DoneOnce(d)'
  BY <1>12 DEF Lose, Answer, Fault, server, client, calls
<1>13. ASSUME NEW c \in Callers, Resend(c)
      PROVE  DoneOnce(d)'
  BY <1>13 DEF Resend, Answer, Fault, server, client, calls
<1>14. CASE DropSessions
  BY <1>14 DEF DropSessions, Fault, Disturbs, server, client, calls
<1>15. CASE GoDown
  BY <1>15 DEF GoDown, Fault, Disturbs, server, client, calls
<1>16. CASE ComeBack
  BY <1>16 DEF ComeBack, server, client, calls
<1>17. CASE UNCHANGED vars
  BY <1>17 DEF vars, server, client, calls
<1> QED
  BY <1>1, <1>2, <1>3, <1>4, <1>5, <1>6, <1>7, <1>8, <1>9,
     <1>10, <1>11, <1>12, <1>13, <1>14, <1>15, <1>16, <1>17
     DEF Next, ClientStep

(* Every step keeps Reasons, for every caller.                             *)
LEMMA ReasonsKept ==
  ASSUME Inv, TypeOK', [Next]_vars, NEW d \in Callers
  PROVE  Reasons(d)'
<1> USE DEF Inv, TypeOK, Reasons
<1>1. ASSUME NEW c \in Callers, Begin(c)
      PROVE  Reasons(d)'
  <2>1. CASE d = c
    <3>1. ~ up => disturbed'[d]
      <4>1. disturbed' = [disturbed EXCEPT ![d] = ~ up] /\ d \in DOMAIN disturbed
        BY <1>1, <2>1 DEF Begin
      <4> QED  BY ONLY <4>1
    <3>2. wire'[d] = "none" /\ at'[d] = "start"
      BY <1>1, <2>1 DEF Begin
    <3> QED
      BY <1>1, <3>1, <3>2 DEF Begin, server
  <2>2. CASE d # c
    <3>1. /\ at'[d] = at[d] /\ wire'[d] = wire[d] /\ sid'[d] = sid[d]
          /\ sent'[d] = sent[d] /\ disturbed'[d] = disturbed[d]
      BY <1>1, <2>2 DEF Begin
    <3> QED
      BY <1>1, <3>1 DEF Begin, server
  <2> QED
    BY <2>1, <2>2
<1>2. ASSUME NEW c \in Callers, Login(c)
      PROVE  Reasons(d)'
  BY <1>2 DEF Login, Ask, NeedsLogin, server, client, calls
<1>3. ASSUME NEW c \in Callers, CookieSet(c)
      PROVE  Reasons(d)'
  BY <1>3 DEF CookieSet, server, client, calls
<1>4. ASSUME NEW c \in Callers, LoggedIn(c)
      PROVE  Reasons(d)'
  BY <1>4 DEF LoggedIn, GoOn, server, client, calls
<1>5. ASSUME NEW c \in Callers, ReadToken(c)
      PROVE  Reasons(d)'
  BY <1>5 DEF ReadToken, GoOn, NeedsLogin, server, client, calls
<1>6. ASSUME NEW c \in Callers, Call(c)
      PROVE  Reasons(d)'
  BY <1>6 DEF Call, Ask, server, client, calls
<1>7. ASSUME NEW c \in Callers, Succeed(c)
      PROVE  Reasons(d)'
  BY <1>7 DEF Succeed, End, GoOn, server, client, calls
<1>8. ASSUME NEW c \in Callers, Retry(c)
      PROVE  Reasons(d)'
  BY <1>8 DEF Retry, Ask, server, client, calls
<1>9. ASSUME NEW c \in Callers, Fail(c)
      PROVE  Reasons(d)'
  BY <1>9 DEF Fail, End, GoOn, server, client, calls
<1>10. ASSUME NEW c \in Callers, Serve(c)
      PROVE  Reasons(d)'
  <2>1. /\ wire[c] = "asked"
        /\ UNCHANGED <<provider, bypass, epoch, up, at, sent, disturbed>>
    BY <1>10 DEF Serve
  <2>2. CASE d # c
    <3>1. wire'[d] = wire[d] /\ sid'[d] = sid[d]
      BY <1>10, <2>2 DEF Serve, ServeLogin, ServeCall, Answer
    <3> QED
      BY <2>1, <3>1
  <2>3. CASE d = c /\ at[c] = "login"
    <3>1. wire'[c] = "ok"
      BY <1>10, <2>3 DEF Serve, ServeLogin, Answer
    <3> QED
      BY <2>1, <2>3, <3>1
  <2>4. CASE d = c /\ at[c] # "login"
    <3>1. CASE Accepts(c) /\ Answer(c, "ok", sid[c])
      BY <2>1, <2>4, <3>1 DEF Answer
    <3>2. CASE ~ Accepts(c) /\ provider = "transmission"
      <4>1. wire'[c] = "conflict" /\ sid'[c] = epoch
        BY <1>10, <2>4, <3>2 DEF Serve, ServeCall, Answer
      <4>2. at[c] = "again" => disturbed[c]
        BY <2>1, <3>2 DEF Accepts
      <4>3. at[c] \in {"call", "again"}
        BY <2>1, <2>4 DEF DoneOnce
      <4> QED
        BY <2>1, <2>4, <3>2, <4>1, <4>2, <4>3
    <3>3. CASE ~ Accepts(c) /\ provider # "transmission"
      <4>1. wire'[c] = "refused" /\ sid'[c] = sid[c]
        BY <1>10, <2>4, <3>3 DEF Serve, ServeCall, Answer
      <4>2. at[c] = "call"
        BY <2>1, <2>4, <3>3 DEF DoneOnce
      <4>3. \/ provider = "qbittorrent" /\ ~ bypass /\ sent[c] < epoch
            \/ provider = "utorrent" /\ (sid[c] < epoch \/ sid[c] # sent[c])
        <5>1. sent[c] \in Nat /\ sid[c] \in Nat /\ epoch \in Nat
          OBVIOUS
        <5>2. CASE provider = "qbittorrent"
          BY <3>3, <5>1, <5>2 DEF Accepts
        <5>3. CASE provider = "utorrent"
          BY <3>3, <5>1, <5>3 DEF Accepts
        <5> QED
          BY <3>3, <5>2, <5>3 DEF Providers
      <4> QED
        BY <2>1, <2>4, <4>1, <4>2, <4>3
    <3> QED
      BY <1>10, <2>4, <3>1, <3>2, <3>3 DEF Serve, ServeCall
  <2> QED
    BY <2>2, <2>3, <2>4
<1>11. ASSUME NEW c \in Callers, Unreachable(c)
      PROVE  Reasons(d)'
  BY <1>11 DEF Unreachable, Answer, server, client, calls
<1>12. ASSUME NEW c \in Callers, Lose(c)
      PROVE  Reasons(d)'
  BY <1>12 DEF Lose, Answer, Fault, server, client, calls
<1>13. ASSUME NEW c \in Callers, Resend(c)
      PROVE  Reasons(d)'
  BY <1>13 DEF Resend, Answer, Fault, server, client, calls
<1>14. CASE DropSessions
  BY <1>14 DEF DropSessions, Fault, Disturbs, server, client, calls
<1>15. CASE GoDown
  BY <1>15 DEF GoDown, Fault, Disturbs, server, client, calls
<1>16. CASE ComeBack
  BY <1>16 DEF ComeBack, server, client, calls
<1>17. CASE UNCHANGED vars
  BY <1>17 DEF vars, server, client, calls
<1> QED
  BY <1>1, <1>2, <1>3, <1>4, <1>5, <1>6, <1>7, <1>8, <1>9,
     <1>10, <1>11, <1>12, <1>13, <1>14, <1>15, <1>16, <1>17
     DEF Next, ClientStep

(* Every step keeps cookies and tokens matched until two handshakes cross. *)
LEMMA UncrossedKept ==
  ASSUME Inv, TypeOK', [Next]_vars
  PROVE  Uncrossed'
<1> USE DEF Inv, TypeOK, Uncrossed, Mixed, Matching, ShakesHands
<1>1. ASSUME NEW c \in Callers, Begin(c)
      PROVE  Uncrossed'
  BY <1>1 DEF Begin, server, client, calls
<1>2. ASSUME NEW c \in Callers, Login(c)
      PROVE  Uncrossed'
  <2> SUFFICES ASSUME provider = "utorrent", ~ crossed'
               PROVE  Uncrossed'
    BY <1>2 DEF Login, server
  <2>1. ~ crossed /\ \A d \in Callers \ {c} : ~ ShakesHands(d)
    BY <1>2 DEF Login
  <2>2. token = 0 /\ UNCHANGED <<provider, token, cookie>>
    BY <1>2 DEF Login, NeedsLogin, client, server
  <2>3. at' = [at EXCEPT ![c] = "login"]
    BY <1>2 DEF Login, Ask
  <2>4. ASSUME NEW d \in Callers \ {c}
        PROVE  wire'[d] = wire[d] /\ sid'[d] = sid[d] /\ sent'[d] = sent[d]
    BY <1>2 DEF Login, Ask
  <2>5. ASSUME NEW d \in Callers PROVE Matching(d)'
    BY <2>1, <2>2, <2>3, <2>4
  <2>6. /\ ~ Mixed'
        /\ \A d, e \in Callers : ShakesHands(d)' /\ ShakesHands(e)' => d = e
    BY <2>1, <2>2, <2>3
  <2> QED
    BY <2>5, <2>6
<1>3. ASSUME NEW c \in Callers, CookieSet(c)
      PROVE  Uncrossed'
  BY <1>3 DEF CookieSet, server, client, calls
<1>4. ASSUME NEW c \in Callers, LoggedIn(c)
      PROVE  Uncrossed'
  BY <1>4 DEF LoggedIn, GoOn, server, client, calls
<1>5. ASSUME NEW c \in Callers, ReadToken(c)
      PROVE  Uncrossed'
  BY <1>5 DEF ReadToken, GoOn, NeedsLogin, server, client, calls
<1>6. ASSUME NEW c \in Callers, Call(c)
      PROVE  Uncrossed'
  BY <1>6 DEF Call, Ask, server, client, calls
<1>7. ASSUME NEW c \in Callers, Succeed(c)
      PROVE  Uncrossed'
  BY <1>7 DEF Succeed, End, GoOn, server, client, calls
<1>8. ASSUME NEW c \in Callers, Retry(c)
      PROVE  Uncrossed'
  BY <1>8 DEF Retry, Ask, Reasons, server, client, calls
<1>9. ASSUME NEW c \in Callers, Fail(c)
      PROVE  Uncrossed'
  BY <1>9 DEF Fail, End, GoOn, server, client, calls
<1>10. ASSUME NEW c \in Callers, Serve(c)
      PROVE  Uncrossed'
  <2> SUFFICES ASSUME provider = "utorrent", ~ crossed
               PROVE  Uncrossed'
    BY <1>10 DEF Serve
  <2>1. wire[c] = "asked" /\ UNCHANGED <<provider, client, at, sent, crossed>>
    BY <1>10 DEF Serve
  <2>2. at[c] # "body"
    BY <2>1 DEF DoneOnce
  <2>3. at[c] = "call" => sid'[c] = sid[c]
    BY <1>10 DEF Serve, ServeCall, Answer
  <2>4. \A d \in Callers \ {c} : wire'[d] = wire[d] /\ sid'[d] = sid[d]
    BY <1>10 DEF Serve, ServeLogin, ServeCall, Answer
  <2>5. at[c] \notin {"body", "ready"}
    BY <2>1, <2>2
  <2>6. ASSUME NEW d \in Callers PROVE Matching(d)'
    BY <2>1, <2>3, <2>4, <2>5 DEF client
  <2> QED
    BY <2>1, <2>6 DEF client
<1>11. ASSUME NEW c \in Callers, Unreachable(c)
      PROVE  Uncrossed'
  BY <1>11 DEF Unreachable, Answer, server, client, calls
<1>12. ASSUME NEW c \in Callers, Lose(c)
      PROVE  Uncrossed'
  BY <1>12 DEF Lose, Answer, Fault, server, client, calls
<1>13. ASSUME NEW c \in Callers, Resend(c)
      PROVE  Uncrossed'
  BY <1>13 DEF Resend, Answer, Fault, server, client, calls
<1>14. CASE DropSessions
  BY <1>14 DEF DropSessions, Fault, Disturbs, server, client, calls
<1>15. CASE GoDown
  BY <1>15 DEF GoDown, Fault, Disturbs, server, client, calls
<1>16. CASE ComeBack
  BY <1>16 DEF ComeBack, server, client, calls
<1>17. CASE UNCHANGED vars
  BY <1>17 DEF vars, server, client, calls
<1> QED
  BY <1>1, <1>2, <1>3, <1>4, <1>5, <1>6, <1>7, <1>8, <1>9,
     <1>10, <1>11, <1>12, <1>13, <1>14, <1>15, <1>16, <1>17
     DEF Next, ClientStep

THEOREM Inductive == Spec => []Inv
<1>1. Inv /\ [Next]_vars => Inv'
  BY TypesKept, DoneOnceKept, ReasonsKept, UncrossedKept DEF Inv
<1> QED
  BY InitInv, <1>1, PTL DEF Spec

(* Whatever other callers do to the session, success means done.           *)
THEOREM SuccessIsDone == Spec => []OkMeansApplied
<1>1. Inv => OkMeansApplied
  BY DEF Inv, OkMeansApplied, DoneOnce
<1> QED
  BY Inductive, <1>1, PTL

(* A POST is never repeated after it was done.                             *)
THEOREM NothingTwice == Spec => []AppliedAtMostOnce
<1>1. Inv => AppliedAtMostOnce
  BY DEF Inv, AppliedAtMostOnce, DoneOnce
<1> QED
  BY Inductive, <1>1, PTL

(* The types, for any callers and bounds.                                  *)
THEOREM SessionTypes == Spec => []TypeOK
BY Inductive, PTL DEF Inv

(* Only Fail reports an error, and Reasons holds of the answer it saw.     *)
THEOREM FailureHasReason == Spec => FailsForAReason
<1> DEFINE Reasoned ==
      \A c \in Callers :
        outcome[c] # "error" /\ outcome'[c] = "error" =>
          \/ disturbed[c]
          \/ provider = "qbittorrent" /\ ~ bypass /\ sent[c] < epoch
          \/ provider = "utorrent" /\ sid[c] < epoch
          \/ provider = "utorrent" /\ crossed /\ sid[c] # sent[c]
<1>1. Inv /\ [Next]_vars => Reasoned
  <2> SUFFICES ASSUME Inv, [Next]_vars, NEW c \in Callers,
                      outcome[c] # "error", outcome'[c] = "error"
               PROVE  \/ disturbed[c]
                      \/ provider = "qbittorrent" /\ ~ bypass /\ sent[c] < epoch
                      \/ provider = "utorrent" /\ sid[c] < epoch
                      \/ provider = "utorrent" /\ crossed /\ sid[c] # sent[c]
    OBVIOUS
  <2>1. Fail(c)
    <3> USE DEF Inv, TypeOK
    <3> QED
      BY DEF Next, ClientStep, Begin, Login, CookieSet, LoggedIn, ReadToken,
             Call, Succeed, Retry, Fail, Serve, Unreachable, Lose, Resend,
             DropSessions, GoDown, ComeBack, GoOn, End, vars, calls
  <2>2. Reasons(c) /\ wire[c] \in {"lost", "refused", "conflict"}
    BY <2>1 DEF Fail, Inv
  <2>3. CASE wire[c] = "refused" /\ provider = "utorrent" /\ sid[c] # sent[c]
    BY <2>2, <2>3 DEF Inv, Uncrossed, Matching, Reasons
  <2> QED
    BY <2>1, <2>2, <2>3 DEF Fail, Reasons
<1> QED
  BY Inductive, <1>1, PTL DEF Spec, FailsForAReason
=============================================================================
