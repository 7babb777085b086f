------------------------------- MODULE Access -------------------------------
(***************************************************************************)
(* Who is let in: the curator's session, and the limiter of the endpoints. *)
(*                                                                         *)
(* The session.  Signing in goes through the organisation's access         *)
(* service and comes back with a session cookie, signed and stamped with   *)
(* its time; signing in again while it holds renews it.  A page may also   *)
(* post a passcode.  The desk of an open page asks whether it is signed    *)
(* in, locks itself by having the cookie cleared, and calls the curator's  *)
(* endpoints, which check the cookie themselves.  Operators revoke         *)
(* sessions by raising the epoch or dropping a secret.                     *)
(*                                                                         *)
(* Time passes in days.  Signatures are taken to be unforgeable.           *)
(*                                                                         *)
(* The limiter of the public and the curator's endpoints: one table of     *)
(* buckets per process, a bucket counting a caller's requests from its     *)
(* first one on for the length of a window, and pruned, once over, when    *)
(* the table is past its size.                                             *)
(***************************************************************************)
EXTENDS Integers, FiniteSets, Sequences

CONSTANTS
  Life,          \* days a cookie is good for, 7 in the code
  MaxDays,       \* bound: days
  MaxCalls,      \* bound: calls of the page
  MaxSignIns,    \* bound: sign-ins and renewals
  MaxRevocations \* bound: epochs raised

VARIABLES
  now,
  epoch,       \* CURATOR_SESSION_EPOCH: cookies of before do not count
  secrets,     \* CURATOR_SESSION_SECRET, the newest signs
  jar,         \* the session cookie, shared by the browser's pages
  nav,         \* a sign-in under way: [step, cookie, renews]
  shown,       \* the page takes itself for signed in
  calls,       \* calls of the page under way: [n, endpoint, cookie, whole, locked, step, answer]
  asked, signIns, revocations,
  locked       \* history: the desk was locked, and nobody signed in since

accessVars == <<now, epoch, secrets, jar, nav, shown, calls, asked, signIns,
                revocations, locked>>

-----------------------------------------------------------------------------
(* The endpoints: whether one writes, whether it reads the body before it  *)
(* looks who is asking, and what it then answers a stranger.               *)
Endpoint(name, writes, bodyFirst, stranger) ==
  [name |-> name, writes |-> writes, bodyFirst |-> bodyFirst, stranger |-> stranger]

Session             == Endpoint("session", FALSE, FALSE, "ok")
Locking             == Endpoint("lock", FALSE, FALSE, "ok")
Passcode            == Endpoint("passcode", FALSE, TRUE, "unauthorized")
PasscodeOfTheDay    == Endpoint("passcode of the day", FALSE, TRUE, "unauthorized")
Overrides           == Endpoint("overrides", FALSE, FALSE, "failed")
SaveOverride        == Endpoint("save override", TRUE, TRUE, "unauthorized")
DeleteOverride      == Endpoint("delete override", TRUE, FALSE, "unauthorized")
PublishStories      == Endpoint("publish", TRUE, TRUE, "unauthorized")
RollBack            == Endpoint("rollback", TRUE, TRUE, "unauthorized")
IngestStory         == Endpoint("ingest", TRUE, FALSE, "unauthorized")
PurgeCache          == Endpoint("purge", TRUE, FALSE, "unauthorized")
ListPatterns        == Endpoint("patterns", FALSE, FALSE, "unauthorized")
ReviewPattern       == Endpoint("review pattern", TRUE, TRUE, "unauthorized")
ListCandidates      == Endpoint("candidates", FALSE, FALSE, "unauthorized")
ReviewCandidate     == Endpoint("review candidate", TRUE, TRUE, "unauthorized")
KnowledgeBase       == Endpoint("knowledge base", FALSE, FALSE, "unauthorized")
TopicQueue          == Endpoint("topic queue", FALSE, FALSE, "unauthorized")
GovernTopic         == Endpoint("govern topic", TRUE, FALSE, "unauthorized")

(* Those of one kind behave alike: one of each is called.                  *)
DeskEndpoint == {SaveOverride, DeleteOverride, ListPatterns}
AllEndpoints == DeskEndpoint \cup {Overrides, PublishStories, RollBack, IngestStory, PurgeCache,
  ReviewPattern, ListCandidates, ReviewCandidate, KnowledgeBase, TopicQueue, GovernTopic}
(* What the configurations keep to. *)
AccessAssumption ==
  /\ Life \in Nat \ {0} /\ MaxCalls \in Nat
  /\ \A e \in AllEndpoints : \E d \in DeskEndpoint :
       d.writes = e.writes /\ d.bodyFirst = e.bodyFirst

-----------------------------------------------------------------------------
(* A cookie has its time, the secret it was signed with, whether the       *)
(* browser keeps it for hours only, and, as history, how many revocations  *)
(* the sign-in it goes back to had seen.                                   *)
NoCookie == [at |-> -1, secret |-> 0, brief |-> FALSE, began |-> 0]
NoNav == [step |-> "none", cookie |-> NoCookie, renews |-> FALSE]
Newest(ss) == CHOOSE s \in ss : \A x \in ss : x <= s

AccessInit ==
  /\ now = 0 /\ epoch = 0 /\ secrets = {1}
  /\ jar = NoCookie /\ nav = NoNav /\ shown = FALSE
  /\ calls = {} /\ asked = 0 /\ signIns = 0 /\ revocations = 0 /\ locked = FALSE

(* A signature is matched by the secret that made it, and by no other.     *)
Signed(c) == c.secret \in secrets

(* Mutant: the epoch is looked at no more.                                 *)
GoodUnrevoked(c) == c # NoCookie /\ now - c.at <= Life /\ Signed(c)
Good(c) == c # NoCookie /\ now - c.at <= Life /\ c.at >= epoch /\ Signed(c)

(* The access service's word: a token, in a header or a cookie, whose      *)
(* signature a key fetched at once confirms.  One that is malformed or     *)
(* expired, or whose key cannot be had, counts as none.                    *)
Vouched == BOOLEAN

(* That word first, then the cookie.                                       *)
Verdicts(c) ==
  {IF v THEN "member" ELSE IF Good(c) THEN "cookie" ELSE "none" : v \in Vouched}

Desk == <<shown, calls, asked, locked>>
Operators == <<epoch, secrets, revocations>>

(* The browser drops a cookie at the end of its age.                       *)
Day ==
  /\ now < MaxDays /\ now' = now + 1
  /\ jar' = IF jar.brief \/ now' - jar.at >= Life THEN NoCookie ELSE jar
  /\ UNCHANGED <<Operators, nav, Desk, signIns>>

(* The epoch is set to a time after every cookie yet issued.               *)
RaiseEpoch ==
  /\ revocations < MaxRevocations /\ revocations' = revocations + 1
  /\ now < MaxDays /\ now' = now + 1 /\ epoch' = now'
  /\ UNCHANGED <<secrets, jar, nav, Desk, signIns>>

(* A new secret, with the one before it still accepted for a while.        *)
Rotate ==
  /\ Cardinality(secrets) = 1 /\ Newest(secrets) = 1
  /\ secrets' = secrets \cup {Newest(secrets) + 1}
  /\ UNCHANGED <<now, epoch, revocations, jar, nav, Desk, signIns>>

DropSecret ==
  /\ Cardinality(secrets) = 2 /\ secrets' = {Newest(secrets)}
  /\ UNCHANGED <<now, epoch, revocations, jar, nav, Desk, signIns>>

-----------------------------------------------------------------------------
(* The sign-in link, in a page of the browser.                             *)
SignIn ==
  /\ nav = NoNav /\ signIns < MaxSignIns /\ signIns' = signIns + 1
  /\ nav' = [step |-> "sent", cookie |-> jar, renews |-> FALSE]
  /\ UNCHANGED <<now, Operators, jar, Desk>>

(* Whoever is let in is given a cookie of now.  One let in by the cookie   *)
(* alone goes on with the session it had.                                  *)
Minted(verdict, c) ==
  IF verdict = "none" THEN NoCookie
  ELSE [at |-> now, secret |-> Newest(secrets), brief |-> FALSE,
        began |-> IF verdict = "member" THEN revocations ELSE c.began]

Redirect ==
  /\ nav.step = "sent"
  /\ \E v \in Verdicts(nav.cookie) :
       nav' = [step |-> "minted", cookie |-> Minted(v, nav.cookie), renews |-> v = "cookie"]
  /\ UNCHANGED <<now, Operators, jar, Desk, signIns>>

SignedIn ==
  /\ nav.step = "minted"
  /\ jar' = IF nav.cookie = NoCookie THEN jar ELSE nav.cookie
  /\ locked' = (locked /\ nav.cookie = NoCookie)
  /\ nav' = NoNav
  /\ UNCHANGED <<now, Operators, shown, calls, asked, signIns>>

-----------------------------------------------------------------------------
Free == CHOOSE n \in 1..MaxCalls : \A c \in calls : c.n # n
Send(e, whole) ==
  /\ asked < MaxCalls /\ asked' = asked + 1
  /\ calls' = calls \cup {[n |-> Free, endpoint |-> e, cookie |-> jar, whole |-> whole,
                           locked |-> locked, step |-> "sent", answer |-> "none"]}

(* checkSession, as the page loads and whenever the desk is opened.        *)
CheckSession ==
  /\ Send(Session, TRUE)
  /\ UNCHANGED <<now, Operators, jar, nav, shown, locked, signIns>>

(* logout: the page forgets at once, the cookie when the call is answered. *)
Lock ==
  /\ shown /\ shown' = FALSE
  /\ Send(Locking, TRUE)
  /\ UNCHANGED <<now, Operators, jar, nav, locked, signIns>>

Act(e, whole) ==
  /\ shown /\ (e.bodyFirst \/ whole) /\ Send(e, whole)
  /\ UNCHANGED <<now, Operators, jar, nav, shown, locked, signIns>>

(* login.  The call is counted as a sign-in; whole: the passcode is right. *)
LogIn(e, right) ==
  /\ signIns < MaxSignIns /\ signIns' = signIns + 1
  /\ Send(e, right)
  /\ UNCHANGED <<now, Operators, jar, nav, shown, locked>>

(* Its hash, compared in constant time, is the one configured.             *)
RightPasscode(c) == c.whole

(* The right passcode, unless the caller has tried too often in a minute,  *)
(* opens a session of its own; a stay of hours is the browser's to end.    *)
Opened(c) ==
  LET cookie == [at |-> now, secret |-> Newest(secrets),
                 brief |-> c.endpoint = PasscodeOfTheDay, began |-> revocations]
  IN {NoCookie} \cup (IF RightPasscode(c) THEN {cookie} ELSE {})

CheckPasscode(c) ==
  /\ c.step = "sent" /\ c.endpoint \in {Passcode, PasscodeOfTheDay}
  /\ \E cookie \in Opened(c) :
       calls' = (calls \ {c}) \cup {[c EXCEPT !.step = "served", !.cookie = cookie, !.locked = FALSE,
                                  !.answer = IF cookie = NoCookie THEN "none" ELSE "member"]}
  /\ UNCHANGED <<now, Operators, jar, nav, shown, asked, locked, signIns>>

(* The cookie comes with the answer; the page takes itself for signed in   *)
(* and, where it is refused, for what it was.                              *)
LoggedIn(c) ==
  /\ c.step = "served" /\ c.endpoint \in {Passcode, PasscodeOfTheDay}
  /\ jar' = IF c.answer = "member" THEN c.cookie ELSE jar
  /\ shown' = (shown \/ c.answer = "member")
  /\ locked' = (locked /\ c.answer # "member")
  /\ calls' = calls \ {c}
  /\ UNCHANGED <<now, Operators, nav, asked, signIns>>

Answer(c, verdict) ==
  IF c.endpoint \in {Session, Locking} THEN verdict
  ELSE IF c.endpoint.bodyFirst /\ ~c.whole THEN "invalid"
  ELSE IF verdict = "none" THEN c.endpoint.stranger ELSE verdict

Serve(c) ==
  /\ c.step = "sent" /\ c.endpoint \notin {Passcode, PasscodeOfTheDay}
  /\ \E v \in Verdicts(c.cookie) :
       calls' = (calls \ {c}) \cup {[c EXCEPT !.step = "served", !.answer = Answer(c, v),
                                             !.cookie = NoCookie, !.locked = FALSE]}
  /\ UNCHANGED <<now, Operators, jar, nav, shown, asked, locked, signIns>>

(* What the page believes is the last answer to come, whenever it was      *)
(* asked for.                                                              *)
SessionAnswered(c) ==
  /\ c.step = "served" /\ c.endpoint = Session
  /\ shown' = (c.answer # "none")
  /\ calls' = calls \ {c}
  /\ UNCHANGED <<now, Operators, jar, nav, asked, locked, signIns>>

Cleared(c) == NoCookie

(* A cookie that a sign-in under way brings would undo the lock.           *)
LoggingIn == \E c \in calls : c.endpoint \in {Passcode, PasscodeOfTheDay}
LockAnswered(c) ==
  /\ c.step = "served" /\ c.endpoint = Locking
  /\ jar' = Cleared(jar) /\ locked' = (nav = NoNav /\ ~LoggingIn)
  /\ calls' = calls \ {c}
  /\ UNCHANGED <<now, Operators, nav, shown, asked, signIns>>

(* The desk reports what came; a refusal leaves it open.                   *)
ActAnswered(c) ==
  /\ c.step = "served" /\ c.endpoint \in DeskEndpoint
  /\ calls' = calls \ {c}
  /\ UNCHANGED <<now, Operators, jar, nav, shown, asked, locked, signIns>>

(* Nothing is tried again, a lock neither.                                 *)
CallLost(c) ==
  /\ calls' = calls \ {c}
  /\ UNCHANGED <<now, Operators, jar, nav, shown, asked, locked, signIns>>

AccessNext ==
  \/ Day \/ RaiseEpoch \/ Rotate \/ DropSecret
  \/ SignIn \/ Redirect \/ SignedIn
  \/ CheckSession \/ Lock
  \/ \E e \in DeskEndpoint, whole \in BOOLEAN : Act(e, whole)
  \/ \E e \in {Passcode, PasscodeOfTheDay}, right \in BOOLEAN : LogIn(e, right)
  \/ \E c \in calls : CheckPasscode(c)
  \/ \E c \in calls : LoggedIn(c)
  \/ \E c \in calls : Serve(c)
  \/ \E c \in calls : SessionAnswered(c)
  \/ \E c \in calls : LockAnswered(c)
  \/ \E c \in calls : ActAnswered(c)
  \/ \E c \in calls : CallLost(c)

AccessSpec == AccessInit /\ [][AccessNext]_accessVars

-----------------------------------------------------------------------------
(* A call of a locked desk, or of one whose session goes back to before    *)
(* the last revocation, is not taken for the curator's by its cookie,      *)
(* however often the session was renewed since, whatever secret signed it  *)
(* (curatorAuthHandler.ts:145-185, functions/api/curator/auth.ts:75-130).  *)
(* A renewal is checked and stamped in one step.                           *)
SessionEnds ==
  [][\A c \in calls, d \in calls' :
       (c.step = "sent" /\ d.n = c.n /\ d.answer = "cookie") =>
         (~c.locked /\ c.cookie.began = revocations)]_accessVars

-----------------------------------------------------------------------------
(* The limiter.                                                            *)
CONSTANTS
  Caller,      \* an endpoint's name and an address
  Limit,       \* requests in a window
  Window,      \* its length
  StoreSize,   \* buckets kept without pruning, 10000 in the code
  MaxRequests  \* bound: requests

(* What the configurations keep to. *)
RateAssumption == Limit \in Nat \ {0} /\ Window \in Nat \ {0}

VARIABLES
  clock,
  bucket,   \* [Caller -> [count, resetAt]], count 0 if there is none
  requests,
  passed    \* history: [Caller -> the times of the requests let through]

rateVars == <<clock, bucket, requests, passed>>

NoBucket == [count |-> 0, resetAt |-> 0]
Stored(bs) == {c \in Caller : bs[c] # NoBucket}

RateInit ==
  /\ clock = 0 /\ bucket = [c \in Caller |-> NoBucket]
  /\ requests = 0 /\ passed = [c \in Caller |-> <<>>]

Over(b) == clock >= b.resetAt

(* Mutant: pruning takes buckets whose window is not over.                 *)
PrunedAll(bs) ==
  IF Cardinality(Stored(bs)) > StoreSize THEN [c \in Caller |-> NoBucket] ELSE bs
Pruned(bs) ==
  IF Cardinality(Stored(bs)) > StoreSize THEN [c \in Caller |-> IF Over(bs[c]) THEN NoBucket ELSE bs[c]]
  ELSE bs

Full(b) == b # NoBucket /\ ~Over(b) /\ b.count >= Limit

Counted(b) ==
  IF b = NoBucket \/ Over(b) THEN [count |-> 1, resetAt |-> clock + Window]
  ELSE [b EXCEPT !.count = @ + 1]

LetThrough(c) ==
  LET bs == Pruned(bucket)
  IN /\ requests < MaxRequests /\ requests' = requests + 1
     /\ ~Full(bs[c])
     /\ bucket' = [bs EXCEPT ![c] = Counted(bs[c])]
     /\ passed' = [passed EXCEPT ![c] = Append(@, clock)]
     /\ UNCHANGED clock

TurnAway(c) ==
  LET bs == Pruned(bucket)
  IN /\ requests < MaxRequests /\ requests' = requests + 1
     /\ Full(bs[c])
     /\ bucket' = bs
     /\ UNCHANGED <<clock, passed>>

(* No time passes once the last request is made.                           *)
Tick ==
  /\ requests \in 1..MaxRequests - 1 /\ clock < MaxRequests * Window
  /\ clock' = clock + 1 /\ UNCHANGED <<bucket, requests, passed>>

RateNext ==
  \/ \E c \in Caller : LetThrough(c)
  \/ \E c \in Caller : TurnAway(c)
  \/ Tick

RateSpec == RateInit /\ [][RateNext]_rateVars

-----------------------------------------------------------------------------
(* Whenever a window begins, a caller gets fewer than two limits of        *)
(* requests through in it, pruned or not: one end of a counted window and  *)
(* the start of the next (edgeRateLimiter.ts:62-115).                      *)
UnderTwoLimits ==
  \A c \in Caller : \A i \in DOMAIN passed[c] :
    LET j == i + 2 * Limit - 1
    IN j \in DOMAIN passed[c] => passed[c][j] - passed[c][i] >= Window
=============================================================================
