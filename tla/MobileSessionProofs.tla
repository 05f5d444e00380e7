------------------------ MODULE MobileSessionProofs ------------------------
(***************************************************************************)
(* Proofs about MobileSession, for any tokens, sign-ins in flight, kills   *)
(* of the app and failing calls of SecureStore.                            *)
(*                                                                         *)
(* The argument is about the calls SecureStore has not finished, and those *)
(* whose end the code has not taken in.  Memory follows the store: the     *)
(* last of the ended calls that will write to memory writes what the store *)
(* holds, or that the user is signed out.  And until the user asks to      *)
(* leave or a token expires, no call clears the token: only a 401 could    *)
(* ask for that, a 401 answers a request without a good token, and such a  *)
(* request would need an earlier clearing.                                 *)
(***************************************************************************)
EXTENDS MobileSession, SequenceTheorems, TLAPS

\* The calls in a queue.
Queued(q) == {q[i] : i \in 1..Len(q)}

\* Nobody has asked to leave, and no token has expired.
Quiet == logout = "never" /\ expired = {}

\* The code that awaits the call ended as e writes Value(e) to memory.
Writes(e) == e.call.op \in {"hydrate", "clear"} \/ (e.call.op = "set" /\ e.ok)
Value(e)  == IF e.ok /\ e.call.op # "clear" THEN e.tok ELSE NoToken

\* Once the ended calls q are taken in, t in memory ends up as s in the store, or null.
Settles(q, t, s) ==
    /\ (\A i \in 1..Len(q) : ~Writes(q[i])) => t \in {s, NoToken}
    /\ \A i \in 1..Len(q) :
          Writes(q[i]) /\ (\A j \in (i + 1)..Len(q) : ~Writes(q[j])) => Value(q[i]) \in {s, NoToken}

\* The tokens in use were issued.
Genuine ==
    /\ store \in issued \cup {NoToken}
    /\ mes \subseteq issued \cup {NoToken}
    /\ \A c \in Queued(native) : c.op = "set" => c.tok \in issued
    /\ \A e \in Queued(done) : e.tok \in issued \cup {NoToken}

HydrateCall == Call("hydrate", NoToken, "app")
ReadCall    == Call("read", NoToken, "app")

\* The first call is under way, has ended, or is taken in.
FirstCall ==
    \/ native = <<HydrateCall>> /\ done = <<>>
    \/ /\ native = <<>>
       /\ \E e \in EndsOf(Slots) : done = <<e>> /\ e.call = HydrateCall /\ (e.ok => e.tok = store)
    \/ native = <<>> /\ done = <<>> /\ (hydration = "read" => token = store)

\* While the app opens there is nothing but its first call.
Opening ==
    screen \in {"splash", "gate"} =>
        /\ \A l \in Slots : logins[l].at = "idle"
        /\ mes = {} /\ ~prompting
        /\ hydration # "reading" => native = <<>> /\ done = <<>>
        /\ FirstCall

\* While all is quiet nothing clears the token or asks without one.
Undisturbed ==
    Quiet =>
        /\ NoToken \notin mes
        /\ \A c \in Queued(native) : c.op # "clear" /\ (c.op = "read" => store # NoToken)
        /\ \A e \in Queued(done) :
              /\ e.call.op # "clear"
              /\ e.ok /\ e.call.op \in {"set", "read"} => e.tok # NoToken /\ store # NoToken

IInv == TypeOK /\ Settles(done, token, store) /\ Genuine /\ Opening /\ Undisturbed

-----------------------------------------------------------------------------
(* Queues *)

LEMMA QueuedAppend ==
    ASSUME NEW S, NEW q \in Seq(S), NEW c \in S
    PROVE  Append(q, c) \in Seq(S) /\ Queued(Append(q, c)) = Queued(q) \cup {c}
  <1>1. Append(q, c) \in Seq(S)  OBVIOUS
  <1>2. Len(Append(q, c)) = Len(q) + 1 /\ Len(q) \in Nat  OBVIOUS
  <1>3. \A i \in 1..Len(q) : Append(q, c)[i] = q[i]  OBVIOUS
  <1>4. Append(q, c)[Len(q) + 1] = c  OBVIOUS
  <1>5. Queued(Append(q, c)) \subseteq Queued(q) \cup {c}
    <2>1. ASSUME NEW i \in 1..(Len(q) + 1) PROVE Append(q, c)[i] \in Queued(q) \cup {c}
      BY <1>2, <1>3, <1>4 DEF Queued
    <2> QED  BY <1>2, <2>1 DEF Queued
  <1>6. Queued(q) \cup {c} \subseteq Queued(Append(q, c))
    <2>1. ASSUME NEW i \in 1..Len(q) PROVE q[i] \in Queued(Append(q, c))
      BY <1>2, <1>3 DEF Queued
    <2>2. c \in Queued(Append(q, c))  BY <1>2, <1>4 DEF Queued
    <2> QED  BY <2>1, <2>2 DEF Queued
  <1> QED  BY <1>1, <1>5, <1>6

LEMMA QueuedHeadTail ==
    ASSUME NEW S, NEW q \in Seq(S), q # <<>>
    PROVE  /\ Head(q) \in Queued(q) /\ Head(q) \in S
           /\ Tail(q) \in Seq(S) /\ Queued(Tail(q)) \subseteq Queued(q)
  <1>1. Len(q) \in Nat /\ Len(q) >= 1  OBVIOUS
  <1>2. Head(q) = q[1]  OBVIOUS
  <1>3. Tail(q) \in Seq(S) /\ Len(Tail(q)) = Len(q) - 1  OBVIOUS
  <1>4. \A i \in 1..(Len(q) - 1) : Tail(q)[i] = q[i + 1]  OBVIOUS
  <1>5. ASSUME NEW i \in 1..(Len(q) - 1) PROVE Tail(q)[i] \in Queued(q)
    BY <1>1, <1>4 DEF Queued
  <1>6. Queued(Tail(q)) \subseteq Queued(q)  BY <1>3, <1>5 DEF Queued
  <1>7. Head(q) \in Queued(q)  BY <1>1, <1>2 DEF Queued
  <1>8. Head(q) \in S  BY <1>1, <1>2
  <1> QED  BY <1>3, <1>6, <1>7, <1>8

LEMMA QueuedSmall ==
    ASSUME NEW c
    PROVE  Queued(<<>>) = {} /\ Queued(<<c>>) = {c}
  BY DEF Queued

\* Showing a screen adds at most the home screen's request.
LEMMA QueuedShow ==
    ASSUME NEW q \in Seq(CallsOf(Slots)), NEW s
    PROVE  /\ q \o OnShow(s) \in Seq(CallsOf(Slots))
           /\ \A c \in Queued(q \o OnShow(s)) : c \in Queued(q) \/ (c = ReadCall /\ s = "home")
  <1>1. ReadCall \in CallsOf(Slots)  BY DEF ReadCall, Call, CallsOf, MaybeToken
  <1>2. CASE OnShow(s) = <<>>
    <2>1. q \o OnShow(s) = q  BY <1>2, ConcatEmptySeq
    <2> QED  BY <2>1
  <1>3. CASE s = "home" /\ OnShow(s) = <<ReadCall>>
    <2>1. q \o OnShow(s) = Append(q, ReadCall)  BY <1>1, <1>3, AppendIsConcat
    <2>2. /\ Append(q, ReadCall) \in Seq(CallsOf(Slots))
          /\ Queued(Append(q, ReadCall)) = Queued(q) \cup {ReadCall}
      BY <1>1, QueuedAppend
    <2> QED  BY <1>3, <2>1, <2>2
  <1> QED  BY <1>2, <1>3 DEF OnShow, ReadCall

-----------------------------------------------------------------------------
(* Memory and the store *)

LEMMA SettlesEmpty ==
    ASSUME NEW t, NEW s, t \in {s, NoToken}
    PROVE  Settles(<<>>, t, s)
  BY DEF Settles

\* A call ends: it will write what the store now holds, or the store is as it was.
LEMMA SettlesAppend ==
    ASSUME NEW S, NEW q \in Seq(S), NEW e \in S, NEW t, NEW s, NEW s2, Settles(q, t, s),
           \/ Writes(e) /\ Value(e) \in {s2, NoToken}
           \/ ~Writes(e) /\ s2 = s
    PROVE  Settles(Append(q, e), t, s2)
  <1> DEFINE r == Append(q, e)
  <1>1. Len(r) = Len(q) + 1 /\ Len(q) \in Nat  OBVIOUS
  <1>2. \A i \in 1..Len(q) : r[i] = q[i]  OBVIOUS
  <1>3. r[Len(q) + 1] = e  OBVIOUS
  <1> HIDE DEF r
  <1>4. ASSUME \A i \in 1..Len(r) : ~Writes(r[i]) PROVE t \in {s2, NoToken}
    <2>1. ~Writes(e)  BY <1>1, <1>3, <1>4
    <2>2. \A i \in 1..Len(q) : ~Writes(q[i])  BY <1>1, <1>2, <1>4
    <2> QED  BY <2>1, <2>2 DEF Settles
  <1>5. ASSUME NEW i \in 1..Len(r), Writes(r[i]), \A j \in (i + 1)..Len(r) : ~Writes(r[j])
        PROVE  Value(r[i]) \in {s2, NoToken}
    <2>1. CASE i = Len(q) + 1  BY <1>3, <1>5, <2>1
    <2>2. CASE i \in 1..Len(q)
      <3>1. ~Writes(e)  BY <1>1, <1>3, <1>5, <2>2
      <3>2. \A j \in (i + 1)..Len(q) : ~Writes(q[j])  BY <1>1, <1>2, <1>5, <2>2
      <3> QED  BY <1>2, <1>5, <2>2, <3>1, <3>2 DEF Settles
    <2> QED  BY <1>1, <2>1, <2>2
  <1> QED  BY <1>4, <1>5 DEF Settles, r

\* A call is taken in, with what it writes.
LEMMA SettlesTail ==
    ASSUME NEW S, NEW q \in Seq(S), q # <<>>, NEW t, NEW s, NEW t2, Settles(q, t, s),
           t2 = IF Writes(Head(q)) THEN Value(Head(q)) ELSE t
    PROVE  Settles(Tail(q), t2, s)
  <1> DEFINE r == Tail(q)
  <1>1. Len(q) \in Nat /\ Len(q) >= 1 /\ Len(r) = Len(q) - 1 /\ Head(q) = q[1]  OBVIOUS
  <1>2. \A i \in 1..Len(r) : r[i] = q[i + 1]  OBVIOUS
  <1> HIDE DEF r
  <1>3. ASSUME \A i \in 1..Len(r) : ~Writes(r[i]) PROVE t2 \in {s, NoToken}
    <2>1. \A j \in 2..Len(q) : ~Writes(q[j])
      <3>1. ASSUME NEW j \in 2..Len(q) PROVE ~Writes(q[j])
        <4>1. j - 1 \in 1..Len(r) /\ r[j - 1] = q[j]  BY <1>1, <1>2
        <4> QED  BY <1>3, <4>1
      <3> QED  BY <3>1
    <2>2. CASE Writes(q[1])  BY <1>1, <2>1, <2>2 DEF Settles
    <2>3. CASE ~Writes(q[1])
      <3>1. \A i \in 1..Len(q) : ~Writes(q[i])  BY <1>1, <2>1, <2>3
      <3> QED  BY <1>1, <2>3, <3>1 DEF Settles
    <2> QED  BY <2>2, <2>3
  <1>4. ASSUME NEW i \in 1..Len(r), Writes(r[i]), \A j \in (i + 1)..Len(r) : ~Writes(r[j])
        PROVE  Value(r[i]) \in {s, NoToken}
    <2>1. i + 1 \in 1..Len(q) /\ r[i] = q[i + 1]  BY <1>1, <1>2
    <2>2. ASSUME NEW j \in (i + 2)..Len(q) PROVE ~Writes(q[j])
      <3>1. j - 1 \in (i + 1)..Len(r) /\ j - 1 \in 1..Len(r) /\ r[j - 1] = q[j]  BY <1>1, <1>2
      <3> QED  BY <1>4, <3>1
    <2>3. \A j \in ((i + 1) + 1)..Len(q) : ~Writes(q[j])  BY <2>2
    <2> QED  BY <1>4, <2>1, <2>3 DEF Settles
  <1> QED  BY <1>3, <1>4 DEF Settles, r

-----------------------------------------------------------------------------
(* Starting *)

LEMMA MountMakes ==
    ASSUME Mount
    PROVE  /\ native' = <<HydrateCall>> /\ done' = <<>>
           /\ native' \in Seq(CallsOf(Slots)) /\ done' \in Seq(EndsOf(Slots))
           /\ Queued(native)' = {HydrateCall} /\ Queued(done)' = {}
  <1>1. HydrateCall \in CallsOf(Slots)  BY DEF HydrateCall, Call, CallsOf, MaybeToken
  <1> QED  BY <1>1, QueuedSmall DEF Mount, HydrateCall

LEMMA InitHolds == Init => IInv
  <1> SUFFICES ASSUME Init PROVE IInv  OBVIOUS
  <1>1. HydrateCall \in CallsOf(Slots)  BY DEF HydrateCall, Call, CallsOf, MaybeToken
  <1>2. /\ native \in Seq(CallsOf(Slots)) /\ Queued(native) = {HydrateCall}
        /\ done \in Seq(EndsOf(Slots)) /\ Queued(done) = {}
    BY <1>1, QueuedSmall DEF Init, HydrateCall
  <1>3. logins \in [Slots -> [at : {"idle", "password", "google", "set"}, here : BOOLEAN]]
    BY DEF Init, NoAttempt, Attempt
  <1>4. TypeOK
    <2>1. failures \in 0..MaxFailures /\ restarts \in 0..MaxRestarts
      BY BoundsAreNatural DEF Init
    <2> QED  BY <1>2, <1>3, <2>1 DEF Init, TypeOK, MaybeToken
  <1>5. Genuine /\ Undisturbed
    BY <1>2 DEF Init, Genuine, Undisturbed, HydrateCall, Call
  <1>6. Opening  BY DEF Init, Opening, FirstCall, HydrateCall, NoAttempt, Attempt
  <1>7. Settles(done, token, store)  BY SettlesEmpty DEF Init
  <1> QED  BY <1>4, <1>5, <1>6, <1>7 DEF IInv

LEMMA RestartKeeps == ASSUME IInv, Restart PROVE IInv'
  <1>1. /\ Mount /\ UNCHANGED <<issued, expired, failures>>
        /\ restarts' = restarts + 1 /\ restarts < MaxRestarts
    BY DEF Restart
  <1>11. logout' \in {logout, "asked"} /\ (logout' = "never" => logout = "never")
    BY DEF Restart, SignedIn
  <1>2. /\ native' = <<HydrateCall>> /\ done' = <<>>
        /\ native' \in Seq(CallsOf(Slots)) /\ done' \in Seq(EndsOf(Slots))
        /\ Queued(native)' = {HydrateCall} /\ Queued(done)' = {}
    BY <1>1, MountMakes
  <1>3. native # <<>> => Head(native) \in Queued(native) /\ Head(native) \in CallsOf(Slots)
    BY QueuedHeadTail DEF IInv, TypeOK
  <1>4. store' \in issued \cup {NoToken}
    BY <1>3 DEF Restart, IInv, Genuine
  <1>5. logins' \in [Slots -> [at : {"idle", "password", "google", "set"}, here : BOOLEAN]]
    BY <1>1 DEF Mount, NoAttempt, Attempt
  <1>6. restarts' \in 0..MaxRestarts
    BY <1>1, BoundsAreNatural DEF IInv, TypeOK
  <1>7. screen' \in {"splash", "gate"} /\ token' = NoToken /\ hydration' = "reading"
        /\ ~submitting' /\ ~prompting' /\ mes' = {}
    BY <1>1 DEF Mount
  <1>8. TypeOK'
    BY <1>1, <1>11, <1>2, <1>4, <1>5, <1>6, <1>7 DEF Mount, IInv, TypeOK, MaybeToken
  <1>9. Genuine' /\ Undisturbed'
    BY <1>1, <1>2, <1>4, <1>7 DEF Genuine, Undisturbed, HydrateCall, Call
  <1>10. Opening'
    BY <1>1, <1>2, <1>7 DEF Mount, Opening, FirstCall, NoAttempt, Attempt
  <1>12. Settles(done, token, store)'  BY <1>2, <1>7, SettlesEmpty
  <1> QED  BY <1>8, <1>9, <1>10, <1>12 DEF IInv

-----------------------------------------------------------------------------
(* The screens *)

\* The type of what Show changes.
LEMMA ShowTypes ==
    ASSUME IInv, NEW s \in {"login", "home"}, NEW attempts \in [Slots -> [at : {"idle", "password", "google", "set"}, here : BOOLEAN]],
           NEW busy \in BOOLEAN, Show(s, attempts, busy)
    PROVE  /\ screen' = s
           /\ native' \in Seq(CallsOf(Slots))
           /\ \A c \in Queued(native)' : c \in Queued(native) \/ (c = ReadCall /\ s = "home")
           /\ logins' \in [Slots -> [at : {"idle", "password", "google", "set"}, here : BOOLEAN]]
           /\ submitting' \in BOOLEAN /\ prompting' \in BOOLEAN
  <1>1. Away(attempts) \in [Slots -> [at : {"idle", "password", "google", "set"}, here : BOOLEAN]]
    <2>1. ASSUME NEW l \in Slots
          PROVE  [attempts[l] EXCEPT !.here = FALSE]
                   \in [at : {"idle", "password", "google", "set"}, here : BOOLEAN]
      <3>1. attempts[l] \in [at : {"idle", "password", "google", "set"}, here : BOOLEAN]
        OBVIOUS
      <3> QED  BY <3>1
    <2> QED  BY <2>1 DEF Away
  <1>2. native' = native \o OnShow(s)  BY DEF Show
  <1>3. native \o OnShow(s) \in Seq(CallsOf(Slots))
        /\ \A c \in Queued(native \o OnShow(s)) : c \in Queued(native) \/ (c = ReadCall /\ s = "home")
    BY QueuedShow DEF IInv, TypeOK
  <1>4. \A c \in Queued(native)' : c \in Queued(native) \/ (c = ReadCall /\ s = "home")
    BY <1>2, <1>3 DEF Queued
  <1>5. prompting \in BOOLEAN  BY DEF IInv, TypeOK
  <1> QED  BY <1>1, <1>2, <1>3, <1>4, <1>5 DEF Show

LEMMA RedirectKeeps ==
    ASSUME IInv, NEW s \in {"login", "home"}, s = "home" => token # NoToken, done = <<>>, Redirect(s)
    PROVE  IInv'
  <1>1. Show(s, logins, submitting) /\ UNCHANGED <<store, done, token, hydration, mes, outside, logout>>
    BY DEF Redirect
  <1>2. /\ screen' = s
        /\ native' \in Seq(CallsOf(Slots))
        /\ \A c \in Queued(native)' : c \in Queued(native) \/ (c = ReadCall /\ s = "home")
        /\ logins' \in [Slots -> [at : {"idle", "password", "google", "set"}, here : BOOLEAN]]
        /\ submitting' \in BOOLEAN /\ prompting' \in BOOLEAN
    BY <1>1, ShowTypes DEF IInv, TypeOK
  <1>3. TypeOK'  BY <1>1, <1>2 DEF IInv, TypeOK, outside
  <1>4. s = "home" => store # NoToken  BY DEF IInv, Settles
  <1>5. Genuine' /\ Undisturbed'
    <2>1. \A c \in Queued(native)' : c \in Queued(native) \/ (c.op = "read" /\ store # NoToken)
      BY <1>2, <1>4 DEF ReadCall, Call
    <2>2. Queued(done)' = Queued(done)  BY <1>1 DEF Queued
    <2> QED  BY <1>1, <2>1, <2>2 DEF IInv, Genuine, Undisturbed, Quiet, outside
  <1>6. Opening'  BY <1>2 DEF Opening
  <1> QED  BY <1>1, <1>3, <1>5, <1>6 DEF IInv

LEMMA OpenKeeps == ASSUME IInv, Index \/ AppLayout PROVE IInv'
  <1>1. Redirect(IF token # NoToken THEN "home" ELSE "login")  BY DEF Index, AppLayout
  <1>2. done = <<>>  BY DEF Index, AppLayout, IInv, Opening
  <1>3. CASE token # NoToken /\ Redirect("home")   BY <1>2, <1>3, RedirectKeeps
  <1>4. CASE token = NoToken /\ Redirect("login")  BY <1>2, <1>4, RedirectKeeps
  <1> QED  BY <1>1, <1>3, <1>4

-----------------------------------------------------------------------------
(* Signing in *)

\* Steps that only change the login form and what it has in flight.
LEMMA FormKeeps ==
    ASSUME IInv, screen \notin {"splash", "gate"},
           submitting' \in BOOLEAN, prompting' \in BOOLEAN,
           logins' \in [Slots -> [at : {"idle", "password", "google", "set"}, here : BOOLEAN]],
           UNCHANGED <<store, native, done, token, hydration, screen, mes, outside, logout>>
    PROVE  IInv'
  <1>1. TypeOK'  BY DEF IInv, TypeOK, outside
  <1>2. Genuine' /\ Undisturbed' /\ Opening'
    BY DEF IInv, Genuine, Undisturbed, Quiet, Opening, Queued, outside
  <1> QED  BY <1>1, <1>2 DEF IInv

LEMMA SubmitTypes ==
    ASSUME IInv, NEW kind \in {"password", "google"}, Submit(kind)
    PROVE  /\ submitting' \in BOOLEAN
           /\ logins' \in [Slots -> [at : {"idle", "password", "google", "set"}, here : BOOLEAN]]
  BY DEF Submit, Attempt, IInv, TypeOK

LEMMA UserKeeps == ASSUME IInv, OnSubmit \/ Prompt \/ OnGoogleResult PROVE IInv'
  <1>1. screen \notin {"splash", "gate"}
    BY DEF OnSubmit, CanSubmit, Prompt, CanPrompt, OnGoogleResult, IInv, Opening
  <1>2. CASE OnSubmit
    <2>1. prompting' \in BOOLEAN  BY <1>2 DEF OnSubmit, IInv, TypeOK
    <2> QED  BY <1>1, <1>2, <2>1, SubmitTypes, FormKeeps DEF OnSubmit
  <1>3. CASE Prompt
    BY <1>1, <1>3, FormKeeps DEF Prompt, IInv, TypeOK
  <1>4. CASE OnGoogleResult
    <2>1. /\ submitting' \in BOOLEAN /\ prompting' \in BOOLEAN
          /\ logins' \in [Slots -> [at : {"idle", "password", "google", "set"}, here : BOOLEAN]]
      BY <1>4, SubmitTypes DEF OnGoogleResult, IInv, TypeOK
    <2> QED  BY <1>1, <1>4, <2>1, FormKeeps DEF OnGoogleResult
  <1> QED  BY <1>2, <1>3, <1>4

LEMMA OverTypes ==
    ASSUME IInv, NEW l
    PROVE  /\ Over(l) \in [Slots -> [at : {"idle", "password", "google", "set"}, here : BOOLEAN]]
           /\ BusyAfter(l) \in BOOLEAN
  BY DEF Over, BusyAfter, NoAttempt, Attempt, IInv, TypeOK

LEMMA LoginRefusedKeeps ==
    ASSUME IInv, NEW l \in Slots, LoginRefused(l)
    PROVE  IInv'
  <1>1. screen \notin {"splash", "gate"}  BY DEF LoginRefused, IInv, Opening
  <1>2. prompting' \in BOOLEAN  BY DEF LoginRefused, IInv, TypeOK
  <1> QED  BY <1>1, <1>2, OverTypes, FormKeeps DEF LoginRefused, Refused

LEMMA LoginAnsweredKeeps ==
    ASSUME IInv, NEW l \in Slots, LoginAnswered(l)
    PROVE  IInv'
  <1>1. PICK t \in Tokens \ issued : issued' = issued \cup {t} /\ SignIn(l, TokenOf([data |-> t]))
    BY DEF LoginAnswered
  <1>2. /\ native' = Append(native, Call("set", t, l))
        /\ logins' = [logins EXCEPT ![l].at = "set"]
        /\ UNCHANGED <<token, submitting>>
    BY <1>1 DEF SignIn, TokenOf
  <1>3. Call("set", t, l) \in CallsOf(Slots) /\ Call("set", t, l).op = "set"
        /\ Call("set", t, l).tok = t
    BY DEF Call, CallsOf, MaybeToken
  <1>4. native' \in Seq(CallsOf(Slots)) /\ Queued(native)' = Queued(native) \cup {Call("set", t, l)}
    <2>1. native \in Seq(CallsOf(Slots))  BY DEF IInv, TypeOK
    <2>2. /\ Append(native, Call("set", t, l)) \in Seq(CallsOf(Slots))
          /\ Queued(Append(native, Call("set", t, l))) = Queued(native) \cup {Call("set", t, l)}
      BY <1>3, <2>1, QueuedAppend
    <2> QED  BY <1>2, <2>2 DEF Queued
  <1>5. screen \notin {"splash", "gate"}  BY DEF LoginAnswered, IInv, Opening
  <1>6. UNCHANGED <<store, done, hydration, screen, prompting, mes, expired, logout, failures, restarts>>
    BY DEF LoginAnswered
  <1>7. TypeOK'
    <2>1. logins' \in [Slots -> [at : {"idle", "password", "google", "set"}, here : BOOLEAN]]
      BY <1>2 DEF IInv, TypeOK
    <2> QED  BY <1>1, <1>2, <1>4, <1>6, <2>1 DEF IInv, TypeOK
  <1>8. Genuine' /\ Undisturbed' /\ Opening'
    BY <1>1, <1>3, <1>4, <1>5, <1>6 DEF IInv, Genuine, Undisturbed, Quiet, Opening
  <1> QED  BY <1>2, <1>6, <1>7, <1>8 DEF IInv

-----------------------------------------------------------------------------
(* Signing out *)

\* A call that clears the token joins the queue; then somebody has asked to leave,
\* or a token has expired.
LEMMA ClearKeeps ==
    ASSUME IInv, NEW by \in Slots \cup {"user", "app"}, screen \notin {"splash", "gate"},
           native' = Append(native, Call("clear", NoToken, by)),
           mes' \subseteq mes, logout' \in {logout, "asked"}, ~Quiet',
           UNCHANGED <<store, done, token, hydration, screen, form, outside>>
    PROVE  IInv'
  <1>1. Call("clear", NoToken, by) \in CallsOf(Slots) /\ Call("clear", NoToken, by).op = "clear"
    BY DEF Call, CallsOf, MaybeToken
  <1>2. native' \in Seq(CallsOf(Slots))
        /\ Queued(native)' = Queued(native) \cup {Call("clear", NoToken, by)}
    <2>1. native \in Seq(CallsOf(Slots))  BY DEF IInv, TypeOK
    <2>2. /\ Append(native, Call("clear", NoToken, by)) \in Seq(CallsOf(Slots))
          /\ Queued(Append(native, Call("clear", NoToken, by)))
               = Queued(native) \cup {Call("clear", NoToken, by)}
      BY <1>1, <2>1, QueuedAppend
    <2> QED  BY <2>2 DEF Queued
  <1>3. TypeOK'  BY <1>2 DEF IInv, TypeOK, form, outside
  <1>4. Genuine' /\ Undisturbed' /\ Opening'
    BY <1>1, <1>2 DEF IInv, Genuine, Undisturbed, Opening, outside
  <1> QED  BY <1>3, <1>4 DEF IInv

LEMMA LogoutKeeps == ASSUME IInv, Logout PROVE IInv'
  <1>1. screen \notin {"splash", "gate"}  BY DEF Logout, LogoutShown
  <1>2. logout' = "asked" /\ ~Quiet'  BY DEF Logout, Quiet
  <1> QED  BY <1>1, <1>2, ClearKeeps DEF Logout

\* Me answers 401 to nobody whose token verifies.
LEMMA OutageIsNo401 ==
    ASSUME NEW s \in MeStatuses[TRUE] \cup {NoAnswer}
    PROVE  s # 401
  <1>1. MeStatuses[TRUE] = {Me(TRUE, a) : a \in AdminAnswers}  BY DEF MeStatuses
  <1>2. ASSUME NEW a \in AdminAnswers PROVE Me(TRUE, a) # 401
    BY DEF Me
  <1>3. CASE s \in {Me(TRUE, a) : a \in AdminAnswers}
    BY <1>2, <1>3
  <1>4. CASE s = NoAnswer
    BY <1>4 DEF NoAnswer
  <1> QED  BY <1>1, <1>3, <1>4

LEMMA MeAnsweredKeeps ==
    ASSUME IInv, NEW t \in MaybeToken, MeAnswered(t)
    PROVE  IInv'
  <1>1. PICK s \in MeStatuses[Authorised(t)] \cup {NoAnswer} :
          native' = IF s = 401 THEN Append(native, Call("clear", NoToken, "app")) ELSE native
    BY DEF MeAnswered
  <1>2. /\ t \in mes /\ mes' = mes \ {t}
        /\ UNCHANGED <<store, done, token, hydration, screen, form, outside, logout>>
    BY DEF MeAnswered
  <1>3. screen \notin {"splash", "gate"}  BY <1>2 DEF IInv, Opening
  <1>4. CASE s = 401
    <2>1. ~Quiet
      <3>1. SUFFICES ASSUME Quiet PROVE FALSE  OBVIOUS
      <3>2. t # NoToken /\ t \in issued \ expired
        BY <1>2, <3>1 DEF IInv, Genuine, Undisturbed, Quiet
      <3>3. Authorised(t) = TRUE  BY <3>2 DEF Authorised, JwtAuth
      <3> QED  BY <1>1, <1>4, <3>3, OutageIsNo401
    <2>2. ~Quiet'  BY <1>2, <2>1 DEF Quiet, outside
    <2> QED  BY <1>1, <1>2, <1>3, <1>4, <2>2, ClearKeeps
  <1>5. CASE s # 401
    <2>1. native' = native  BY <1>1, <1>5
    <2>2. TypeOK'  BY <1>2, <2>1 DEF IInv, TypeOK, form, outside
    <2>3. Genuine' /\ Undisturbed' /\ Opening'
      BY <1>2, <1>3, <2>1 DEF IInv, Genuine, Undisturbed, Quiet, Opening, Queued, outside
    <2> QED  BY <1>2, <2>2, <2>3 DEF IInv
  <1> QED  BY <1>4, <1>5

-----------------------------------------------------------------------------
(* SecureStore *)

LEMMA HeadOfQueue ==
    ASSUME IInv, native # <<>>
    PROVE  /\ Head(native) \in Queued(native) /\ Head(native) \in CallsOf(Slots)
           /\ Tail(native) \in Seq(CallsOf(Slots)) /\ Queued(Tail(native)) \subseteq Queued(native)
           /\ screen \in {"splash", "gate"} =>
                Head(native) = HydrateCall /\ Tail(native) = <<>> /\ done = <<>> /\ hydration = "reading"
  <1>1. native \in Seq(CallsOf(Slots))  BY DEF IInv, TypeOK
  <1>2. ASSUME screen \in {"splash", "gate"}
        PROVE  Head(native) = HydrateCall /\ Tail(native) = <<>> /\ done = <<>> /\ hydration = "reading"
    <2>1. native = <<HydrateCall>> /\ done = <<>> /\ hydration = "reading"
      BY <1>2 DEF IInv, Opening, FirstCall
    <2> QED  BY <2>1
  <1> QED  BY <1>1, <1>2, QueuedHeadTail

LEMMA HeadOfDone ==
    ASSUME IInv, done # <<>>
    PROVE  /\ Head(done) \in Queued(done) /\ Head(done) \in EndsOf(Slots)
           /\ Tail(done) \in Seq(EndsOf(Slots)) /\ Queued(Tail(done)) \subseteq Queued(done)
           /\ screen \in {"splash", "gate"} =>
                /\ Head(done).call = HydrateCall /\ (Head(done).ok => Head(done).tok = store)
                /\ Tail(done) = <<>> /\ native = <<>>
  <1>1. done \in Seq(EndsOf(Slots))  BY DEF IInv, TypeOK
  <1>2. ASSUME screen \in {"splash", "gate"}
        PROVE  /\ Head(done).call = HydrateCall /\ (Head(done).ok => Head(done).tok = store)
               /\ Tail(done) = <<>> /\ native = <<>>
    <2>1. PICK e \in EndsOf(Slots) :
            native = <<>> /\ done = <<e>> /\ e.call = HydrateCall /\ (e.ok => e.tok = store)
      BY <1>2 DEF IInv, Opening, FirstCall
    <2>2. Head(done) = e /\ Tail(done) = <<>>  BY <2>1
    <2> QED  BY <2>1, <2>2
  <1> QED  BY <1>1, <1>2, QueuedHeadTail

\* What a call that ends leaves in the store and in the queue of ends.
LEMMA EndOfCall ==
    ASSUME IInv, NativeDone
    PROVE  \E e \in EndsOf(Slots) :
              /\ e.call = Head(native) /\ done' = Append(done, e)
              /\ \/ /\ e.ok /\ e.tok = store' /\ failures' = failures
                    /\ e.call.op = "set" => store' = e.call.tok
                    /\ e.call.op = "clear" => store' = NoToken
                    /\ e.call.op \in {"hydrate", "read"} => store' = store
                 \/ ~e.ok /\ e.tok = NoToken /\ store' = store /\ failures' \in 0..MaxFailures
  <1> DEFINE c == Head(native)
  <1>1. c \in CallsOf(Slots)  BY HeadOfQueue DEF NativeDone
  <1>2. c.op \in {"hydrate", "read", "set", "clear"} /\ c.tok \in MaybeToken  BY <1>1 DEF CallsOf
  <1>3. store \in MaybeToken /\ NoToken \in MaybeToken  BY DEF IInv, TypeOK, MaybeToken
  <1>4. CASE CarriedOut(c)
    <2>1. /\ store' = CASE c.op = "set" -> c.tok [] c.op = "clear" -> NoToken [] OTHER -> store
          /\ done' = Append(done, Ended(c, store', TRUE)) /\ failures' = failures
      BY <1>4 DEF CarriedOut
    <2>2. /\ c.op = "set" => store' = c.tok
          /\ c.op = "clear" => store' = NoToken
          /\ c.op \in {"hydrate", "read"} => store' = store
      BY <2>1
    <2>3. Ended(c, store', TRUE) \in EndsOf(Slots)
      BY <1>1, <1>2, <1>3, <2>2 DEF Ended, EndsOf
    <2> QED  BY <2>1, <2>2, <2>3 DEF Ended
  <1>5. CASE Fails(c)
    <2>1. failures' \in 0..MaxFailures  BY <1>5, BoundsAreNatural DEF Fails, IInv, TypeOK
    <2>2. Ended(c, NoToken, FALSE) \in EndsOf(Slots)  BY <1>1, <1>3 DEF Ended, EndsOf
    <2> QED  BY <1>5, <2>1, <2>2 DEF Fails, Ended
  <1> QED  BY <1>4, <1>5 DEF NativeDone

LEMMA NativeDoneKeeps == ASSUME IInv, NativeDone PROVE IInv'
  <1> DEFINE c == Head(native)
  <1>1. /\ native # <<>> /\ native' = Tail(native)
        /\ UNCHANGED <<token, hydration, screen, form, mes, issued, expired, restarts>>
    BY DEF NativeDone
  <1>2. PICK e \in EndsOf(Slots) :
              /\ e.call = c /\ done' = Append(done, e)
              /\ \/ /\ e.ok /\ e.tok = store' /\ failures' = failures
                    /\ e.call.op = "set" => store' = e.call.tok
                    /\ e.call.op = "clear" => store' = NoToken
                    /\ e.call.op \in {"hydrate", "read"} => store' = store
                 \/ ~e.ok /\ e.tok = NoToken /\ store' = store /\ failures' \in 0..MaxFailures
    BY EndOfCall
  <1>3. /\ c \in Queued(native) /\ c \in CallsOf(Slots)
        /\ native' \in Seq(CallsOf(Slots)) /\ Queued(native)' \subseteq Queued(native)
    BY <1>1, HeadOfQueue DEF Queued
  <1>4. c.op \in {"hydrate", "read", "set", "clear"} /\ c.tok \in MaybeToken  BY <1>3 DEF CallsOf
  <1>5. done' \in Seq(EndsOf(Slots)) /\ Queued(done)' = Queued(done) \cup {e}
    <2>1. done \in Seq(EndsOf(Slots))  BY DEF IInv, TypeOK
    <2>2. Append(done, e) \in Seq(EndsOf(Slots)) /\ Queued(Append(done, e)) = Queued(done) \cup {e}
      BY <2>1, QueuedAppend
    <2> QED  BY <1>2, <2>2 DEF Queued
  <1>6. store' \in issued \cup {NoToken} /\ e.tok \in issued \cup {NoToken}
    BY <1>2, <1>3, <1>4 DEF IInv, Genuine
  <1>7. logout' \in {logout, "asked"} /\ (logout' = "never" => logout = "never")
    BY DEF NativeDone, CarriedOut, Fails, SignedIn
  <1>8. TypeOK'
    <2>1. issued \subseteq Tokens  BY DEF IInv, TypeOK
    <2>2. store' \in MaybeToken  BY <1>6, <2>1 DEF MaybeToken
    <2>3. failures' \in 0..MaxFailures  BY <1>2 DEF IInv, TypeOK
    <2> QED  BY <1>1, <1>3, <1>5, <1>7, <2>2, <2>3 DEF IInv, TypeOK, form
  <1>9. Settles(done, token, store)'
    <2>1. \/ Writes(e) /\ Value(e) \in {store', NoToken}
          \/ ~Writes(e) /\ store' = store
      BY <1>2, <1>4 DEF Writes, Value
    <2>2. done \in Seq(EndsOf(Slots)) /\ Settles(done, token, store)  BY DEF IInv, TypeOK
    <2>3. Settles(Append(done, e), token, store')
      BY <2>1, <2>2, SettlesAppend
    <2> QED  BY <1>1, <1>2, <2>3
  <1>10. Genuine'
    BY <1>1, <1>3, <1>5, <1>6 DEF IInv, Genuine
  <1>11. Undisturbed'
    <2>1. SUFFICES ASSUME Quiet' PROVE Undisturbed'  BY DEF Undisturbed
    <2>2. Quiet  BY <1>1, <1>7, <2>1 DEF Quiet
    <2>3. c.op # "clear" /\ (c.op = "read" => store # NoToken)
      BY <1>3, <2>2 DEF IInv, Undisturbed
    <2>4. c.op = "set" => c.tok # NoToken
      BY <1>3, NullIsFresh DEF IInv, TypeOK, Genuine
    <2>5. store # NoToken => store' # NoToken  BY <1>2, <1>4, <2>3, <2>4
    <2>6. e.call.op # "clear" /\ (e.ok /\ e.call.op \in {"set", "read"} => e.tok # NoToken /\ store' # NoToken)
      BY <1>2, <2>3, <2>4
    <2> QED  BY <1>1, <1>3, <1>5, <2>2, <2>5, <2>6 DEF IInv, Undisturbed
  <1>12. Opening'
    <2>1. SUFFICES ASSUME screen \in {"splash", "gate"} PROVE Opening'  BY <1>1 DEF Opening
    <2>2. c = HydrateCall /\ native' = <<>> /\ done = <<>> /\ hydration = "reading"
      BY <1>1, <2>1, HeadOfQueue
    <2>3. store' = store /\ (e.ok => e.tok = store') /\ e.call = HydrateCall
      BY <1>2, <2>2 DEF HydrateCall, Call
    <2>4. done' = <<e>>  BY <1>2, <2>2
    <2>5. FirstCall'  BY <2>2, <2>3, <2>4 DEF FirstCall
    <2> QED  BY <1>1, <2>1, <2>2, <2>5 DEF IInv, Opening, form
  <1> QED  BY <1>8, <1>9, <1>10, <1>11, <1>12 DEF IInv

-----------------------------------------------------------------------------
(* The code behind the await of a call *)

\* What every continuation leaves, given what it writes to memory.
LEMMA TakenIn ==
    ASSUME IInv, Continue,
           token' = IF Writes(Head(done)) THEN Value(Head(done)) ELSE token
    PROVE  /\ done' \in Seq(EndsOf(Slots)) /\ Queued(done)' \subseteq Queued(done)
           /\ Settles(done, token, store)'
  <1>1. done # <<>> /\ done' = Tail(done) /\ store' = store  BY DEF Continue
  <1>2. done' \in Seq(EndsOf(Slots)) /\ Queued(done)' \subseteq Queued(done)
    BY <1>1, HeadOfDone DEF Queued
  <1>3. done \in Seq(EndsOf(Slots)) /\ Settles(done, token, store)  BY DEF IInv, TypeOK
  <1>4. Settles(Tail(done), token', store)
    BY <1>1, <1>3, SettlesTail
  <1> QED  BY <1>1, <1>2, <1>4

LEMMA HydratedKeeps ==
    ASSUME IInv, Continue, Hydrated(Head(done))
    PROVE  IInv'
  <1> DEFINE e == Head(done)
  <1>1. /\ done # <<>> /\ done' = Tail(done) /\ e.call.op = "hydrate"
        /\ UNCHANGED <<store, outside, native, screen, form, mes, logout>>
        /\ \/ e.ok /\ token' = e.tok /\ hydration' = "read"
           \/ ~e.ok /\ token' = NoToken /\ hydration' = "failed"
    BY DEF Continue, Hydrated, HydrateFails
  <1>2. /\ done' \in Seq(EndsOf(Slots)) /\ Queued(done)' \subseteq Queued(done)
        /\ Settles(done, token, store)'
    <2>1. token' = IF Writes(e) THEN Value(e) ELSE token  BY <1>1 DEF Writes, Value
    <2> QED  BY <2>1, TakenIn
  <1>3. e.tok \in MaybeToken  BY <1>1, HeadOfDone DEF EndsOf
  <1>4. TypeOK'  BY <1>1, <1>2, <1>3 DEF IInv, TypeOK, form, outside, MaybeToken
  <1>5. Genuine' /\ Undisturbed'
    <2>1. Queued(native)' = Queued(native)  BY <1>1 DEF Queued
    <2> QED  BY <1>1, <1>2, <2>1 DEF IInv, Genuine, Undisturbed, Quiet, outside
  <1>6. Opening'
    <2>1. SUFFICES ASSUME screen \in {"splash", "gate"} PROVE Opening'  BY <1>1 DEF Opening
    <2>2. done' = <<>> /\ native' = <<>> /\ (hydration' = "read" => token' = store')
      BY <1>1, <2>1, HeadOfDone
    <2> QED  BY <1>1, <2>1, <2>2 DEF IInv, Opening, FirstCall, form
  <1> QED  BY <1>2, <1>4, <1>5, <1>6 DEF IInv

LEMMA ReadForMeKeeps ==
    ASSUME IInv, Continue, ReadForMe(Head(done))
    PROVE  IInv'
  <1> DEFINE e == Head(done)
  <1>1. /\ done # <<>> /\ e.call.op = "read"
        /\ mes' = IF e.ok THEN mes \cup {e.tok} ELSE mes
        /\ UNCHANGED <<store, outside, native, token, hydration, screen, form, logout>>
    BY DEF Continue, ReadForMe
  <1>2. /\ done' \in Seq(EndsOf(Slots)) /\ Queued(done)' \subseteq Queued(done)
        /\ Settles(done, token, store)'
    <2>1. token' = IF Writes(e) THEN Value(e) ELSE token  BY <1>1 DEF Writes
    <2> QED  BY <2>1, TakenIn
  <1>3. e \in Queued(done) /\ e.tok \in MaybeToken /\ screen \notin {"splash", "gate"}
    BY <1>1, HeadOfDone DEF EndsOf, HydrateCall, Call
  <1>4. TypeOK'  BY <1>1, <1>2, <1>3 DEF IInv, TypeOK, form, outside
  <1>5. Queued(native)' = Queued(native)  BY <1>1 DEF Queued
  <1>6. Genuine'  BY <1>1, <1>2, <1>3, <1>5 DEF IInv, Genuine, outside
  <1>7. Undisturbed'
    <2>1. Quiet => (e.ok => e.tok # NoToken)  BY <1>1, <1>3 DEF IInv, Undisturbed
    <2> QED  BY <1>1, <1>2, <1>5, <2>1 DEF IInv, Undisturbed, Quiet, outside
  <1>8. Opening'  BY <1>1, <1>3 DEF Opening
  <1> QED  BY <1>2, <1>4, <1>6, <1>7, <1>8 DEF IInv

LEMMA TokenSetKeeps ==
    ASSUME IInv, Continue, TokenSet(Head(done))
    PROVE  IInv'
  <1> DEFINE e == Head(done)
  <1>1. done # <<>> /\ e.call.op = "set" /\ UNCHANGED <<store, outside, hydration, mes, logout>>
    BY DEF Continue, TokenSet
  <1>2. e \in Queued(done) /\ e.tok \in MaybeToken /\ screen \notin {"splash", "gate"}
    BY <1>1, HeadOfDone DEF EndsOf, HydrateCall, Call
  <1>3. /\ Over(e.call.by) \in [Slots -> [at : {"idle", "password", "google", "set"}, here : BOOLEAN]]
        /\ BusyAfter(e.call.by) \in BOOLEAN
    BY OverTypes
  <1>4. CASE e.ok /\ token' = e.tok /\ Show("home", Over(e.call.by), BusyAfter(e.call.by))
    <2>1. /\ screen' = "home"
          /\ native' \in Seq(CallsOf(Slots))
          /\ \A d \in Queued(native)' : d \in Queued(native) \/ d = ReadCall
          /\ logins' \in [Slots -> [at : {"idle", "password", "google", "set"}, here : BOOLEAN]]
          /\ submitting' \in BOOLEAN /\ prompting' \in BOOLEAN
      BY <1>3, <1>4, ShowTypes
    <2>2. /\ done' \in Seq(EndsOf(Slots)) /\ Queued(done)' \subseteq Queued(done)
          /\ Settles(done, token, store)'
      <3>1. token' = IF Writes(e) THEN Value(e) ELSE token  BY <1>1, <1>4 DEF Writes, Value
      <3> QED  BY <3>1, TakenIn
    <2>3. TypeOK'  BY <1>1, <1>2, <1>4, <2>1, <2>2 DEF IInv, TypeOK, outside
    <2>4. \A d \in Queued(native)' : d \in Queued(native) \/ d.op = "read"
      BY <2>1 DEF ReadCall, Call
    <2>5. Genuine'  BY <1>1, <2>2, <2>4 DEF IInv, Genuine, outside
    <2>6. Undisturbed'
      <3>1. Quiet => store # NoToken  BY <1>1, <1>2, <1>4 DEF IInv, Undisturbed
      <3> QED  BY <1>1, <2>2, <2>4, <3>1 DEF IInv, Undisturbed, Quiet, outside
    <2>7. Opening'  BY <2>1 DEF Opening
    <2> QED  BY <2>2, <2>3, <2>5, <2>6, <2>7 DEF IInv
  <1>5. CASE /\ ~e.ok /\ logins' = Over(e.call.by) /\ submitting' = BusyAfter(e.call.by)
             /\ UNCHANGED <<native, token, screen, prompting>>
    <2>1. /\ done' \in Seq(EndsOf(Slots)) /\ Queued(done)' \subseteq Queued(done)
          /\ Settles(done, token, store)'
      <3>1. token' = IF Writes(e) THEN Value(e) ELSE token  BY <1>1, <1>5 DEF Writes
      <3> QED  BY <3>1, TakenIn
    <2>2. TypeOK'  BY <1>1, <1>3, <1>5, <2>1 DEF IInv, TypeOK, outside
    <2>3. Queued(native)' = Queued(native)  BY <1>5 DEF Queued
    <2>4. Genuine' /\ Undisturbed' /\ Opening'
      BY <1>1, <1>2, <1>5, <2>1, <2>3 DEF IInv, Genuine, Undisturbed, Quiet, Opening, outside
    <2> QED  BY <2>1, <2>2, <2>4 DEF IInv
  <1> QED  BY <1>4, <1>5 DEF TokenSet

LEMMA TokenClearedKeeps ==
    ASSUME IInv, Continue, TokenCleared(Head(done))
    PROVE  IInv'
  <1> DEFINE e == Head(done)
  <1>1. /\ done # <<>> /\ e.call.op = "clear"
        /\ UNCHANGED <<store, outside, hydration, mes>>
        /\ token' = NoToken /\ logout' \in {logout, "out"}
        /\ Show("login", logins, submitting)
    BY DEF Continue, TokenCleared
  <1>2. ~Quiet  BY <1>1, HeadOfDone DEF IInv, Undisturbed
  <1>3. /\ screen' = "login"
        /\ native' \in Seq(CallsOf(Slots))
        /\ Queued(native)' \subseteq Queued(native)
        /\ logins' \in [Slots -> [at : {"idle", "password", "google", "set"}, here : BOOLEAN]]
        /\ submitting' \in BOOLEAN /\ prompting' \in BOOLEAN
    <2>1. /\ logins \in [Slots -> [at : {"idle", "password", "google", "set"}, here : BOOLEAN]]
          /\ submitting \in BOOLEAN
      BY DEF IInv, TypeOK
    <2> QED  BY <1>1, <2>1, ShowTypes
  <1>4. /\ done' \in Seq(EndsOf(Slots)) /\ Queued(done)' \subseteq Queued(done)
        /\ Settles(done, token, store)'
    <2>1. token' = IF Writes(e) THEN Value(e) ELSE token  BY <1>1 DEF Writes, Value
    <2> QED  BY <2>1, TakenIn
  <1>5. TypeOK'  BY <1>1, <1>3, <1>4 DEF IInv, TypeOK, outside, MaybeToken
  <1>6. Genuine'  BY <1>1, <1>3, <1>4 DEF IInv, Genuine, outside
  <1>7. Undisturbed'
    <2>1. ~Quiet'  BY <1>1, <1>2 DEF Quiet, outside
    <2> QED  BY <2>1 DEF Undisturbed
  <1>8. Opening'  BY <1>3 DEF Opening
  <1> QED  BY <1>4, <1>5, <1>6, <1>7, <1>8 DEF IInv

LEMMA ContinueKeeps == ASSUME IInv, Continue PROVE IInv'
  BY HydratedKeeps, ReadForMeKeeps, TokenSetKeeps, TokenClearedKeeps DEF Continue

-----------------------------------------------------------------------------
LEMMA ExpireKeeps == ASSUME IInv, NEW t \in Tokens, Expire(t) PROVE IInv'
  <1>1. /\ expired' \subseteq issued /\ expired' # {}
        /\ UNCHANGED <<store, native, done, token, hydration, screen, form, mes, issued, logout, failures, restarts>>
    BY DEF Expire, IInv, TypeOK
  <1>2. TypeOK'  BY <1>1 DEF IInv, TypeOK, form
  <1>3. Genuine' /\ Undisturbed'
    BY <1>1 DEF IInv, Genuine, Undisturbed, Quiet, Queued
  <1>4. FirstCall' = FirstCall  BY <1>1 DEF FirstCall
  <1>5. Opening'  BY <1>1, <1>4 DEF IInv, Opening, form
  <1> QED  BY <1>1, <1>2, <1>3, <1>5 DEF IInv

LEMMA StutterKeeps == ASSUME IInv, UNCHANGED vars PROVE IInv'
  <1>1. FirstCall' = FirstCall  BY DEF vars, FirstCall
  <1>2. TypeOK' /\ Settles(done, token, store)'  BY DEF vars, IInv, TypeOK
  <1>3. Genuine' /\ Undisturbed'  BY DEF vars, IInv, Genuine, Undisturbed, Quiet, Queued
  <1>4. Opening'  BY <1>1 DEF vars, IInv, Opening
  <1> QED  BY <1>2, <1>3, <1>4 DEF IInv

LEMMA NextHolds == IInv /\ [Next]_vars => IInv'
  <1> SUFFICES ASSUME IInv, [Next]_vars PROVE IInv'  OBVIOUS
  <1>1. CASE App
    BY <1>1, OpenKeeps, NativeDoneKeeps, ContinueKeeps, LoginAnsweredKeeps, LoginRefusedKeeps,
       MeAnsweredKeeps DEF App
  <1>2. CASE User
    BY <1>2, UserKeeps, LogoutKeeps DEF User
  <1> QED  BY <1>1, <1>2, RestartKeeps, ExpireKeeps, StutterKeeps DEF Next

THEOREM Invariance == Spec => []IInv
  <1> QED  BY InitHolds, NextHolds, PTL DEF Spec

-----------------------------------------------------------------------------
\* Every reachable state is well typed.
THEOREM TypeCorrect == Spec => []TypeOK
  <1>1. IInv => TypeOK  BY DEF IInv
  <1> QED  BY <1>1, Invariance, PTL

\* Whenever the calls SecureStore has ended are taken in, what the app believes is
\* what the store holds, or that it is signed out.
THEOREM MemoryPersisted == Spec => []MemoryIsPersisted
  <1>1. IInv => MemoryIsPersisted  BY DEF IInv, Settles, MemoryIsPersisted
  <1> QED  BY <1>1, Invariance, PTL

\* The stored token goes only by a call that clears it, and such a call is in the
\* queue only once somebody has asked to leave or a token has expired.
THEOREM OutagesKeepSession == Spec => OutageKeepsSession
  <1> DEFINE A == ForgetsToken => logout # "never" \/ expired # {}
  <1>1. ASSUME IInv, [Next]_vars PROVE [A]_vars
    <2>1. SUFFICES ASSUME Next, ForgetsToken, Quiet PROVE FALSE
      BY <1>1 DEF Quiet
    <2>2. native # <<>> => Head(native).op # "clear" /\ (Head(native).op = "set" => Head(native).tok # NoToken)
      BY <1>1, <2>1, HeadOfQueue, NullIsFresh DEF IInv, TypeOK, Genuine, Undisturbed
    <2>3. ~Restart /\ ~NativeDone
      <3>1. ~Restart  BY <2>1, <2>2 DEF ForgetsToken, Restart
      <3>2. ~NativeDone  BY <2>1, <2>2 DEF ForgetsToken, NativeDone, CarriedOut, Fails
      <3> QED  BY <3>1, <3>2
    <2>4. UNCHANGED store
      BY <2>1, <2>3
      DEF Next, App, Continue, User, Index, AppLayout, Redirect, LoginAnswered, LoginRefused, MeAnswered,
          OnSubmit, Prompt, OnGoogleResult, Logout, Expire
    <2> QED  BY <2>1, <2>4 DEF ForgetsToken
  <1>2. IInv /\ [Next]_vars => [A]_vars  BY <1>1
  <1> QED  BY <1>2, Invariance, PTL DEF Spec, OutageKeepsSession

\* At a start the login form is shown to nobody with a token in a readable store.
THEOREM HoldersGoHome == Spec => HolderGoesHome
  <1> DEFINE A == ShowsLoginAtStart => store = NoToken \/ hydration = "failed"
  <1>1. ASSUME IInv, [Next]_vars PROVE [A]_vars
    <2>1. SUFFICES ASSUME Next, ShowsLoginAtStart PROVE store = NoToken \/ hydration = "failed"
      BY <1>1
    <2>2. screen \in {"splash", "gate"} /\ screen' = "login"  BY <2>1 DEF ShowsLoginAtStart
    <2>3. CASE Index \/ AppLayout
      <3>1. token = NoToken /\ hydration # "reading"
        BY <2>2, <2>3 DEF Index, AppLayout, Redirect, Show
      <3>2. hydration \in {"read", "failed"}  BY <1>1, <3>1 DEF IInv, TypeOK
      <3> QED  BY <1>1, <2>2, <3>1, <3>2 DEF IInv, Opening, FirstCall
    <2>4. ~NativeDone /\ ~Continue
      <3>1. ~NativeDone  BY <2>2 DEF NativeDone
      <3>2. SUFFICES ASSUME Continue PROVE FALSE  BY <3>1
      <3>3. done # <<>> /\ Head(done).call.op = "hydrate"
        BY <1>1, <2>2, <3>2, HeadOfDone DEF Continue, HydrateCall, Call
      <3>4. UNCHANGED screen
        BY <3>2, <3>3 DEF Continue, Hydrated, ReadForMe, TokenSet, TokenCleared
      <3> QED  BY <2>2, <3>4
    <2>5. ~Restart  BY <2>2 DEF Restart, Mount
    <2> QED
      BY <2>1, <2>2, <2>3, <2>4, <2>5
      DEF Next, App, User, LoginAnswered, LoginRefused, MeAnswered, OnSubmit, Prompt,
          OnGoogleResult, Logout, Expire
  <1>2. IInv /\ [Next]_vars => [A]_vars  BY <1>1
  <1> QED  BY <1>2, Invariance, PTL DEF Spec, HolderGoesHome
=============================================================================
