------------------------ MODULE PortalInvitationsProofs ------------------------
(***************************************************************************)
(* Theorems of PortalInvitations: types, and what the lock of accept and    *)
(* the reads before each write are worth.  A request carries what it read   *)
(* (RequestOK); Grows says what no step ever undoes, and is what a request  *)
(* rests on while the others move.  The last part maps every step to one of *)
(* PortalAccess, the promise the requests keep.                             *)
(***************************************************************************)
EXTENDS PortalInvitations, SequenceTheorems, FiniteSetTheorems, TLAPS

USE DEF Steps, Ops

WorldOK ==
    /\ users \in [Guests -> User \cup {NoUser}]
    /\ invs \in Seq(Invitation) /\ left \subseteq DOMAIN invs
    /\ working \subseteq Authors /\ former \subseteq Clients
    /\ reviews \in Seq(Block) /\ sending \subseteq DOMAIN reviews
    /\ raced \subseteq Guests

\* What a request knows at each of its steps.
RequestOK(c) ==
    /\ pc[c] # "idle" /\ req[c].op # "confirm" => todo[c] = {}
    /\ pc[c] \in {"row", "fresh"} => req[c].op = "confirm"
    /\ pc[c] = "mail" => req[c].inv # 0
    /\ pc[c] = "deactivate" => req[c].op = "deactivate" /\ users[req[c].email] # NoUser
    /\ pc[c] \in {"lock", "checks", "grant"} =>
          /\ req[c].op = "accept" /\ req[c].inv # 0
          /\ invs[req[c].inv].client = req[c].client /\ invs[req[c].inv].email = req[c].email
    /\ pc[c] \in {"checks", "grant"} => ~invs[req[c].inv].used /\ ~invs[req[c].inv].revoked
    /\ pc[c] = "grant" /\ req[c].saw # 0 =>
          users[req[c].email] # NoUser /\ users[req[c].email].client = req[c].client

\* What no step undoes: a user keeps the company, an invitation its address and its company, and
\* whatever ended it.
Grows ==
    /\ \A g \in Guests : users[g] # NoUser =>
          users'[g] # NoUser /\ users'[g].client = users[g].client
    /\ DOMAIN invs \subseteq DOMAIN invs'
    /\ \A i \in DOMAIN invs :
          /\ invs'[i].client = invs[i].client /\ invs'[i].email = invs[i].email
          /\ (invs[i].used => invs'[i].used) /\ (invs[i].revoked => invs'[i].revoked)
          /\ (invs[i].expired => invs'[i].expired)
    /\ DOMAIN reviews \subseteq DOMAIN reviews'
    /\ \A b \in DOMAIN reviews : reviews'[b].client = reviews[b].client
                                 /\ reviews'[b].since = reviews[b].since
    /\ raced \subseteq raced'

\* Request c goes to a step with some data and some rows left; the others stay where they are.
Moves(c, s, r, t) ==
    /\ pc' = [pc EXCEPT ![c] = s] /\ req' = [req EXCEPT ![c] = r] /\ todo' = [todo EXCEPT ![c] = t]
    /\ s \in Steps
    /\ IF s = "idle" THEN r = <<>> /\ t = {} ELSE r \in Call' /\ t \in SUBSET Guests

OthersStay(c) ==
    \A d \in Requests \ {c} : pc'[d] = pc[d] /\ req'[d] = req[d] /\ todo'[d] = todo[d]

\* What a step of request c leaves behind.
GoodStep(c) == Grows /\ TypeOK' /\ RequestOK(c)' /\ OthersStay(c)

-----------------------------------------------------------------------------
\* A user is not the absence of one.
LEMMA UserFact == \A u \in User : u # NoUser
<1> SUFFICES ASSUME NEW u \in User, u = NoUser PROVE FALSE
  OBVIOUS
<1>1. "active" \in DOMAIN u
  BY DEF User
<1>2. "active" \notin DOMAIN NoUser
  BY DEF NoUser
<1> QED BY <1>1, <1>2

\* Types after the move of a request.
LEMMA MovedTypes ==
    ASSUME TypeOK, Grows, WorldOK', NEW c \in Requests, NEW s, NEW r, NEW t, Moves(c, s, r, t)
    PROVE  TypeOK' /\ pc'[c] = s /\ req'[c] = r /\ todo'[c] = t /\ OthersStay(c)
<1>1. Call \subseteq Call'
  BY DEF Call, Grows
<1>2. pc' \in [Requests -> Steps] /\ todo' \in [Requests -> SUBSET Guests]
  BY DEF TypeOK, Moves
<1>3. /\ pc'[c] = s /\ req'[c] = r /\ todo'[c] = t
      /\ \A d \in Requests \ {c} : pc'[d] = pc[d] /\ req'[d] = req[d] /\ todo'[d] = todo[d]
  BY DEF TypeOK, Moves
<1>4. req' \in [Requests -> Call' \cup {<<>>}]
  BY <1>1 DEF TypeOK, Moves
<1>5. \A d \in Requests :
        IF pc'[d] = "idle" THEN req'[d] = <<>> /\ todo'[d] = {} ELSE req'[d] \in Call'
  BY <1>1, <1>3 DEF TypeOK, Moves
<1> QED BY <1>2, <1>3, <1>4, <1>5 DEF TypeOK, WorldOK, OthersStay

\* A request that answers, or goes on with the next row.
LEMMA FinishMoves ==
    ASSUME TypeOK, NEW c \in Requests, RequestOK(c), pc[c] # "idle", Finish(c),
           DOMAIN invs = DOMAIN invs', DOMAIN reviews = DOMAIN reviews'
    PROVE  \/ req[c].op = "confirm" /\ Moves(c, "row", req[c], todo[c] \ {req[c].email})
           \/ req[c].op # "confirm" /\ Moves(c, "idle", <<>>, {})
<1>1. Call' = Call
  BY DEF Call
<1>2. req = [req EXCEPT ![c] = req[c]] /\ todo = [todo EXCEPT ![c] = todo[c]]
  BY DEF TypeOK
<1>3. todo[c] \in SUBSET Guests /\ req[c] \in Call
  BY DEF TypeOK
<1>4. CASE req[c].op = "confirm"
  BY <1>1, <1>2, <1>3, <1>4 DEF Finish, Moves, Goto
<1>5. CASE req[c].op # "confirm"
  <2>1. todo[c] = {}
    BY <1>5 DEF RequestOK
  <2> QED BY <2>1, <1>2, <1>5 DEF Finish, Moves, Goto, Close
<1> QED BY <1>4, <1>5

\* A step that writes nothing in the tables.
LEMMA QuietWorld ==
    ASSUME TypeOK, UNCHANGED <<users, invs, left, worldVars, reviews, sending, raced>>
    PROVE  Grows /\ WorldOK'
BY DEF TypeOK, WorldOK, Grows, worldVars

LEMMA FinishGood ==
    ASSUME TypeOK, NEW c \in Requests, RequestOK(c), pc[c] # "idle", Finish(c), Grows, WorldOK',
           DOMAIN invs = DOMAIN invs', DOMAIN reviews = DOMAIN reviews'
    PROVE  GoodStep(c) /\ pc'[c] \in {"idle", "row"}
<1>1. CASE req[c].op = "confirm" /\ Moves(c, "row", req[c], todo[c] \ {req[c].email})
  BY <1>1, MovedTypes DEF GoodStep, RequestOK
<1>2. CASE Moves(c, "idle", <<>>, {})
  BY <1>2, MovedTypes DEF GoodStep, RequestOK
<1> QED BY <1>1, <1>2, FinishMoves

\* A request that is no confirmation answers.
LEMMA CloseGood ==
    ASSUME TypeOK, NEW c \in Requests, RequestOK(c), pc[c] # "idle", Close(c), UNCHANGED todo,
           todo[c] = {}, Grows, WorldOK'
    PROVE  GoodStep(c) /\ pc'[c] = "idle"
<1>1. todo = [todo EXCEPT ![c] = {}]
  BY DEF TypeOK
<1>2. Moves(c, "idle", <<>>, {})
  BY <1>1 DEF Close, Goto, Moves
<1> QED BY <1>2, MovedTypes DEF GoodStep, RequestOK

LEMMA LookUserGood ==
    ASSUME TypeOK, NEW c \in Requests, RequestOK(c), LookUser(c) PROVE GoodStep(c)
<1>1. Grows /\ WorldOK' /\ Call = Call'
  BY QuietWorld DEF LookUser, Call
<1>2. CASE Finish(c)
  BY <1>1, <1>2, FinishGood DEF LookUser
<1>3. CASE Goto(c, "live") /\ UNCHANGED <<req, todo>>
  <2>1. Moves(c, "live", req[c], todo[c])
    BY <1>1, <1>3 DEF LookUser, Moves, Goto, TypeOK
  <2> QED BY <1>1, <2>1, MovedTypes DEF GoodStep, RequestOK, LookUser
<1> QED BY <1>2, <1>3 DEF LookUser

LEMMA LookLiveGood ==
    ASSUME TypeOK, NEW c \in Requests, RequestOK(c), LookLive(c) PROVE GoodStep(c)
<1>1. Grows /\ WorldOK' /\ Call = Call'
  BY QuietWorld DEF LookLive, Call
<1>2. CASE Finish(c)
  BY <1>1, <1>2, FinishGood DEF LookLive
<1>3. ASSUME NEW i \in LiveOrNone(req[c].email), req' = [req EXCEPT ![c].saw = i],
             Goto(c, "replace"), UNCHANGED todo
      PROVE  GoodStep(c)
  <2>1. i \in {0} \cup DOMAIN invs
    BY DEF LiveOrNone, Live
  <2>2. [req[c] EXCEPT !.saw = i] \in Call /\ [req[c] EXCEPT !.saw = i].op = req[c].op
    BY <2>1 DEF LookLive, TypeOK, Call
  <2>3. Moves(c, "replace", [req[c] EXCEPT !.saw = i], todo[c])
    BY <1>1, <1>3, <2>2 DEF LookLive, Moves, Goto, TypeOK
  <2>4. TypeOK' /\ OthersStay(c)
        /\ pc'[c] = "replace" /\ req'[c] = [req[c] EXCEPT !.saw = i] /\ todo'[c] = todo[c]
    BY <1>1, <2>3, MovedTypes
  <2>5. pc[c] = "live"
    BY DEF LookLive
  <2>6. RequestOK(c)'
    BY <2>2, <2>4, <2>5 DEF RequestOK
  <2> QED BY <1>1, <2>4, <2>6 DEF GoodStep
<1> QED BY <1>2, <1>3 DEF LookLive

\* The rows of invitations after a creation.
LEMMA ReplaceRows ==
    ASSUME TypeOK, NEW c \in Requests, Replace(c)
    PROVE  /\ invs' \in Seq(Invitation) /\ Len(invs') = Len(invs) + 1
           /\ DOMAIN invs = 1 .. Len(invs) /\ DOMAIN invs' = 1 .. Len(invs) + 1
           /\ \A i \in DOMAIN invs :
                 invs'[i] = IF i \in Revoked(c) THEN [invs[i] EXCEPT !.revoked = TRUE] ELSE invs[i]
           /\ invs'[Len(invs) + 1] = [client |-> req[c].client, email |-> req[c].email,
                 author |-> req[c].author, used |-> FALSE, revoked |-> FALSE, expired |-> FALSE]
<1> DEFINE old == [i \in DOMAIN invs |->
                      IF i \in Revoked(c) THEN [invs[i] EXCEPT !.revoked = TRUE] ELSE invs[i]]
           row == [client |-> req[c].client, email |-> req[c].email, author |-> req[c].author,
                   used |-> FALSE, revoked |-> FALSE, expired |-> FALSE]
<1>1. invs \in Seq(Invitation) /\ DOMAIN invs = 1 .. Len(invs) /\ Len(invs) \in Nat
  BY DEF TypeOK
<1>2. \A i \in 1 .. Len(invs) : invs[i] \in Invitation /\ [invs[i] EXCEPT !.revoked = TRUE] \in Invitation
  <2>1. \A i \in 1 .. Len(invs) : invs[i] \in Invitation
    BY <1>1
  <2>2. \A r \in Invitation : [r EXCEPT !.revoked = TRUE] \in Invitation
    BY DEF Invitation
  <2> QED BY <2>1, <2>2
<1>3. old = [i \in 1 .. Len(invs) |->
                IF i \in Revoked(c) THEN [invs[i] EXCEPT !.revoked = TRUE] ELSE invs[i]]
  BY <1>1
<1>4. old \in Seq(Invitation) /\ Len(old) = Len(invs)
  <2> HIDE DEF old
  <2>1. \A i \in 1 .. Len(invs) : old[i] \in Invitation
    BY <1>2, <1>3
  <2>2. old \in [1 .. Len(invs) -> Invitation]
    BY <1>3, <2>1
  <2> QED BY <1>1, <2>2, SeqDef
<1>5. row \in Invitation
  BY DEF Replace, TypeOK, Call, Invitation
<1>6. invs' = Append(old, row)
  BY DEF Replace
<1> HIDE DEF row
<1>7. \A i \in DOMAIN invs :
         old[i] = IF i \in Revoked(c) THEN [invs[i] EXCEPT !.revoked = TRUE] ELSE invs[i]
  OBVIOUS
<1> HIDE DEF old
<1>8. /\ invs' \in Seq(Invitation) /\ Len(invs') = Len(old) + 1
      /\ \A i \in 1 .. Len(old) : invs'[i] = old[i]
      /\ invs'[Len(old) + 1] = row
  BY <1>4, <1>5, <1>6, AppendProperties
<1> QED BY <1>1, <1>4, <1>7, <1>8 DEF row

LEMMA ReplaceGood ==
    ASSUME TypeOK, NEW c \in Requests, RequestOK(c), Replace(c) PROVE GoodStep(c)
<1>1. \A i \in DOMAIN invs :
         /\ invs'[i].client = invs[i].client /\ invs'[i].email = invs[i].email
         /\ (invs[i].used => invs'[i].used) /\ (invs[i].revoked => invs'[i].revoked)
         /\ (invs[i].expired => invs'[i].expired)
  <2>1. \A i \in DOMAIN invs : invs[i] \in Invitation
    BY DEF TypeOK
  <2> QED BY <2>1, ReplaceRows DEF Invitation
<1>2. DOMAIN invs \subseteq DOMAIN invs' /\ Len(invs) + 1 \in DOMAIN invs'
  <2>1. Len(invs) \in Nat
    BY DEF TypeOK
  <2>2. DOMAIN invs = 1 .. Len(invs) /\ DOMAIN invs' = 1 .. Len(invs) + 1
    BY ReplaceRows
  <2> QED BY <2>1, <2>2
<1>3. req[c] \in Call /\ raced' \subseteq Guests /\ raced \subseteq raced'
  BY DEF Replace, TypeOK, Call
<1>4. Grows /\ WorldOK'
  <2>1. Grows
    BY <1>1, <1>2, <1>3 DEF Grows, Replace, bulkVars
  <2> QED BY <2>1, <1>2, <1>3, ReplaceRows DEF WorldOK, TypeOK, Replace, worldVars, bulkVars
<1>5. Moves(c, "mail", [req[c] EXCEPT !.inv = Len(invs) + 1], todo[c])
  <2>1. [req[c] EXCEPT !.inv = Len(invs) + 1] \in Call'
    BY <1>2, <1>3 DEF Call, Replace, bulkVars
  <2> QED BY <2>1 DEF Replace, Moves, Goto, TypeOK
<1>6. [req[c] EXCEPT !.inv = Len(invs) + 1].inv # 0 /\ [req[c] EXCEPT !.inv = Len(invs) + 1].op = req[c].op
  <2>1. Len(invs) \in Nat
    BY DEF TypeOK
  <2> QED BY <2>1, <1>3 DEF Call
<1>7. TypeOK' /\ OthersStay(c) /\ pc'[c] = "mail" /\ todo'[c] = todo[c]
      /\ req'[c] = [req[c] EXCEPT !.inv = Len(invs) + 1]
  BY <1>4, <1>5, MovedTypes
<1>8. pc[c] = "replace"
  BY DEF Replace
<1>9. RequestOK(c)'
  BY <1>6, <1>7, <1>8 DEF RequestOK
<1> QED BY <1>4, <1>7, <1>9 DEF GoodStep

LEMMA MailGood ==
    ASSUME TypeOK, NEW c \in Requests, RequestOK(c), Mail(c) PROVE GoodStep(c)
<1>1. pc[c] = "mail" /\ req[c] \in Call /\ req[c].inv \in DOMAIN invs
  BY DEF Mail, TypeOK, RequestOK, Call
<1>2. Grows /\ WorldOK'
  BY <1>1 DEF Mail, Grows, WorldOK, TypeOK, worldVars, bulkVars
<1> QED BY <1>1, <1>2, FinishGood DEF Mail, bulkVars

LEMMA RequestFailsGood ==
    ASSUME TypeOK, NEW c \in Requests, RequestOK(c), RequestFails(c) PROVE GoodStep(c)
<1>1. Grows /\ WorldOK' /\ pc[c] # "idle"
  BY QuietWorld DEF RequestFails
<1> QED BY <1>1, FinishGood DEF RequestFails

\* A request of an administrator begins: what it knows is what its first step must find.
LEMMA StartGood ==
    ASSUME TypeOK, NEW c \in Requests, pc[c] = "idle", NEW s \in Steps, NEW r \in Call,
           Goto(c, s), req' = [req EXCEPT ![c] = r],
           UNCHANGED <<users, invs, left, worldVars, bulkVars, todo, raced>>,
           s \in {"user", "replace", "deactivate", "lock"},
           s = "deactivate" => r.op = "deactivate" /\ users[r.email] # NoUser,
           s = "lock" => r.op = "accept" /\ r.inv # 0 /\ invs[r.inv].client = r.client
                         /\ invs[r.inv].email = r.email
    PROVE  GoodStep(c)
<1>1. Grows /\ WorldOK' /\ Call = Call'
  BY QuietWorld DEF bulkVars, Call
<1>2. todo[c] = {} /\ todo = [todo EXCEPT ![c] = {}]
  BY DEF TypeOK
<1>3. Moves(c, s, r, {})
  BY <1>1, <1>2 DEF Moves, Goto, TypeOK
<1>4. TypeOK' /\ OthersStay(c) /\ pc'[c] = s /\ req'[c] = r /\ todo'[c] = {}
  BY <1>1, <1>3, MovedTypes
<1>5. RequestOK(c)'
  BY <1>4 DEF RequestOK
<1> QED BY <1>1, <1>4, <1>5 DEF GoodStep

LEMMA InvitationFact ==
    ASSUME TypeOK, NEW i \in DOMAIN invs
    PROVE  /\ invs[i] \in Invitation /\ i \in Nat /\ i # 0
           /\ invs[i].client \in Clients /\ invs[i].email \in Guests /\ invs[i].author \in Authors
<1>1. invs[i] \in Invitation /\ i \in Nat /\ i # 0
  BY DEF TypeOK
<1> QED BY <1>1 DEF Invitation

LEMMA AskGood ==
    ASSUME TypeOK, NEW c \in Requests, StartInvite(c) \/ StartResend(c) \/ StartAccept(c) \/ StartDeactivate(c)
    PROVE  GoodStep(c)
<1>1. CASE StartInvite(c)
  <2>1. PICK a \in working, g \in Guests :
           Of[a] # Staff /\ req' = [req EXCEPT ![c] = NewRequest("invite", Of[a], g, a, 0)]
    BY <1>1 DEF StartInvite
  <2>2. NewRequest("invite", Of[a], g, a, 0) \in Call
    BY <2>1, PortalAssumption DEF NewRequest, Call, TypeOK
  <2> QED BY <1>1, <2>1, <2>2, StartGood DEF StartInvite
<1>2. CASE StartResend(c)
  <2>1. PICK i \in DOMAIN invs :
           req' = [req EXCEPT ![c] = [NewRequest("resend", invs[i].client, invs[i].email,
                                                 invs[i].author, 0) EXCEPT !.saw = i]]
    BY <1>2 DEF StartResend
  <2>2. [NewRequest("resend", invs[i].client, invs[i].email, invs[i].author, 0) EXCEPT !.saw = i] \in Call
    BY InvitationFact DEF NewRequest, Call
  <2> QED BY <1>2, <2>1, <2>2, StartGood DEF StartResend
<1>3. CASE StartAccept(c)
  <2>1. PICK i \in left :
           req' = [req EXCEPT ![c] = NewRequest("accept", invs[i].client, invs[i].email, invs[i].author, i)]
    BY <1>3 DEF StartAccept
  <2>2. i \in DOMAIN invs
    BY DEF TypeOK
  <2> DEFINE r == NewRequest("accept", invs[i].client, invs[i].email, invs[i].author, i)
  <2>3. r \in Call /\ r.op = "accept" /\ r.inv = i /\ r.client = invs[i].client /\ r.email = invs[i].email
    BY <2>2, InvitationFact DEF NewRequest, Call
  <2>4. r.inv # 0
    BY <2>2, <2>3, InvitationFact
  <2> HIDE DEF r
  <2>5. req' = [req EXCEPT ![c] = r]
    BY <2>1 DEF r
  <2> QED BY <1>3, <2>3, <2>4, <2>5, StartGood DEF StartAccept
<1>4. CASE StartDeactivate(c)
  <2>1. PICK a \in working, g \in Guests :
           /\ users[g] # NoUser /\ users[g].client = Of[a]
           /\ req' = [req EXCEPT ![c] = NewRequest("deactivate", Of[a], g, a, 0)]
    BY <1>4 DEF StartDeactivate
  <2>2. users[g] \in User
    BY <2>1 DEF TypeOK
  <2>3. Of[a] \in Clients
    BY <2>1, <2>2 DEF User
  <2> DEFINE r == NewRequest("deactivate", Of[a], g, a, 0)
  <2>4. r \in Call /\ r.op = "deactivate" /\ r.email = g
    BY <2>3 DEF NewRequest, Call, TypeOK
  <2> HIDE DEF r
  <2>5. req' = [req EXCEPT ![c] = r]
    BY <2>1 DEF r
  <2> QED BY <1>4, <2>1, <2>4, <2>5, StartGood DEF StartDeactivate
<1> QED BY <1>1, <1>2, <1>3, <1>4

\* The requests that hold no block, and answer at most once more, have no rows left.
LEMMA NoRows ==
    ASSUME NEW c \in Requests, RequestOK(c), pc[c] \in {"lock", "checks", "grant", "deactivate"}
    PROVE  todo[c] = {}
BY DEF RequestOK

LEMMA LockGood ==
    ASSUME TypeOK, NEW c \in Requests, RequestOK(c), Lock(c) PROVE GoodStep(c)
<1>1. Grows /\ WorldOK' /\ Call' = Call /\ pc[c] = "lock" /\ todo[c] = {}
  BY QuietWorld, NoRows DEF Lock, bulkVars, Call
<1>2. CASE Close(c)
  BY <1>1, <1>2, CloseGood DEF Lock
<1>3. CASE Goto(c, "checks") /\ UNCHANGED req /\ ~invs[req[c].inv].used /\ ~invs[req[c].inv].revoked
  <2>1. Moves(c, "checks", req[c], todo[c])
    BY <1>1, <1>3 DEF Lock, Moves, Goto, TypeOK
  <2>2. TypeOK' /\ OthersStay(c) /\ pc'[c] = "checks" /\ req'[c] = req[c] /\ todo'[c] = todo[c]
    BY <1>1, <2>1, MovedTypes
  <2>3. RequestOK(c)'
    BY <1>1, <1>3, <2>2 DEF RequestOK, Lock
  <2> QED BY <1>1, <2>2, <2>3 DEF GoodStep
<1> QED BY <1>2, <1>3 DEF Lock

LEMMA CheckAcceptGood ==
    ASSUME TypeOK, NEW c \in Requests, RequestOK(c), CheckAccept(c) PROVE GoodStep(c)
<1> DEFINE u == users[req[c].email]
           seen == IF u = NoUser THEN 0 ELSE 1
<1>1. Grows /\ WorldOK' /\ Call' = Call /\ pc[c] = "checks" /\ todo[c] = {}
  BY QuietWorld, NoRows DEF CheckAccept, bulkVars, Call
<1>2. CASE Close(c)
  BY <1>1, <1>2, CloseGood DEF CheckAccept
<1>3. CASE /\ u = NoUser \/ AdmiteReinvitacion(u, req[c].client)
           /\ req' = [req EXCEPT ![c].saw = seen] /\ Goto(c, "grant")
  <2> DEFINE r == [req[c] EXCEPT !.saw = seen]
  <2>1. req[c] \in Call /\ 1 \in DOMAIN invs
    <3>1. req[c] \in Call /\ req[c].inv \in DOMAIN invs
      BY <1>1 DEF TypeOK, RequestOK, Call
    <3>2. DOMAIN invs = 1 .. Len(invs) /\ Len(invs) \in Nat
      BY DEF TypeOK
    <3> QED BY <3>1, <3>2
  <2>2. /\ r \in Call /\ r.op = req[c].op /\ r.inv = req[c].inv /\ r.client = req[c].client
        /\ r.email = req[c].email /\ r.saw = seen
    BY <2>1 DEF Call
  <2>3. req' = [req EXCEPT ![c] = r]
    BY <1>3
  <2> HIDE DEF r
  <2>4. Moves(c, "grant", r, todo[c])
    BY <1>1, <1>3, <2>2, <2>3 DEF CheckAccept, Moves, Goto, TypeOK
  <2>5. TypeOK' /\ OthersStay(c) /\ pc'[c] = "grant" /\ req'[c] = r /\ todo'[c] = todo[c]
    BY <1>1, <2>4, MovedTypes
  <2>6. seen # 0 => u # NoUser /\ u.client = req[c].client
    BY <1>3 DEF AdmiteReinvitacion
  <2> HIDE DEF seen
  <2>7. RequestOK(c)'
    BY <1>1, <2>2, <2>5, <2>6 DEF RequestOK, CheckAccept
  <2> QED BY <1>1, <2>5, <2>7 DEF GoodStep
<1> QED BY <1>2, <1>3 DEF CheckAccept

\* What accept writes is a user of the company that invited, and keeps the company of one there was.
LEMMA GrantedFact ==
    ASSUME TypeOK, NEW c \in Requests, RequestOK(c), pc[c] = "grant",
           req[c].saw = 0 => KeyIsFree(req[c].email)
    PROVE  /\ Granted(c) \in User /\ Granted(c).client = req[c].client
           /\ users[req[c].email] # NoUser => users[req[c].email].client = req[c].client
<1>1. req[c] \in Call /\ req[c].email \in Guests /\ req[c].client \in Clients
  BY DEF TypeOK, Call
<1>2. CASE req[c].saw = 0
  <2>1. users[req[c].email] = NoUser
    BY <1>2 DEF KeyIsFree
  <2> QED BY <1>1, <1>2, <2>1 DEF Granted, User
<1>3. CASE req[c].saw # 0
  <2>1. users[req[c].email] \in User /\ users[req[c].email].client = req[c].client
    BY <1>1, <1>3 DEF TypeOK, RequestOK
  <2>2. Granted(c) = [users[req[c].email] EXCEPT !.active = TRUE]
    BY <1>3 DEF Granted
  <2> QED BY <2>1, <2>2 DEF User
<1> QED BY <1>2, <1>3

\* Changing one field of an invitation that is there.
LEMMA MarkedRow ==
    ASSUME TypeOK, NEW i \in DOMAIN invs, NEW row \in Invitation, row.client = invs[i].client,
           row.email = invs[i].email, invs[i].used => row.used, invs[i].revoked => row.revoked,
           invs[i].expired => row.expired, invs' = [invs EXCEPT ![i] = row], UNCHANGED reviews,
           raced \subseteq raced', \A g \in Guests : users[g] # NoUser =>
              users'[g] # NoUser /\ users'[g].client = users[g].client
    PROVE  Grows /\ invs' \in Seq(Invitation) /\ DOMAIN invs' = DOMAIN invs
<1>1. invs' \in Seq(Invitation) /\ DOMAIN invs' = DOMAIN invs
  BY ExceptSeq DEF TypeOK
<1>2. \A j \in DOMAIN invs : invs'[j] = IF j = i THEN row ELSE invs[j]
  OBVIOUS
<1> QED BY <1>1, <1>2 DEF Grows

LEMMA GrantGood ==
    ASSUME TypeOK, NEW c \in Requests, RequestOK(c), Grant(c) PROVE GoodStep(c)
<1>1. /\ pc[c] = "grant" /\ todo[c] = {} /\ req[c] \in Call /\ req[c].inv \in DOMAIN invs
      /\ req[c].email \in Guests
  BY NoRows DEF Grant, TypeOK, RequestOK, Call
<1>2. CASE UNCHANGED <<users, invs>>
  <2>1. Grows /\ WorldOK'
    BY <1>2, QuietWorld DEF Grant, bulkVars
  <2> QED BY <1>1, <2>1, CloseGood DEF Grant
<1>3. CASE /\ req[c].saw = 0 => KeyIsFree(req[c].email)
           /\ users' = [users EXCEPT ![req[c].email] = Granted(c)]
           /\ invs' = [invs EXCEPT ![req[c].inv].used = TRUE]
  <2>1. /\ Granted(c) \in User /\ Granted(c).client = req[c].client
        /\ users[req[c].email] # NoUser => users[req[c].email].client = req[c].client
    BY <1>1, <1>3, GrantedFact
  <2>2. \A g \in Guests : users[g] # NoUser => users'[g] # NoUser /\ users'[g].client = users[g].client
    BY <1>1, <1>3, <2>1, UserFact DEF TypeOK
  <2>3. users' \in [Guests -> User \cup {NoUser}]
    BY <1>3, <2>1 DEF TypeOK
  <2> DEFINE row == [invs[req[c].inv] EXCEPT !.used = TRUE]
  <2>4. /\ row \in Invitation /\ row.client = invs[req[c].inv].client /\ row.email = invs[req[c].inv].email
        /\ row.used /\ row.revoked = invs[req[c].inv].revoked /\ row.expired = invs[req[c].inv].expired
    BY <1>1, InvitationFact DEF Invitation
  <2>5. invs' = [invs EXCEPT ![req[c].inv] = row]
    BY <1>3
  <2> HIDE DEF row
  <2>6. Grows /\ invs' \in Seq(Invitation) /\ DOMAIN invs' = DOMAIN invs
    BY <1>1, <2>2, <2>4, <2>5, MarkedRow DEF Grant, bulkVars
  <2>7. WorldOK'
    BY <2>3, <2>6 DEF WorldOK, TypeOK, Grant, bulkVars, worldVars
  <2> QED BY <1>1, <2>6, <2>7, CloseGood DEF Grant
<1> QED BY <1>2, <1>3 DEF Grant

\* Editing one user, without changing the company.
LEMMA EditedUser ==
    ASSUME TypeOK, NEW g \in Guests, NEW u \in User, users[g] # NoUser => users[g].client = u.client,
           users' = [users EXCEPT ![g] = u],
           UNCHANGED <<invs, left, worldVars, bulkVars, raced>>
    PROVE  Grows /\ WorldOK'
<1>1. \A h \in Guests : users[h] # NoUser => users'[h] # NoUser /\ users'[h].client = users[h].client
  BY UserFact DEF TypeOK
<1>2. users' \in [Guests -> User \cup {NoUser}]
  BY DEF TypeOK
<1> QED BY <1>1, <1>2 DEF Grows, WorldOK, TypeOK, worldVars, bulkVars

LEMMA DeactivateGood ==
    ASSUME TypeOK, NEW c \in Requests, RequestOK(c), Deactivate(c) PROVE GoodStep(c)
<1>1. pc[c] = "deactivate" /\ todo[c] = {} /\ req[c].email \in Guests /\ users[req[c].email] \in User
  BY NoRows DEF Deactivate, TypeOK, RequestOK, Call
<1>2. /\ [users[req[c].email] EXCEPT !.active = FALSE] \in User
      /\ [users[req[c].email] EXCEPT !.active = FALSE].client = users[req[c].email].client
  BY <1>1 DEF User
<1>3. users' = [users EXCEPT ![req[c].email] = [users[req[c].email] EXCEPT !.active = FALSE]]
  BY DEF Deactivate
<1>4. Grows /\ WorldOK'
  BY <1>1, <1>2, <1>3, EditedUser DEF Deactivate
<1> QED BY <1>1, <1>4, CloseGood DEF Deactivate

-----------------------------------------------------------------------------
LEMMA ConfirmGood ==
    ASSUME TypeOK, NEW c \in Requests, StartConfirm(c) PROVE GoodStep(c)
<1>1. PICK b \in DOMAIN reviews, a \in working :
         /\ sending' = sending \cup {b}
         /\ req' = [req EXCEPT ![c] = [NewRequest("confirm", reviews[b].client,
                        CHOOSE g \in reviews[b].rows : TRUE, a, 0) EXCEPT !.block = b]]
         /\ todo' = [todo EXCEPT ![c] = reviews[b].rows]
  BY DEF StartConfirm
<1>2. reviews[b] \in Block
  BY DEF TypeOK
<1>3. reviews[b].client \in Clients /\ reviews[b].rows \subseteq Guests /\ reviews[b].rows # {}
  BY <1>2 DEF Block
<1> DEFINE first == CHOOSE g \in reviews[b].rows : TRUE
           r == [NewRequest("confirm", reviews[b].client, first, a, 0) EXCEPT !.block = b]
<1>4. first \in Guests /\ a \in Authors
  BY <1>3 DEF TypeOK
<1> HIDE DEF first
<1>5. r \in Call /\ r.op = "confirm"
  BY <1>3, <1>4 DEF NewRequest, Call
<1>6. req' = [req EXCEPT ![c] = r]
  BY <1>1 DEF first
<1> HIDE DEF r
<1>7. Grows /\ WorldOK' /\ Call' = Call
  BY <1>1 DEF StartConfirm, Grows, WorldOK, TypeOK, worldVars, Call
<1>8. Moves(c, "row", r, reviews[b].rows)
  BY <1>1, <1>3, <1>5, <1>6, <1>7 DEF StartConfirm, Moves, Goto
<1>9. TypeOK' /\ OthersStay(c) /\ pc'[c] = "row" /\ req'[c] = r
  BY <1>7, <1>8, MovedTypes
<1> QED BY <1>5, <1>7, <1>9 DEF GoodStep, RequestOK

LEMMA RowGood ==
    ASSUME TypeOK, NEW c \in Requests, RequestOK(c), Row(c) PROVE GoodStep(c)
<1>1. PICK g \in todo[c] :
         /\ req' = [req EXCEPT ![c].email = g, ![c].inv = 0, ![c].saw = 0]
         /\ \/ Goto(c, "fresh") /\ UNCHANGED todo
            \/ todo' = [todo EXCEPT ![c] = @ \ {g}] /\ UNCHANGED pc
  BY DEF Row
<1> DEFINE r == [req[c] EXCEPT !.email = g, !.inv = 0, !.saw = 0]
<1>2. pc[c] = "row" /\ req[c] \in Call /\ req[c].op = "confirm" /\ g \in Guests
  BY DEF Row, TypeOK, RequestOK
<1>3. r \in Call /\ r.op = "confirm"
  BY <1>2 DEF Call
<1>4. req' = [req EXCEPT ![c] = r]
  BY <1>1
<1> HIDE DEF r
<1>5. Grows /\ WorldOK' /\ Call' = Call
  BY QuietWorld DEF Row, Call
<1>6. CASE Goto(c, "fresh") /\ UNCHANGED todo
  <2>1. Moves(c, "fresh", r, todo[c])
    BY <1>3, <1>4, <1>5, <1>6 DEF Moves, Goto, TypeOK
  <2>2. TypeOK' /\ OthersStay(c) /\ pc'[c] = "fresh" /\ req'[c] = r
    BY <1>5, <2>1, MovedTypes
  <2> QED BY <1>3, <1>5, <2>2 DEF GoodStep, RequestOK
<1>7. CASE todo' = [todo EXCEPT ![c] = @ \ {g}] /\ UNCHANGED pc
  <2>1. pc' = [pc EXCEPT ![c] = "row"] /\ todo[c] \ {g} \in SUBSET Guests
    BY <1>2, <1>7 DEF TypeOK
  <2>2. Moves(c, "row", r, todo[c] \ {g})
    BY <1>3, <1>4, <1>5, <1>7, <2>1 DEF Moves
  <2>3. TypeOK' /\ OthersStay(c) /\ pc'[c] = "row" /\ req'[c] = r
    BY <1>5, <2>2, MovedTypes
  <2> QED BY <1>3, <1>5, <2>3 DEF GoodStep, RequestOK
<1> QED BY <1>1, <1>6, <1>7

LEMMA LookFreshGood ==
    ASSUME TypeOK, NEW c \in Requests, RequestOK(c), LookFresh(c) PROVE GoodStep(c)
<1>1. Grows /\ WorldOK' /\ Call' = Call /\ pc[c] = "fresh" /\ req[c].op = "confirm" /\ req[c] \in Call
  BY QuietWorld DEF LookFresh, Call, RequestOK, TypeOK
<1>2. CASE Finish(c)
  BY <1>1, <1>2, FinishGood DEF LookFresh
<1>3. CASE Goto(c, "user") /\ UNCHANGED <<req, todo>>
  <2>1. Moves(c, "user", req[c], todo[c])
    BY <1>1, <1>3 DEF Moves, Goto, TypeOK
  <2>2. TypeOK' /\ OthersStay(c) /\ pc'[c] = "user" /\ req'[c] = req[c]
    BY <1>1, <2>1, MovedTypes
  <2> QED BY <1>1, <2>2 DEF GoodStep, RequestOK
<1> QED BY <1>2, <1>3 DEF LookFresh

LEMMA EndConfirmGood ==
    ASSUME TypeOK, NEW c \in Requests, RequestOK(c), EndConfirm(c) PROVE GoodStep(c)
<1>1. Grows /\ WorldOK'
  BY DEF EndConfirm, Grows, WorldOK, TypeOK, worldVars, Released
<1> QED BY <1>1, CloseGood DEF EndConfirm

-----------------------------------------------------------------------------
(* The invariant: what every request knows holds, whoever else moves.        *)

Holding(c) == pc[c] \in {"checks", "grant"}
OneHolder == \A c, d \in Requests : Holding(c) /\ Holding(d) /\ req[c].inv = req[d].inv => c = d

IInv ==
    /\ TypeOK
    /\ \A c \in Requests : RequestOK(c)
    /\ OneHolder
    /\ RevokedIsNeverUsed
    /\ AcceptedAtHome

\* Nobody ends the invitation that an accept holds.
Spares(d) == Holding(d) => /\ invs'[req[d].inv].used = invs[req[d].inv].used
                           /\ invs'[req[d].inv].revoked = invs[req[d].inv].revoked

LEMMA StayOK ==
    ASSUME TypeOK, NEW d \in Requests, RequestOK(d), Grows, Spares(d),
           pc'[d] = pc[d], req'[d] = req[d], todo'[d] = todo[d]
    PROVE  RequestOK(d)'
<1>1. pc[d] # "idle" => req[d] \in Call
  BY DEF TypeOK
<1>2. pc[d] = "deactivate" => users'[req[d].email] # NoUser
  BY <1>1 DEF RequestOK, Grows, Call
<1>3. pc[d] = "grant" /\ req[d].saw # 0 =>
         users'[req[d].email] # NoUser /\ users'[req[d].email].client = req[d].client
  BY <1>1 DEF RequestOK, Grows, Call
<1>4. pc[d] \in {"lock", "checks", "grant"} =>
         invs'[req[d].inv].client = req[d].client /\ invs'[req[d].inv].email = req[d].email
  BY <1>1 DEF RequestOK, Grows, Call
<1>5. pc[d] \in {"checks", "grant"} => ~invs'[req[d].inv].used /\ ~invs'[req[d].inv].revoked
  BY DEF RequestOK, Spares, Holding
<1> QED BY <1>2, <1>3, <1>4, <1>5 DEF RequestOK

\* A step that ends or grants no invitation keeps what is said of all of them.
LEMMA RowsStay ==
    ASSUME TypeOK, Grows, RevokedIsNeverUsed, AcceptedAtHome, DOMAIN invs' = DOMAIN invs,
           \A i \in DOMAIN invs : invs'[i].used = invs[i].used /\ invs'[i].revoked = invs[i].revoked
    PROVE  RevokedIsNeverUsed' /\ AcceptedAtHome'
<1>1. RevokedIsNeverUsed'
  BY DEF RevokedIsNeverUsed
<1>2. ASSUME NEW i \in DOMAIN invs', invs'[i].used
      PROVE  users'[invs'[i].email] # NoUser /\ users'[invs'[i].email].client = invs'[i].client
  <2>1. invs[i].used /\ invs'[i].email = invs[i].email /\ invs'[i].client = invs[i].client
        /\ invs[i].email \in Guests
    BY <1>2, InvitationFact DEF Grows
  <2> QED BY <2>1 DEF AcceptedAtHome, Grows
<1> QED BY <1>1, <1>2 DEF AcceptedAtHome

\* A step of request c, when it spares what the others hold.
LEMMA MoverInv ==
    ASSUME IInv, NEW c \in Requests, GoodStep(c), \A d \in Requests \ {c} : Spares(d),
           ~Holding(c)' \/ (Holding(c) /\ req'[c].inv = req[c].inv)
              \/ (pc[c] = "lock" /\ LockedBy(req[c].inv) = {} /\ req'[c].inv = req[c].inv),
           RevokedIsNeverUsed' /\ AcceptedAtHome'
    PROVE  IInv'
<1>1. \A d \in Requests : RequestOK(d)'
  BY StayOK DEF GoodStep, OthersStay, IInv
<1>2. \A d \in Requests \ {c} : Holding(d)' => Holding(d) /\ req'[d] = req[d]
  BY DEF GoodStep, OthersStay, Holding
<1>3. OneHolder'
  <2>1. CASE ~Holding(c)'
    BY <1>2, <2>1 DEF OneHolder, IInv
  <2>2. CASE Holding(c) /\ req'[c].inv = req[c].inv
    BY <1>2, <2>2 DEF OneHolder, IInv
  <2>3. CASE pc[c] = "lock" /\ LockedBy(req[c].inv) = {} /\ req'[c].inv = req[c].inv
    BY <1>2, <2>3 DEF OneHolder, IInv, LockedBy, Holding
  <2> QED BY <2>1, <2>2, <2>3
<1> QED BY <1>1, <1>3 DEF IInv, GoodStep

\* The steps of a request that leave the invitations as they are.
LEMMA QuietInv ==
    ASSUME IInv, NEW c \in Requests, GoodStep(c), UNCHANGED invs,
           ~Holding(c)' \/ (Holding(c) /\ req'[c].inv = req[c].inv)
              \/ (pc[c] = "lock" /\ LockedBy(req[c].inv) = {} /\ req'[c].inv = req[c].inv)
    PROVE  IInv'
<1>1. \A d \in Requests : Spares(d)
  BY DEF Spares
<1>2. RevokedIsNeverUsed' /\ AcceptedAtHome'
  BY RowsStay DEF IInv, GoodStep
<1> QED BY <1>1, <1>2, MoverInv

LEMMA ReplaceInv ==
    ASSUME IInv, NEW c \in Requests, Replace(c) PROVE IInv'
<1>1. TypeOK /\ RequestOK(c) /\ GoodStep(c)
  BY ReplaceGood DEF IInv
<1>2. /\ DOMAIN invs = 1 .. Len(invs) /\ DOMAIN invs' = 1 .. Len(invs) + 1 /\ Len(invs) \in Nat
      /\ \A i \in DOMAIN invs :
            invs'[i] = IF i \in Revoked(c) THEN [invs[i] EXCEPT !.revoked = TRUE] ELSE invs[i]
      /\ ~invs'[Len(invs) + 1].used
  <2>1. Len(invs) \in Nat
    BY <1>1 DEF TypeOK
  <2>2. invs'[Len(invs) + 1] = [client |-> req[c].client, email |-> req[c].email,
           author |-> req[c].author, used |-> FALSE, revoked |-> FALSE, expired |-> FALSE]
    BY <1>1, ReplaceRows, Zenon
  <2>3. ~invs'[Len(invs) + 1].used
    BY <2>2
  <2> QED BY <1>1, <2>1, <2>3, ReplaceRows, Zenon
<1>3. \A i \in DOMAIN invs : /\ invs'[i].used = invs[i].used
                             /\ i \notin Revoked(c) => invs'[i].revoked = invs[i].revoked
                             /\ i \in Revoked(c) => ~invs[i].used /\ LockedBy(i) = {}
  <2>1. \A i \in DOMAIN invs : invs[i] \in Invitation
    BY <1>1, InvitationFact
  <2>2. \A i \in DOMAIN invs : invs'[i].used = invs[i].used
    BY <1>2, <2>1 DEF Invitation
  <2>3. \A i \in Revoked(c) : ~invs[i].used /\ LockedBy(i) = {}
    BY DEF Revoked, Replace
  <2> QED BY <1>2, <2>2, <2>3
<1>4. ASSUME NEW d \in Requests \ {c} PROVE Spares(d)
  <2>1. Holding(d) => req[d].inv \in DOMAIN invs /\ d \in LockedBy(req[d].inv)
    BY DEF IInv, RequestOK, Holding, TypeOK, Call, LockedBy
  <2> QED BY <1>3, <2>1 DEF Spares
<1>5. \A i \in DOMAIN invs' : i \in DOMAIN invs \/ i = Len(invs) + 1
  BY <1>2
<1>6. RevokedIsNeverUsed'
  BY <1>2, <1>3, <1>5 DEF RevokedIsNeverUsed, IInv
<1>7. AcceptedAtHome'
  <2>1. ASSUME NEW i \in DOMAIN invs', invs'[i].used
        PROVE  users'[invs'[i].email] # NoUser /\ users'[invs'[i].email].client = invs'[i].client
    <3>1. i \in DOMAIN invs /\ invs[i].used
      BY <1>2, <1>3, <1>5, <2>1
    <3>2. invs'[i].email = invs[i].email /\ invs'[i].client = invs[i].client /\ invs[i].email \in Guests
      BY <1>1, <3>1, InvitationFact DEF GoodStep, Grows
    <3> QED BY <1>1, <3>1, <3>2 DEF AcceptedAtHome, GoodStep, Grows, IInv
  <2> QED BY <2>1 DEF AcceptedAtHome
<1>8. ~Holding(c)'
  BY <1>1 DEF Replace, Holding, Goto, TypeOK
<1> QED BY <1>1, <1>4, <1>6, <1>7, <1>8, MoverInv

LEMMA GrantInv ==
    ASSUME IInv, NEW c \in Requests, Grant(c) PROVE IInv'
<1>1. TypeOK /\ RequestOK(c) /\ GoodStep(c) /\ pc[c] = "grant" /\ req[c] \in Call
      /\ req[c].inv \in DOMAIN invs /\ req[c].email \in Guests
  BY GrantGood DEF IInv, Grant, TypeOK, Call, RequestOK
<1>2. ~Holding(c)'
  BY <1>1 DEF Grant, Close, Goto, Holding, TypeOK
<1>3. CASE UNCHANGED <<users, invs>>
  BY <1>1, <1>2, <1>3, QuietInv
<1>4. CASE /\ req[c].saw = 0 => KeyIsFree(req[c].email)
           /\ users' = [users EXCEPT ![req[c].email] = Granted(c)]
           /\ invs' = [invs EXCEPT ![req[c].inv].used = TRUE]
  <2>1. DOMAIN invs' = DOMAIN invs /\ \A i \in DOMAIN invs \ {req[c].inv} : invs'[i] = invs[i]
    BY <1>4
  <2>2. ASSUME NEW d \in Requests \ {c} PROVE Spares(d)
    <3>1. Holding(d) => req[d].inv \in DOMAIN invs \ {req[c].inv}
      BY <1>1 DEF IInv, OneHolder, RequestOK, Holding, TypeOK, Call
    <3> QED BY <2>1, <3>1 DEF Spares
  <2>3. invs'[req[c].inv].revoked = invs[req[c].inv].revoked /\ ~invs[req[c].inv].revoked
    <3>1. invs[req[c].inv] \in Invitation
      BY <1>1, InvitationFact
    <3>2. invs'[req[c].inv] = [invs[req[c].inv] EXCEPT !.used = TRUE]
      BY <1>1, <1>4
    <3> QED BY <1>1, <3>1, <3>2 DEF Invitation, RequestOK
  <2>4. RevokedIsNeverUsed'
    BY <1>1, <2>1, <2>3 DEF RevokedIsNeverUsed, IInv
  <2>5. users'[req[c].email] # NoUser /\ users'[req[c].email].client = req[c].client
    BY <1>1, <1>4, GrantedFact, UserFact DEF TypeOK
  <2>6. ASSUME NEW i \in DOMAIN invs', invs'[i].used
        PROVE  users'[invs'[i].email] # NoUser /\ users'[invs'[i].email].client = invs'[i].client
    <3>1. invs'[i].email = invs[i].email /\ invs'[i].client = invs[i].client /\ invs[i].email \in Guests
      BY <1>1, <2>1, InvitationFact DEF GoodStep, Grows
    <3>2. CASE i = req[c].inv
      BY <1>1, <2>5, <3>1, <3>2 DEF RequestOK
    <3>3. CASE i # req[c].inv
      <4>1. invs[i].used
        BY <2>1, <2>6, <3>3
      <4> QED BY <1>1, <2>1, <3>1, <4>1 DEF AcceptedAtHome, GoodStep, Grows, IInv
    <3> QED BY <3>2, <3>3
  <2>7. AcceptedAtHome'
    BY <2>6 DEF AcceptedAtHome
  <2> QED BY <1>1, <1>2, <2>2, <2>4, <2>7, MoverInv
<1> QED BY <1>3, <1>4 DEF Grant

\* The steps of the panel, the clock and the reviews.
LEMMA WorldInv ==
    ASSUME IInv, Grows, WorldOK', UNCHANGED requestVars, DOMAIN invs' = DOMAIN invs,
           \A i \in DOMAIN invs : invs'[i].used = invs[i].used /\ invs'[i].revoked = invs[i].revoked
    PROVE  IInv'
<1>1. \A d \in Requests : Spares(d)
  BY DEF Spares, Holding, IInv, RequestOK, TypeOK, Call
<1>2. \A d \in Requests : RequestOK(d)'
  BY <1>1, StayOK DEF IInv, requestVars
<1>3. Call \subseteq Call'
  BY DEF Call, Grows
<1>4. TypeOK'
  <2>1. pc' = pc /\ req' = req /\ todo' = todo
    BY DEF requestVars
  <2> QED BY <1>3, <2>1 DEF TypeOK, WorldOK, IInv
<1>5. OneHolder'
  BY DEF OneHolder, Holding, requestVars, IInv
<1> QED BY <1>2, <1>4, <1>5, RowsStay DEF IInv

LEMMA ReviewInv == ASSUME IInv, Review
    PROVE  IInv' /\ Grows /\ DOMAIN invs' = DOMAIN invs
<1>1. PICK client \in Clients \ former, rows \in (SUBSET Guests) \ {{}},
           since \in Len(invs) - 1 .. Len(invs) :
         since >= 0 /\ reviews' = Append(reviews, [client |-> client, rows |-> rows, since |-> since,
                                                  expired |-> FALSE])
  BY DEF Review
<1> DEFINE block == [client |-> client, rows |-> rows, since |-> since, expired |-> FALSE]
<1>2. block \in Block
  <2>1. Len(invs) \in Nat
    BY DEF IInv, TypeOK
  <2> QED BY <1>1, <2>1 DEF Block
<1>3. reviews \in Seq(Block) /\ reviews' = Append(reviews, block)
  BY <1>1 DEF IInv, TypeOK
<1> HIDE DEF block
<1>4. /\ reviews' \in Seq(Block) /\ Len(reviews') = Len(reviews) + 1
      /\ \A b \in 1 .. Len(reviews) : reviews'[b] = reviews[b]
      /\ Len(reviews) \in Nat
  BY <1>2, <1>3, AppendProperties
<1>5. DOMAIN reviews = 1 .. Len(reviews) /\ DOMAIN reviews' = 1 .. Len(reviews')
  BY <1>3, <1>4
<1>6. Grows /\ WorldOK'
  BY <1>4, <1>5 DEF Grows, WorldOK, IInv, TypeOK, Review, worldVars
<1> QED BY <1>6, WorldInv DEF Review

LEMMA ExpiryInv == ASSUME IInv, Expire \/ ReviewExpires
    PROVE  IInv' /\ Grows /\ DOMAIN invs' = DOMAIN invs
<1>1. CASE Expire
  <2>1. PICK i \in DOMAIN invs : invs' = [invs EXCEPT ![i].expired = TRUE]
    BY <1>1 DEF Expire
  <2> DEFINE row == [invs[i] EXCEPT !.expired = TRUE]
  <2>2. TypeOK /\ invs[i] \in Invitation
    BY InvitationFact DEF IInv
  <2>3. /\ row \in Invitation /\ row.client = invs[i].client /\ row.email = invs[i].email
        /\ row.used = invs[i].used /\ row.revoked = invs[i].revoked /\ row.expired
    BY <2>2 DEF Invitation
  <2>4. invs' = [invs EXCEPT ![i] = row]
    BY <2>1
  <2> HIDE DEF row
  <2>5. Grows /\ invs' \in Seq(Invitation) /\ DOMAIN invs' = DOMAIN invs
    BY <1>1, <2>2, <2>3, <2>4, MarkedRow DEF Expire, bulkVars
  <2>6. \A j \in DOMAIN invs : invs'[j].used = invs[j].used /\ invs'[j].revoked = invs[j].revoked
    BY <2>3, <2>4
  <2>7. WorldOK'
    BY <1>1, <2>2, <2>5 DEF WorldOK, TypeOK, Expire, bulkVars, worldVars
  <2> QED BY <1>1, <2>5, <2>6, <2>7, WorldInv DEF Expire
<1>2. CASE ReviewExpires
  <2>1. PICK b \in DOMAIN reviews : reviews' = [reviews EXCEPT ![b].expired = TRUE]
    BY <1>2 DEF ReviewExpires
  <2> DEFINE block == [reviews[b] EXCEPT !.expired = TRUE]
  <2>2. TypeOK /\ reviews[b] \in Block
    BY DEF IInv, TypeOK
  <2>3. block \in Block /\ block.client = reviews[b].client /\ block.since = reviews[b].since
    BY <2>2 DEF Block
  <2>4. reviews' = [reviews EXCEPT ![b] = block]
    BY <2>1
  <2> HIDE DEF block
  <2>5. reviews' \in Seq(Block) /\ DOMAIN reviews' = DOMAIN reviews
    BY <2>2, <2>3, <2>4, ExceptSeq DEF TypeOK
  <2>6. Grows
    BY <1>2, <2>3, <2>4 DEF Grows, ReviewExpires
  <2>7. WorldOK'
    BY <1>2, <2>2, <2>5 DEF WorldOK, TypeOK, ReviewExpires, worldVars
  <2> QED BY <1>2, <2>6, <2>7, WorldInv DEF ReviewExpires
<1> QED BY <1>1, <1>2

LEMMA PanelInv == ASSUME IInv, PanelCreate \/ PanelUpdate
    PROVE  IInv' /\ Grows /\ DOMAIN invs' = DOMAIN invs
<1>1. TypeOK
  BY DEF IInv
<1>2. CASE PanelCreate
  <2>1. PICK g \in Guests, client \in Clients, admin \in BOOLEAN :
           users[g] = NoUser /\ users' = [users EXCEPT ![g] = [client |-> client, active |-> TRUE, admin |-> admin]]
    BY <1>2 DEF PanelCreate, KeyIsFree
  <2>2. [client |-> client, active |-> TRUE, admin |-> admin] \in User
    BY DEF User
  <2>3. Grows /\ WorldOK'
    BY <1>1, <1>2, <2>1, <2>2, EditedUser DEF PanelCreate
  <2> QED BY <1>2, <2>3, WorldInv DEF PanelCreate
<1>3. CASE PanelUpdate
  <2>1. PICK g \in Guests, active \in BOOLEAN, admin \in BOOLEAN :
           users[g] # NoUser /\ users' = [users EXCEPT ![g].active = active, ![g].admin = admin]
    BY <1>3 DEF PanelUpdate
  <2> DEFINE u == [users[g] EXCEPT !.active = active, !.admin = admin]
  <2>2. u \in User /\ u.client = users[g].client
    <3>1. users[g] \in User
      BY <1>1, <2>1 DEF TypeOK
    <3> QED BY <3>1 DEF User
  <2>3. users' = [users EXCEPT ![g] = u]
    BY <1>1, <2>1 DEF TypeOK
  <2> HIDE DEF u
  <2>4. Grows /\ WorldOK'
    BY <1>1, <1>3, <2>1, <2>2, <2>3, EditedUser DEF PanelUpdate
  <2> QED BY <1>3, <2>4, WorldInv DEF PanelUpdate
<1> QED BY <1>2, <1>3

\* Somebody loses the account, a company leaves, or the process restarts.
LEMMA LeaveInv == ASSUME IInv, AuthorLeaves \/ ClientLeaves \/ Crash
    PROVE  IInv' /\ Grows /\ DOMAIN invs' = DOMAIN invs
<1>1. TypeOK
  BY DEF IInv
<1>2. CASE AuthorLeaves \/ ClientLeaves
  <2>1. UNCHANGED <<users, invs, left, bulkVars, requestVars, raced>>
    BY <1>2 DEF AuthorLeaves, ClientLeaves
  <2>2. working' \subseteq Authors /\ former' \subseteq Clients
    BY <1>1, <1>2 DEF AuthorLeaves, ClientLeaves, TypeOK
  <2>3. Grows /\ WorldOK'
    BY <1>1, <2>1, <2>2 DEF Grows, WorldOK, TypeOK, bulkVars
  <2> QED BY <2>1, <2>3, WorldInv
<1>3. CASE Crash
  <2>1. UNCHANGED <<users, invs, left, worldVars, reviews, raced>>
    BY <1>3 DEF Crash
  <2>2. \A c \in Requests : pc'[c] = "idle" /\ req'[c] = <<>> /\ todo'[c] = {}
    BY <1>3 DEF Crash
  <2>3. TypeOK'
    BY <1>1, <1>3, <2>1, <2>2 DEF TypeOK, Crash, Call, worldVars
  <2>4. \A c \in Requests : RequestOK(c)' /\ ~Holding(c)'
    BY <2>2 DEF RequestOK, Holding
  <2>5. RevokedIsNeverUsed' /\ AcceptedAtHome'
    BY <2>1 DEF RevokedIsNeverUsed, AcceptedAtHome, IInv
  <2>6. Grows
    BY <2>1 DEF Grows
  <2> QED BY <2>1, <2>3, <2>4, <2>5, <2>6 DEF IInv, OneHolder
<1> QED BY <1>2, <1>3

\* A request moves without holding an invitation, or keeps the one it held.
LEMMA StepInv == ASSUME IInv, NEW c \in Requests, Step(c) PROVE IInv'
<1>1. TypeOK /\ RequestOK(c)
  BY DEF IInv
<1>2. pc \in [Requests -> Steps]
  BY <1>1 DEF TypeOK
<1>3. CASE LookUser(c) \/ LookLive(c) \/ Mail(c) \/ RequestFails(c)
  <2>1. GoodStep(c) /\ UNCHANGED invs
    BY <1>1, <1>3, LookUserGood, LookLiveGood, MailGood, RequestFailsGood
       DEF LookUser, LookLive, Mail, RequestFails
  <2>2. pc'[c] \in {"live", "replace", "row", "idle"}
    BY <1>2, <1>3 DEF LookUser, LookLive, Mail, RequestFails, Finish, Close, Goto
  <2> QED BY <2>1, <2>2, QuietInv DEF Holding
<1>4. CASE Replace(c)
  BY <1>4, ReplaceInv
<1>5. CASE Grant(c)
  BY <1>5, GrantInv
<1>6. CASE Lock(c)
  <2>1. GoodStep(c) /\ UNCHANGED invs
    BY <1>1, <1>6, LockGood DEF Lock
  <2>2. pc'[c] = "idle" \/ (pc[c] = "lock" /\ LockedBy(req[c].inv) = {} /\ req'[c].inv = req[c].inv)
    <3>1. CASE Close(c)
      BY <1>2, <3>1 DEF Close, Goto
    <3>2. CASE UNCHANGED req
      BY <1>6, <3>2 DEF Lock
    <3> QED BY <1>6, <3>1, <3>2 DEF Lock
  <2> QED BY <2>1, <2>2, QuietInv DEF Holding
<1>7. CASE CheckAccept(c)
  <2>1. GoodStep(c) /\ UNCHANGED invs
    BY <1>1, <1>7, CheckAcceptGood DEF CheckAccept
  <2>2. req[c] \in Call /\ req \in [Requests -> Call \cup {<<>>}]
    BY <1>1, <1>7 DEF CheckAccept, TypeOK
  <2>3. pc'[c] = "idle" \/ (pc[c] = "checks" /\ req'[c].inv = req[c].inv)
    <3>1. CASE Close(c)
      BY <1>2, <3>1 DEF Close, Goto
    <3>2. ASSUME NEW i, req' = [req EXCEPT ![c].saw = i] PROVE req'[c].inv = req[c].inv
      BY <2>2, <3>2 DEF Call
    <3> QED BY <1>7, <3>1, <3>2 DEF CheckAccept
  <2> QED BY <2>1, <2>3, QuietInv DEF Holding
<1>8. CASE Row(c) \/ LookFresh(c) \/ EndConfirm(c)
  <2>1. GoodStep(c) /\ UNCHANGED invs
    BY <1>1, <1>8, RowGood, LookFreshGood, EndConfirmGood DEF Row, LookFresh, EndConfirm
  <2>2. pc'[c] \in {"fresh", "row", "user", "idle"}
    BY <1>2, <1>8 DEF Row, LookFresh, EndConfirm, Finish, Close, Goto
  <2> QED BY <2>1, <2>2, QuietInv DEF Holding
<1>9. CASE Deactivate(c)
  <2>1. GoodStep(c) /\ UNCHANGED invs /\ pc'[c] = "idle"
    BY <1>1, <1>2, <1>9, DeactivateGood DEF Deactivate, Close, Goto
  <2> QED BY <2>1, QuietInv DEF Holding
<1> QED BY <1>3, <1>4, <1>5, <1>6, <1>7, <1>8, <1>9 DEF Step

LEMMA AskInv == ASSUME IInv, NEW c \in Requests, Ask(c) PROVE IInv'
<1>1. TypeOK /\ pc \in [Requests -> Steps]
  BY DEF IInv, TypeOK
<1>2. GoodStep(c) /\ UNCHANGED invs
  BY <1>1, AskGood, ConfirmGood
     DEF Ask, StartInvite, StartResend, StartAccept, StartDeactivate, StartConfirm
<1>3. pc'[c] \in {"user", "replace", "lock", "deactivate", "row"}
  BY <1>1 DEF Ask, StartInvite, StartResend, StartAccept, StartDeactivate, StartConfirm, Goto
<1> QED BY <1>2, <1>3, QuietInv DEF Holding

LEMMA NextInv == IInv /\ [Next]_vars => IInv'
<1> SUFFICES ASSUME IInv, [Next]_vars PROVE IInv'
  OBVIOUS
<1>1. ASSUME NEW c \in Requests, Step(c) \/ Ask(c) PROVE IInv'
  BY <1>1, StepInv, AskInv
<1>2. CASE World
  BY <1>2, ReviewInv, PanelInv, LeaveInv, ExpiryInv DEF World
<1>3. CASE UNCHANGED vars
  <2>1. Grows /\ WorldOK'
    BY <1>3, QuietWorld DEF vars, IInv, worldVars
  <2> QED BY <1>3, <2>1, WorldInv DEF vars, requestVars
<1> QED BY <1>1, <1>2, <1>3 DEF Next

LEMMA InitInv == Init => IInv
<1> SUFFICES ASSUME Init PROVE IInv
  OBVIOUS
<1>1. TypeOK
  BY DEF Init, TypeOK
<1>2. \A c \in Requests : RequestOK(c) /\ ~Holding(c)
  BY DEF Init, RequestOK, Holding
<1>3. DOMAIN invs = {}
  BY DEF Init
<1> QED BY <1>1, <1>2, <1>3 DEF IInv, OneHolder, RevokedIsNeverUsed, AcceptedAtHome

LEMMA Invariance == Spec => []IInv
BY InitInv, NextInv, PTL DEF Spec

\* Every request, at every step, has the invitation, the block and the rows it needs.
THEOREM PortalTypes == Spec => []TypeOK
<1>1. IInv => TypeOK
  BY DEF IInv
<1> QED BY <1>1, Invariance, PTL

\* However accept, resend and bulk uploads interleave, a dead link opens nothing.
THEOREM DeadLinks == Spec => []RevokedIsNeverUsed
<1>1. IInv => RevokedIsNeverUsed
  BY DEF IInv
<1> QED BY <1>1, Invariance, PTL

\* Whoever accepts ends in the company that invited, whatever the panel did meanwhile.
THEOREM NoForeignAccess == Spec => []AcceptedAtHome
<1>1. IInv => AcceptedAtHome
  BY DEF IInv
<1> QED BY <1>1, Invariance, PTL

-----------------------------------------------------------------------------
(* Two live links, and the blocks that are being sent.                       *)

LEMMA RequestGood == ASSUME IInv, NEW c \in Requests, Step(c) \/ Ask(c) PROVE GoodStep(c)
<1>1. TypeOK /\ RequestOK(c)
  BY DEF IInv
<1>2. CASE Ask(c)
  BY <1>1, <1>2, AskGood, ConfirmGood DEF Ask
<1>3. CASE Step(c)
  BY <1>1, <1>3, LookUserGood, LookLiveGood, ReplaceGood, MailGood, RequestFailsGood, LockGood,
     CheckAcceptGood, GrantGood, RowGood, LookFreshGood, EndConfirmGood, DeactivateGood DEF Step
<1> QED BY <1>2, <1>3

\* Only a creation adds an invitation.
LEMMA StepAdds ==
    ASSUME IInv, NEW c \in Requests, Step(c) \/ Ask(c), ~Replace(c) PROVE DOMAIN invs' = DOMAIN invs
<1>1. CASE Grant(c)
  BY <1>1 DEF Grant
<1>2. CASE ~Grant(c)
  <2>1. UNCHANGED invs
    BY <1>2 DEF Step, Ask, LookUser, LookLive, Mail, RequestFails, Lock, CheckAccept, Row, LookFresh,
       EndConfirm, Deactivate, StartInvite, StartResend, StartAccept, StartDeactivate, StartConfirm, bulkVars
  <2> QED BY <2>1
<1> QED BY <1>1, <1>2

\* The request that goes from its last look to the mail is the one that created.
LEMMA CreatorFact ==
    ASSUME IInv, [Next]_vars, NEW c \in Requests, pc[c] = "replace", pc'[c] = "mail"
    PROVE  Replace(c)
<1>1. pc \in [Requests -> Steps]
  BY DEF IInv, TypeOK
<1>2. ASSUME NEW d \in Requests, Step(d) \/ Ask(d), d # c PROVE FALSE
  BY <1>2, RequestGood DEF GoodStep, OthersStay
<1>3. CASE Step(c)
  <2>1. ~RequestFails(c)
    BY <1>1 DEF RequestFails, Finish, Close, Goto
  <2> QED BY <1>3, <2>1 DEF Step, LookUser, LookLive, Mail, Lock, CheckAccept, Grant, Row, LookFresh,
             EndConfirm, Deactivate
<1>4. ~Ask(c)
  BY DEF Ask, StartInvite, StartResend, StartAccept, StartDeactivate, StartConfirm
<1>5. ~World
  BY DEF World, Review, PanelCreate, PanelUpdate, AuthorLeaves, ClientLeaves, Expire, ReviewExpires,
     Crash, requestVars
<1>6. ~UNCHANGED vars
  BY DEF vars
<1> QED BY <1>2, <1>3, <1>4, <1>5, <1>6 DEF Next

\* No request of a company ends the invitation of another.
THEOREM NoCrossRevocation == Spec => RevokesOnlyItsOwn
<1>1. ASSUME IInv, [Next]_vars, NEW c \in Requests, pc[c] = "replace", pc'[c] = "mail",
             NEW i \in DOMAIN invs, invs'[i].revoked # invs[i].revoked
      PROVE  invs[i].client = req[c].client
  <2>1. Replace(c)
    BY <1>1, CreatorFact
  <2>2. i \in Revoked(c)
    BY <1>1, <2>1, ReplaceRows DEF IInv
  <2> QED BY <2>2 DEF Revoked
<1>2. IInv /\ [Next]_vars => [\A c \in Requests : pc[c] = "replace" /\ pc'[c] = "mail" =>
          \A i \in DOMAIN invs : invs'[i].revoked # invs[i].revoked =>
                invs[i].client = req[c].client]_vars
  BY <1>1
<1> QED BY <1>2, Invariance, PTL DEF Spec, RevokesOnlyItsOwn

\* Who goes to create without having seen a live invitation finds none, or creates over another.
SawNone(c) ==
    pc[c] = "replace" /\ req[c].saw = 0 /\ Live(req[c].email) # {} => req[c].email \in raced
RaceInv == (\A c \in Requests : SawNone(c)) /\ OneLiveUnlessRaced

\* Without a creation no invitation comes to life.
LEMMA LiveShrinks ==
    ASSUME IInv, Grows, DOMAIN invs' = DOMAIN invs
    PROVE  /\ \A g \in Guests : Live(g)' \subseteq Live(g)
           /\ OneLiveUnlessRaced => OneLiveUnlessRaced'
<1>1. \A g \in Guests : Live(g)' \subseteq Live(g)
  BY DEF Live, Grows
<1>2. ASSUME OneLiveUnlessRaced, NEW i \in DOMAIN invs', NEW j \in DOMAIN invs', i # j,
             {i, j} \subseteq Live(invs[i].email)', invs'[i].client = invs'[j].client
      PROVE  invs'[i].email \in raced'
  <2>1. invs'[i].email = invs[i].email /\ invs[i].email \in Guests
        /\ invs[i].client = invs[j].client
    BY <1>2, InvitationFact DEF Grows, IInv
  <2>2. {i, j} \subseteq Live(invs[i].email)
    BY <1>1, <1>2, <2>1 DEF Live
  <2> QED BY <1>2, <2>1, <2>2 DEF OneLiveUnlessRaced, Grows
<1>3. ASSUME OneLiveUnlessRaced PROVE OneLiveUnlessRaced'
  <2> SUFFICES ASSUME NEW i \in DOMAIN invs', NEW j \in DOMAIN invs', i # j,
                      i \in Live(invs[i].email)', j \in Live(invs[i].email)',
                      invs'[i].client = invs'[j].client
               PROVE  invs'[i].email \in raced'
    BY DEF OneLiveUnlessRaced
  <2> QED BY <1>2, <1>3
<1> QED BY <1>1, <1>3

LEMMA SawNoneStays ==
    ASSUME IInv, Grows, NEW c \in Requests, SawNone(c), pc'[c] = pc[c], req'[c] = req[c],
           Live(req[c].email)' \subseteq Live(req[c].email) \/ req[c].email \in raced'
    PROVE  SawNone(c)'
BY DEF SawNone, Grows, Live

\* What the step that reaches the creation saw.
LEMMA SawNoneStep ==
    ASSUME IInv, NEW c \in Requests, Step(c) \/ Ask(c), ~Replace(c), SawNone(c) PROVE SawNone(c)'
<1>1. /\ GoodStep(c) /\ DOMAIN invs' = DOMAIN invs /\ TypeOK
      /\ pc \in [Requests -> Steps] /\ req \in [Requests -> Call \cup {<<>>}]
  BY RequestGood, StepAdds DEF IInv, TypeOK
<1>2. CASE LookLive(c)
  <2>1. CASE Finish(c)
    BY <1>1, <2>1 DEF Finish, Close, Goto, SawNone
  <2>2. ASSUME NEW i \in LiveOrNone(req[c].email), req' = [req EXCEPT ![c].saw = i]
        PROVE  SawNone(c)'
    <3>1. req[c] \in Call /\ UNCHANGED invs
      BY <1>1, <1>2 DEF LookLive, TypeOK
    <3>2. req'[c].saw = i /\ req'[c].email = req[c].email
      BY <1>1, <2>2, <3>1 DEF Call
    <3>3. i = 0 => Live(req[c].email) = {}
      <4>1. 0 \notin DOMAIN invs
        BY <1>1, InvitationFact
      <4> QED BY <2>2, <4>1 DEF LiveOrNone, Live
    <3> QED BY <3>1, <3>2, <3>3 DEF SawNone, Live
  <2> QED BY <1>2, <2>1, <2>2 DEF LookLive
<1>3. CASE StartResend(c)
  <2>1. PICK i \in DOMAIN invs :
           req' = [req EXCEPT ![c] = [NewRequest("resend", invs[i].client, invs[i].email,
                                                 invs[i].author, 0) EXCEPT !.saw = i]]
    BY <1>3 DEF StartResend
  <2>2. req'[c].saw = i /\ i # 0
    BY <1>1, <2>1, InvitationFact DEF NewRequest
  <2> QED BY <2>2 DEF SawNone
<1>4. CASE ~LookLive(c) /\ ~StartResend(c)
  <2>1. CASE LookUser(c) \/ Mail(c) \/ RequestFails(c) \/ LookFresh(c)
    BY <1>1, <2>1 DEF LookUser, Mail, RequestFails, LookFresh, Finish, Close, Goto, SawNone
  <2>2. CASE Lock(c) \/ CheckAccept(c) \/ Grant(c) \/ EndConfirm(c) \/ Deactivate(c)
    BY <1>1, <2>2 DEF Lock, CheckAccept, Grant, EndConfirm, Deactivate, Close, Goto, SawNone
  <2>3. CASE Row(c)
    BY <1>1, <2>3 DEF Row, Goto, SawNone
  <2>4. CASE StartInvite(c) \/ StartAccept(c) \/ StartDeactivate(c) \/ StartConfirm(c)
    BY <1>1, <2>4 DEF StartInvite, StartAccept, StartDeactivate, StartConfirm, Goto, SawNone
  <2> QED BY <1>4, <2>1, <2>2, <2>3, <2>4 DEF Step, Ask
<1> QED BY <1>2, <1>3, <1>4

\* A creation: what it saw is ended, and if it saw nothing what lives is of a race.
LEMMA RaceReplace == ASSUME IInv, RaceInv, NEW c \in Requests, Replace(c) PROVE RaceInv'
<1> DEFINE n == Len(invs) + 1
           g == req[c].email
<1>1. /\ GoodStep(c) /\ TypeOK /\ req[c] \in Call /\ pc[c] = "replace" /\ pc'[c] = "mail"
      /\ g \in Guests
  BY RequestGood DEF Step, IInv, TypeOK, Replace, Goto, Call
<1>2. /\ DOMAIN invs = 1 .. Len(invs) /\ DOMAIN invs' = 1 .. n /\ Len(invs) \in Nat
      /\ \A i \in DOMAIN invs :
            invs'[i] = IF i \in Revoked(c) THEN [invs[i] EXCEPT !.revoked = TRUE] ELSE invs[i]
  <2>1. Len(invs) \in Nat
    BY <1>1 DEF TypeOK
  <2> QED BY <1>1, <2>1, ReplaceRows, Zenon
<1>3. invs'[n].email = g /\ invs'[n].client = req[c].client
  <2>1. invs'[n] = [client |-> req[c].client, email |-> req[c].email,
           author |-> req[c].author, used |-> FALSE, revoked |-> FALSE, expired |-> FALSE]
    BY <1>1, ReplaceRows, Zenon
  <2> QED BY <2>1
<1>4. \A i \in DOMAIN invs : /\ invs'[i].email = invs[i].email /\ invs'[i].client = invs[i].client
                             /\ invs[i].email \in Guests
                             /\ ~invs'[i].used /\ ~invs'[i].revoked /\ ~invs'[i].expired
                                   => i \in Live(invs[i].email) /\ i \notin Revoked(c)
  <2>1. \A i \in DOMAIN invs : invs'[i].email = invs[i].email /\ invs'[i].client = invs[i].client
                               /\ invs[i].email \in Guests /\ invs[i] \in Invitation
    BY <1>1, InvitationFact DEF GoodStep, Grows
  <2>2. \A i \in DOMAIN invs : ~invs'[i].used /\ ~invs'[i].revoked /\ ~invs'[i].expired
                                   => i \in Live(invs[i].email)
    BY <1>1 DEF Live, GoodStep, Grows
  <2>3. \A i \in Revoked(c) : i \in DOMAIN invs /\ invs'[i].revoked
    <3>1. \A i \in Revoked(c) : i \in DOMAIN invs
      BY DEF Revoked
    <3> QED BY <1>2, <2>1, <3>1 DEF Invitation
  <2> QED BY <2>1, <2>2, <2>3
<1>5. \A i \in DOMAIN invs' : i \in DOMAIN invs \/ i = n
  BY <1>2
<1>6. ASSUME NEW i \in DOMAIN invs, i \in Live(g), i \notin Revoked(c), invs[i].client = req[c].client
      PROVE  g \in raced
  <2>1. req[c].saw = 0
    BY <1>6 DEF Revoked, Live
  <2> QED BY <1>1, <1>6, <2>1 DEF RaceInv, SawNone
<1> HIDE DEF n
<1>7. ASSUME NEW i \in DOMAIN invs', NEW j \in DOMAIN invs', i # j,
             i \in Live(invs[i].email)', j \in Live(invs[i].email)', invs'[i].client = invs'[j].client
      PROVE  invs'[i].email \in raced
  <2>1. /\ invs'[j].email = invs'[i].email
        /\ ~invs'[i].used /\ ~invs'[i].revoked /\ ~invs'[i].expired
        /\ ~invs'[j].used /\ ~invs'[j].revoked /\ ~invs'[j].expired
    BY <1>7 DEF Live
  <2>2. CASE i \in DOMAIN invs /\ j \in DOMAIN invs
    BY <1>4, <1>7, <2>1, <2>2 DEF RaceInv, OneLiveUnlessRaced
  <2>3. CASE i = n /\ j \in DOMAIN invs
    BY <1>3, <1>4, <1>6, <1>7, <2>1, <2>3
  <2>4. CASE i \in DOMAIN invs /\ j = n
    BY <1>3, <1>4, <1>6, <1>7, <2>1, <2>4
  <2> QED BY <1>5, <1>7, <2>2, <2>3, <2>4
<1>8. OneLiveUnlessRaced'
  <2>1. raced \subseteq raced'
    BY <1>1 DEF GoodStep, Grows
  <2> QED BY <1>7, <2>1 DEF OneLiveUnlessRaced
<1>9. ASSUME NEW d \in Requests PROVE SawNone(d)'
  <2>1. CASE d = c
    BY <1>1, <2>1 DEF SawNone
  <2>2. CASE d # c
    <3>1. pc'[d] = pc[d] /\ req'[d] = req[d]
      BY <1>1, <2>2 DEF GoodStep, OthersStay
    <3>2. CASE pc[d] # "replace"
      BY <3>1, <3>2 DEF SawNone
    <3>3. CASE pc[d] = "replace" /\ req[d].email = g
      <4>1. Creating(g) # {c}
        BY <2>2, <3>3 DEF Creating
      <4>2. g \in raced'
        BY <4>1 DEF Replace
      <4> QED BY <3>1, <3>3, <4>2 DEF SawNone
    <3>4. CASE pc[d] = "replace" /\ req[d].email # g
      <4>1. Live(req[d].email)' \subseteq Live(req[d].email)
        <5>1. ASSUME NEW i \in DOMAIN invs', invs'[i].email = req[d].email, ~invs'[i].used,
                     ~invs'[i].revoked, ~invs'[i].expired
              PROVE  i \in Live(req[d].email)
          BY <1>3, <1>4, <1>5, <3>4, <5>1
        <5> QED BY <3>1, <5>1 DEF Live
      <4> QED BY <1>1, <3>1, <4>1, SawNoneStays DEF GoodStep, RaceInv
    <3> QED BY <3>2, <3>3, <3>4
  <2> QED BY <2>1, <2>2
<1> QED BY <1>8, <1>9 DEF RaceInv

LEMMA RaceStep == IInv /\ RaceInv /\ [Next]_vars => RaceInv'
<1> SUFFICES ASSUME IInv, RaceInv, [Next]_vars PROVE RaceInv'
  OBVIOUS
<1>1. \A d \in Requests : pc[d] # "idle" => req[d] \in Call /\ req[d].email \in Guests
  BY DEF IInv, TypeOK, Call
<1>2. ASSUME NEW c \in Requests, Replace(c) PROVE RaceInv'
  BY <1>2, RaceReplace
<1>3. ASSUME NEW c \in Requests, Step(c) \/ Ask(c), ~Replace(c) PROVE RaceInv'
  <2>1. GoodStep(c) /\ DOMAIN invs' = DOMAIN invs
    BY <1>3, RequestGood, StepAdds
  <2>2. ASSUME NEW d \in Requests, d # c PROVE SawNone(d)'
    <3>1. pc'[d] = pc[d] /\ req'[d] = req[d]
      BY <2>1, <2>2 DEF GoodStep, OthersStay
    <3>2. CASE pc[d] = "idle"
      BY <3>1, <3>2 DEF SawNone
    <3>3. CASE pc[d] # "idle"
      BY <1>1, <2>1, <3>1, <3>3, LiveShrinks, SawNoneStays DEF GoodStep, RaceInv
    <3> QED BY <3>2, <3>3
  <2> QED BY <1>3, <2>1, <2>2, LiveShrinks, SawNoneStep DEF GoodStep, RaceInv
<1>4. CASE World \/ UNCHANGED vars
  <2>1. Grows /\ DOMAIN invs' = DOMAIN invs
    BY <1>4, ReviewInv, PanelInv, LeaveInv, ExpiryInv DEF World, vars, Grows
  <2>2. ASSUME NEW d \in Requests PROVE SawNone(d)'
    <3>1. pc'[d] = "idle" \/ (pc'[d] = pc[d] /\ req'[d] = req[d])
      BY <1>4 DEF World, Review, PanelCreate, PanelUpdate, AuthorLeaves, ClientLeaves, Expire,
         ReviewExpires, Crash, vars, requestVars
    <3>2. CASE pc'[d] = "idle"
      BY <3>2 DEF SawNone
    <3>3. CASE pc'[d] # "idle"
      BY <1>1, <2>1, <3>1, <3>3, LiveShrinks, SawNoneStays DEF RaceInv
    <3> QED BY <3>2, <3>3
  <2> QED BY <2>1, <2>2, LiveShrinks DEF RaceInv
<1> QED BY <1>2, <1>3, <1>4 DEF Next

LEMMA RaceAlways == Spec => []RaceInv
<1>1. Init => RaceInv
  BY DEF Init, RaceInv, SawNone, OneLiveUnlessRaced
<1> QED BY <1>1, RaceStep, Invariance, PTL DEF Spec

\* Two live links of a company for one address come only from creations that overlapped.
THEOREM OneLiveLink == Spec => []OneLiveUnlessRaced
<1>1. RaceInv => OneLiveUnlessRaced
  BY DEF RaceInv
<1> QED BY <1>1, RaceAlways, PTL

-----------------------------------------------------------------------------
\* A confirmation is in flight exactly for the blocks that are being sent.
Sends(c, b) == pc[c] # "idle" /\ req[c].op = "confirm" /\ req[c].block = b

SendInv ==
    /\ \A c \in Requests : pc[c] # "idle" /\ req[c].op = "confirm" => req[c].block \in sending
    /\ \A c, d \in Requests : \A b \in sending : Sends(c, b) /\ Sends(d, b) => c = d
    /\ \A b \in sending : \E c \in Requests : Sends(c, b)

\* The steps of a request between the beginning and the end of its confirmation.
LEMMA SendsStays ==
    ASSUME IInv, NEW c \in Requests, Step(c) \/ Ask(c), ~StartConfirm(c), ~EndConfirm(c)
    PROVE  UNCHANGED sending /\ \A b : Sends(c, b)' <=> Sends(c, b)
<1>1. /\ RequestOK(c) /\ GoodStep(c) /\ pc \in [Requests -> Steps]
      /\ req \in [Requests -> Call \cup {<<>>}]
      /\ pc[c] # "idle" => req[c] \in Call
  BY RequestGood DEF IInv, TypeOK
<1>2. UNCHANGED sending
  BY DEF Step, Ask, LookUser, LookLive, Replace, Mail, RequestFails, Lock, CheckAccept, Grant, Row,
     LookFresh, Deactivate, StartInvite, StartResend, StartAccept, StartDeactivate, bulkVars
<1>3. CASE Finish(c) /\ pc[c] # "idle"
  BY <1>1, <1>2, <1>3 DEF Finish, Close, Goto, Sends
<1>4. CASE Close(c) /\ pc[c] \in {"lock", "checks", "grant", "deactivate"}
  BY <1>1, <1>2, <1>4 DEF Close, Goto, Sends, RequestOK
<1>5. CASE pc[c] # "idle" /\ pc'[c] # "idle" /\ req'[c].op = req[c].op /\ req'[c].block = req[c].block
  BY <1>2, <1>5 DEF Sends
<1>6. CASE LookUser(c) \/ Mail(c) \/ RequestFails(c) \/ LookFresh(c)
  <2>1. CASE Finish(c)
    BY <1>3, <1>6, <2>1 DEF LookUser, Mail, RequestFails, LookFresh
  <2>2. CASE ~Finish(c)
    BY <1>1, <1>5, <1>6, <2>2 DEF LookUser, Mail, RequestFails, LookFresh, Goto
  <2> QED BY <2>1, <2>2
<1>7. CASE LookLive(c)
  <2>1. ASSUME NEW i, req' = [req EXCEPT ![c].saw = i], Goto(c, "replace") PROVE \A b : Sends(c, b)' <=> Sends(c, b)
    <3>1. pc[c] # "idle" /\ pc'[c] # "idle"
      BY <1>1, <1>7, <2>1 DEF LookLive, Goto
    <3>2. req'[c].op = req[c].op /\ req'[c].block = req[c].block
      BY <1>1, <2>1, <3>1 DEF Call
    <3> QED BY <1>5, <3>1, <3>2
  <2> QED BY <1>2, <1>3, <1>7, <2>1 DEF LookLive
<1>8. CASE Replace(c)
  <2>1. req'[c].op = req[c].op /\ req'[c].block = req[c].block /\ pc[c] # "idle" /\ pc'[c] # "idle"
    BY <1>1, <1>8 DEF Replace, Goto, Call
  <2> QED BY <1>5, <2>1
<1>9. CASE Lock(c) \/ CheckAccept(c) \/ Grant(c) \/ Deactivate(c)
  <2>1. CASE Close(c)
    BY <1>4, <1>9, <2>1 DEF Lock, CheckAccept, Grant, Deactivate
  <2>2. CASE Lock(c) /\ ~Close(c)
    BY <1>1, <1>5, <2>2 DEF Lock, Goto
  <2>3. CASE CheckAccept(c) /\ ~Close(c)
    <3>1. PICK i : req' = [req EXCEPT ![c].saw = i]
      BY <2>3 DEF CheckAccept
    <3>2. pc[c] # "idle" /\ pc'[c] # "idle"
      BY <1>1, <2>3 DEF CheckAccept, Goto
    <3>3. req'[c].op = req[c].op /\ req'[c].block = req[c].block
      BY <1>1, <3>1, <3>2 DEF Call
    <3> QED BY <1>5, <3>2, <3>3
  <2> QED BY <1>9, <2>1, <2>2, <2>3 DEF Grant, Deactivate
<1>10. CASE Row(c)
  <2>1. PICK g \in todo[c] : req' = [req EXCEPT ![c].email = g, ![c].inv = 0, ![c].saw = 0]
    BY <1>10 DEF Row
  <2>2. pc[c] # "idle" /\ pc'[c] # "idle"
    BY <1>1, <1>10 DEF Row, Goto
  <2>3. req'[c].op = req[c].op /\ req'[c].block = req[c].block
    BY <1>1, <2>1, <2>2 DEF Call
  <2> QED BY <1>5, <2>2, <2>3
<1>11. ASSUME NEW op \in {"invite", "resend", "accept", "deactivate"}, pc[c] = "idle", req'[c].op = op
       PROVE  \A b : Sends(c, b)' <=> Sends(c, b)
  BY <1>11 DEF Sends
<1>12. CASE StartInvite(c) \/ StartAccept(c) \/ StartDeactivate(c)
  <2>1. req'[c].op \in {"invite", "accept", "deactivate"} /\ pc[c] = "idle"
    BY <1>1, <1>12 DEF StartInvite, StartAccept, StartDeactivate, NewRequest
  <2> QED BY <1>2, <1>11, <2>1
<1>13. CASE StartResend(c)
  <2>1. req'[c].op = "resend" /\ pc[c] = "idle"
    BY <1>1, <1>13 DEF StartResend, NewRequest
  <2> QED BY <1>2, <1>11, <2>1
<1> QED BY <1>2, <1>6, <1>7, <1>8, <1>9, <1>10, <1>12, <1>13 DEF Step, Ask

LEMMA SendStep == IInv /\ SendInv /\ [Next]_vars => SendInv'
<1> SUFFICES ASSUME IInv, SendInv, [Next]_vars PROVE SendInv'
  OBVIOUS
<1>1. /\ pc \in [Requests -> Steps] /\ req \in [Requests -> Call \cup {<<>>}]
      /\ \A c \in Requests : pc[c] # "idle" => req[c] \in Call
  BY DEF IInv, TypeOK
<1>2. ASSUME NEW c \in Requests, Step(c) \/ Ask(c) PROVE SendInv'
  <2>1. \A d \in Requests \ {c} : pc'[d] = pc[d] /\ req'[d] = req[d]
    BY <1>2, RequestGood DEF GoodStep, OthersStay
  <2>2. \A d \in Requests \ {c} : \A b : Sends(d, b)' <=> Sends(d, b)
    BY <2>1 DEF Sends
  <2>3. CASE ~StartConfirm(c) /\ ~EndConfirm(c)
    <3>1. UNCHANGED sending /\ \A d \in Requests : \A b : Sends(d, b)' <=> Sends(d, b)
      BY <1>2, <2>2, <2>3, SendsStays
    <3>2. \A d \in Requests : pc'[d] # "idle" /\ req'[d].op = "confirm" => Sends(d, req'[d].block)
      BY <3>1 DEF Sends
    <3> QED BY <3>1, <3>2 DEF SendInv, Sends
  <2>4. CASE StartConfirm(c)
    <3>1. PICK b \in DOMAIN reviews, a \in working :
             /\ NotSending(b) /\ sending' = sending \cup {b}
             /\ req' = [req EXCEPT ![c] = [NewRequest("confirm", reviews[b].client,
                            CHOOSE g \in reviews[b].rows : TRUE, a, 0) EXCEPT !.block = b]]
      BY <2>4 DEF StartConfirm
    <3>2. pc[c] = "idle" /\ pc'[c] = "row" /\ req'[c].op = "confirm" /\ req'[c].block = b
      BY <1>1, <2>4, <3>1 DEF StartConfirm, Goto, NewRequest
    <3>3. b \notin sending
      BY <3>1 DEF NotSending
    <3>4. \A d \in Requests \ {c} : ~Sends(d, b)
      BY <3>3 DEF SendInv, Sends
    <3>5. \A e : Sends(c, e)' <=> e = b
      BY <3>2 DEF Sends
    <3>6. \A d \in Requests : pc'[d] # "idle" /\ req'[d].op = "confirm" => req'[d].block \in sending'
      BY <2>1, <3>1, <3>2 DEF SendInv
    <3>7. \A d, f \in Requests : \A e \in sending' : Sends(d, e)' /\ Sends(f, e)' => d = f
      BY <2>2, <3>1, <3>4, <3>5 DEF SendInv
    <3>8. \A e \in sending' : \E d \in Requests : Sends(d, e)'
      <4>1. ASSUME NEW e \in sending PROVE \E d \in Requests : Sends(d, e)'
        <5>1. PICK d \in Requests : Sends(d, e)
          BY DEF SendInv
        <5>2. d # c
          BY <3>2, <5>1 DEF Sends
        <5> QED BY <2>2, <5>1, <5>2
      <4> QED BY <3>1, <3>5, <4>1
    <3> QED BY <3>6, <3>7, <3>8 DEF SendInv
  <2>5. CASE EndConfirm(c)
    <3>1. pc[c] = "row" /\ req[c].op = "confirm" /\ pc'[c] = "idle" /\ sending' = sending \ {req[c].block}
      BY <1>1, <2>5 DEF EndConfirm, Released, Close, Goto, IInv, RequestOK
    <3>2. Sends(c, req[c].block) /\ req[c].block \in sending
      BY <3>1 DEF Sends, SendInv
    <3>3. \A d \in Requests \ {c} : ~Sends(d, req[c].block)
      BY <3>2 DEF SendInv
    <3>4. \A e : ~Sends(c, e)'
      BY <3>1 DEF Sends
    <3>5. \A d \in Requests : pc'[d] # "idle" /\ req'[d].op = "confirm" => req'[d].block \in sending'
      BY <2>1, <3>1, <3>3 DEF SendInv, Sends
    <3>6. \A d, f \in Requests : \A e \in sending' : Sends(d, e)' /\ Sends(f, e)' => d = f
      BY <2>2, <3>1, <3>4 DEF SendInv
    <3>7. \A e \in sending' : \E d \in Requests : Sends(d, e)'
      <4>1. ASSUME NEW e \in sending' PROVE \E d \in Requests : Sends(d, e)'
        <5>1. PICK d \in Requests : Sends(d, e)
          BY <3>1 DEF SendInv
        <5>2. d # c
          BY <3>1, <5>1 DEF Sends
        <5> QED BY <2>2, <5>1, <5>2
      <4> QED BY <4>1
    <3> QED BY <3>5, <3>6, <3>7 DEF SendInv
  <2> QED BY <2>3, <2>4, <2>5
<1>3. CASE Crash
  BY <1>3 DEF Crash, SendInv, Sends
<1>4. CASE (World /\ ~Crash) \/ UNCHANGED vars
  <2>1. UNCHANGED <<pc, req, sending>>
    BY <1>4 DEF World, Review, PanelCreate, PanelUpdate, AuthorLeaves, ClientLeaves, Expire,
       ReviewExpires, vars, requestVars, bulkVars
  <2> QED BY <2>1 DEF SendInv, Sends
<1> QED BY <1>2, <1>3, <1>4 DEF Next

LEMMA SendAlways == Spec => []SendInv
<1>1. Init => SendInv
  BY DEF Init, SendInv
<1> QED BY <1>1, SendStep, Invariance, PTL DEF Spec

\* A block is sent once at a time, and whatever ends its confirmation leaves it free.
THEOREM OneSender == Spec => []OneConfirmationPerBlock
<1>1. ASSUME SendInv PROVE OneConfirmationPerBlock
  <2>1. ASSUME NEW b \in DOMAIN reviews
        PROVE  Cardinality({c \in Requests : pc[c] # "idle" /\ req[c].op = "confirm" /\ req[c].block = b})
                   = IF b \in sending THEN 1 ELSE 0
    <3> DEFINE at == {c \in Requests : pc[c] # "idle" /\ req[c].op = "confirm" /\ req[c].block = b}
    <3>1. CASE b \in sending
      <4>1. PICK c \in Requests : at = {c}
        BY <1>1, <3>1 DEF SendInv, Sends
      <4> QED BY <3>1, <4>1, FS_Singleton
    <3>2. CASE b \notin sending
      <4>1. at = {}
        BY <1>1, <3>2 DEF SendInv
      <4> QED BY <3>2, <4>1, FS_EmptySet
    <3> QED BY <3>1, <3>2
  <2> QED BY <2>1 DEF OneConfirmationPerBlock
<1> QED BY <1>1, SendAlways, PTL

-----------------------------------------------------------------------------
(* A repeated confirmation, in a portal of one company: with two, an invitation of the other     *)
(* older than the review may be the one that findLiveByEmail answers.                            *)

OneCompany == \A x, y \in Clients : x = y

\* Invitations end by the clock in the order they were created.
InOrder == \A i, j \in DOMAIN invs : j < i /\ invs[i].expired => invs[j].expired

\* The pending invitations of the address at hand born after the review.
Later(c) == {i \in DOMAIN invs : /\ i > reviews[req[c].block].since /\ invs[i].email = req[c].email
                                 /\ ~invs[i].used /\ ~invs[i].revoked}

Warned(c) ==
    /\ pc[c] \in {"user", "live", "replace"} /\ req[c].op = "confirm" =>
          \A i \in Later(c) : invs[i].expired \/ req[c].email \in raced
    /\ pc[c] = "replace" /\ req[c].op = "confirm" /\ req[c].saw # 0 =>
          \A i \in Later(c) : req[c].email \in raced

SpareInv == InOrder /\ \A c \in Requests : Warned(c)

\* A request that stands still, while no invitation of its address is born, or one is and is told.
LEMMA WarnedStays ==
    ASSUME IInv, SendInv, Grows, NEW c \in Requests, Warned(c), pc'[c] = pc[c], req'[c] = req[c],
           \/ DOMAIN invs' = DOMAIN invs
           \/ \A i \in DOMAIN invs' \ DOMAIN invs : invs'[i].email # req[c].email
           \/ req[c].email \in raced'
    PROVE  Warned(c)'
<1>1. CASE pc[c] \in {"user", "live", "replace"} /\ req[c].op = "confirm"
  <2>1. req[c].block \in DOMAIN reviews
    BY <1>1 DEF SendInv, IInv, TypeOK
  <2>2. CASE req[c].email \in raced'
    BY <2>2 DEF Warned
  <2>3. CASE \A i \in DOMAIN invs' \ DOMAIN invs : invs'[i].email # req[c].email
    <3>1. Later(c)' \subseteq Later(c)
      BY <2>1, <2>3 DEF Later, Grows
    <3>2. Later(c) \subseteq DOMAIN invs
      BY DEF Later
    <3> QED BY <3>1, <3>2 DEF Warned, Grows
  <2> QED BY <2>2, <2>3
<1>2. CASE ~(pc[c] \in {"user", "live", "replace"} /\ req[c].op = "confirm")
  BY <1>2 DEF Warned
<1> QED BY <1>1, <1>2

\* The look before inviting: without two live links, nothing born after the review is alive.
LEMMA FreshWarns ==
    ASSUME IInv, RaceInv, OneCompany, NEW c \in Requests, pc[c] = "fresh", req[c] \in Call,
           NEW k \in LiveOrNone(req[c].email), ~(k # 0 /\ BornAfter(c, k)), req[c].block \in DOMAIN reviews
    PROVE  \A i \in Later(c) : invs[i].expired \/ req[c].email \in raced
<1> SUFFICES ASSUME NEW i \in Later(c), ~invs[i].expired PROVE req[c].email \in raced
  OBVIOUS
<1>1. /\ i \in DOMAIN invs /\ i \in Live(req[c].email) /\ i > reviews[req[c].block].since
      /\ invs[i].email = req[c].email
  BY DEF Later, Live
<1>2. k # 0 /\ k \in Live(req[c].email) /\ k \in DOMAIN invs /\ invs[k].email = req[c].email
  <2>1. k \in Live(req[c].email)
    BY <1>1 DEF LiveOrNone
  <2> QED BY <2>1, InvitationFact DEF Live, IInv
<1>3. i # k
  BY <1>1, <1>2 DEF BornAfter
<1>4. invs[i].client = invs[k].client
  BY <1>1, <1>2, InvitationFact DEF OneCompany, IInv
<1> QED BY <1>1, <1>2, <1>3, <1>4 DEF RaceInv, OneLiveUnlessRaced

LEMMA WarnedStep ==
    ASSUME IInv, RaceInv, SendInv, OneCompany, InOrder,
           NEW c \in Requests, Step(c) \/ Ask(c), ~Replace(c), Warned(c)
    PROVE  Warned(c)'
<1>1. /\ GoodStep(c) /\ Grows /\ DOMAIN invs' = DOMAIN invs /\ TypeOK
      /\ pc \in [Requests -> Steps] /\ req \in [Requests -> Call \cup {<<>>}]
      /\ pc[c] # "idle" => req[c] \in Call
  BY RequestGood, StepAdds DEF IInv, TypeOK, GoodStep
<1>2. pc'[c] \notin {"user", "live", "replace"} => Warned(c)'
  BY DEF Warned
<1>3. CASE LookUser(c) /\ ~Finish(c)
  <2>1. pc[c] = "user" /\ pc'[c] = "live" /\ req' = req /\ UNCHANGED <<invs, reviews, raced>>
    BY <1>1, <1>3 DEF LookUser, Goto
  <2> QED BY <2>1 DEF Warned, Later
<1>4. CASE LookLive(c) /\ ~Finish(c)
  <2>1. PICK i \in LiveOrNone(req[c].email) : req' = [req EXCEPT ![c].saw = i]
    BY <1>4 DEF LookLive
  <2>2. pc[c] = "live" /\ UNCHANGED <<invs, reviews, raced>>
    BY <1>4 DEF LookLive
  <2>3. /\ req'[c].saw = i /\ req'[c].email = req[c].email /\ req'[c].op = req[c].op
        /\ req'[c].block = req[c].block
    BY <1>1, <2>1, <2>2 DEF Call
  <2>4. Later(c)' = Later(c)
    BY <2>2, <2>3 DEF Later
  <2>5. ASSUME req[c].op = "confirm", i # 0, NEW j \in Later(c) PROVE req[c].email \in raced
    <3>1. i \in Live(req[c].email) /\ i \in DOMAIN invs /\ ~invs[i].expired
      BY <2>5 DEF LiveOrNone, Live
    <3>2. req[c].block \in DOMAIN reviews
      BY <2>2, <2>5 DEF SendInv, TypeOK, IInv
    <3>3. reviews[req[c].block].since \in Nat
      <4>1. reviews[req[c].block] \in Block
        BY <1>1, <3>2 DEF TypeOK
      <4>2. \A b \in Block : b.since \in Nat
        BY DEF Block
      <4> QED BY <4>1, <4>2
    <3>4. j \in DOMAIN invs /\ j > reviews[req[c].block].since
      BY DEF Later
    <3>5. CASE invs[j].expired
      <4>1. i \in Nat /\ j \in Nat
        BY <1>1, <3>1, <3>4, InvitationFact
      <4>2. j < i
        BY <3>1, <3>4, <3>5, <4>1 DEF InOrder
      <4>3. i \in Later(c)
        BY <3>1, <3>3, <3>4, <4>1, <4>2 DEF Later, Live
      <4> QED BY <2>2, <2>5, <3>1, <4>3 DEF Warned
    <3>6. CASE ~invs[j].expired
      BY <2>2, <2>5, <3>6 DEF Warned
    <3> QED BY <3>5, <3>6
  <2> QED BY <2>2, <2>3, <2>4, <2>5 DEF Warned
<1>5. CASE LookFresh(c) /\ ~Finish(c)
  <2>1. PICK k \in LiveOrNone(req[c].email) : ~(k # 0 /\ BornAfter(c, k))
    BY <1>5 DEF LookFresh
  <2>2. pc[c] = "fresh" /\ pc'[c] = "user" /\ req' = req /\ UNCHANGED <<invs, reviews, raced>>
    BY <1>1, <1>5 DEF LookFresh, Goto
  <2>3. req[c].op = "confirm" /\ req[c].block \in DOMAIN reviews
    BY <2>2 DEF IInv, RequestOK, SendInv, TypeOK
  <2>4. \A i \in Later(c) : invs[i].expired \/ req[c].email \in raced
    BY <1>1, <2>1, <2>2, <2>3, FreshWarns
  <2> QED BY <2>2, <2>4 DEF Warned, Later
<1>6. CASE Finish(c) /\ (LookUser(c) \/ LookLive(c) \/ LookFresh(c))
  BY <1>1, <1>2, <1>6 DEF Finish, Close, Goto
<1>7. CASE Mail(c) \/ RequestFails(c)
  BY <1>1, <1>2, <1>7 DEF Mail, RequestFails, Finish, Close, Goto
<1>8. CASE Lock(c) \/ CheckAccept(c) \/ Grant(c) \/ EndConfirm(c) \/ Deactivate(c)
  BY <1>1, <1>2, <1>8 DEF Lock, CheckAccept, Grant, EndConfirm, Deactivate, Close, Goto
<1>9. CASE Row(c) \/ StartAccept(c) \/ StartDeactivate(c) \/ StartConfirm(c)
  BY <1>1, <1>2, <1>9 DEF Row, StartAccept, StartDeactivate, StartConfirm, Goto
<1>10. CASE StartInvite(c) \/ StartResend(c)
  <2>1. req'[c].op \in {"invite", "resend"}
    <3>1. CASE StartInvite(c)
      BY <1>1, <3>1 DEF StartInvite, NewRequest
    <3>2. CASE StartResend(c)
      BY <1>1, <3>2 DEF StartResend, NewRequest
    <3> QED BY <1>10, <3>1, <3>2
  <2> QED BY <2>1 DEF Warned
<1> QED BY <1>3, <1>4, <1>5, <1>6, <1>7, <1>8, <1>9, <1>10 DEF Step, Ask

\* The order of expiry, when no step but Expire ends an invitation by the clock.
LEMMA OrderStays ==
    ASSUME InOrder, DOMAIN invs' = DOMAIN invs, \A i \in DOMAIN invs : invs'[i].expired = invs[i].expired
    PROVE  InOrder'
BY DEF InOrder

LEMMA OrderStep == IInv /\ InOrder /\ [Next]_vars => InOrder'
<1> SUFFICES ASSUME IInv, InOrder, [Next]_vars PROVE InOrder'
  OBVIOUS
<1>1. TypeOK /\ \A i \in DOMAIN invs : invs[i] \in Invitation
  BY InvitationFact DEF IInv
<1>2. CASE UNCHANGED invs
  BY <1>2 DEF InOrder
<1>3. ASSUME NEW c \in Requests, Replace(c) PROVE InOrder'
  <2>1. Len(invs) \in Nat
    BY <1>1 DEF TypeOK
  <2>2. /\ DOMAIN invs = 1 .. Len(invs) /\ DOMAIN invs' = 1 .. Len(invs) + 1
        /\ \A i \in DOMAIN invs :
              invs'[i] = IF i \in Revoked(c) THEN [invs[i] EXCEPT !.revoked = TRUE] ELSE invs[i]
    BY <1>1, <1>3, ReplaceRows, Zenon
  <2>3. \A i \in DOMAIN invs : invs'[i].expired = invs[i].expired
    BY <1>1, <2>2 DEF Invitation
  <2>4. ~invs'[Len(invs) + 1].expired
    <3>1. invs'[Len(invs) + 1] = [client |-> req[c].client, email |-> req[c].email,
             author |-> req[c].author, used |-> FALSE, revoked |-> FALSE, expired |-> FALSE]
      BY <1>1, <1>3, ReplaceRows, Zenon
    <3> QED BY <3>1
  <2>5. ASSUME NEW i \in DOMAIN invs', NEW j \in DOMAIN invs', j < i, invs'[i].expired
        PROVE  invs'[j].expired
    <3>1. i \in DOMAIN invs
      BY <2>1, <2>2, <2>4, <2>5
    <3>2. j \in DOMAIN invs
      BY <2>1, <2>2, <2>5, <3>1
    <3> QED BY <2>3, <2>5, <3>1, <3>2 DEF InOrder
  <2> QED BY <2>5 DEF InOrder
<1>4. ASSUME NEW c \in Requests, Grant(c) PROVE InOrder'
  <2>1. CASE UNCHANGED invs
    BY <1>2, <2>1
  <2>2. CASE invs' = [invs EXCEPT ![req[c].inv].used = TRUE]
    <3>1. DOMAIN invs' = DOMAIN invs /\ \A i \in DOMAIN invs : invs'[i].expired = invs[i].expired
      BY <1>1, <2>2 DEF Invitation
    <3> QED BY <3>1, OrderStays
  <2> QED BY <1>4, <2>1, <2>2 DEF Grant
<1>5. CASE Expire
  <2>1. PICK i \in DOMAIN invs :
           (\A j \in 1 .. i - 1 : invs[j].expired) /\ invs' = [invs EXCEPT ![i].expired = TRUE]
    BY <1>5 DEF Expire
  <2>2. DOMAIN invs = 1 .. Len(invs) /\ Len(invs) \in Nat /\ DOMAIN invs' = DOMAIN invs
    BY <1>1, <2>1 DEF TypeOK
  <2>3. \A j \in DOMAIN invs : invs'[j].expired = (j = i \/ invs[j].expired)
    BY <1>1, <2>1 DEF Invitation
  <2>4. \A j \in DOMAIN invs : j < i => invs[j].expired
    BY <2>1, <2>2
  <2> QED BY <2>2, <2>3, <2>4 DEF InOrder
<1>6. ASSUME NEW c \in Requests, Step(c) \/ Ask(c), ~Grant(c), ~Replace(c) PROVE UNCHANGED invs
  BY <1>6 DEF Step, Ask, LookUser, LookLive, Mail, RequestFails, Lock, CheckAccept, Row, LookFresh,
     EndConfirm, Deactivate, StartInvite, StartResend, StartAccept, StartDeactivate, StartConfirm, bulkVars
<1>7. CASE (World /\ ~Expire) \/ UNCHANGED vars
  <2>1. UNCHANGED invs
    BY <1>7 DEF World, Review, PanelCreate, PanelUpdate, AuthorLeaves, ClientLeaves, ReviewExpires,
       Crash, vars
  <2> QED BY <1>2, <2>1
<1> QED BY <1>2, <1>3, <1>4, <1>5, <1>6, <1>7 DEF Next

\* A creation of another request for the same address is a race, and is told.
LEMMA WarnedReplace ==
    ASSUME IInv, SendInv, NEW c \in Requests, Replace(c), NEW d \in Requests, Warned(d) PROVE Warned(d)'
<1>1. /\ GoodStep(c) /\ Grows /\ TypeOK /\ pc[c] = "replace" /\ pc'[c] = "mail"
  BY RequestGood DEF Step, IInv, TypeOK, Replace, Goto, GoodStep
<1>2. CASE d = c
  BY <1>1, <1>2 DEF Warned
<1>3. CASE d # c
  <2>1. pc'[d] = pc[d] /\ req'[d] = req[d]
    BY <1>1, <1>3 DEF GoodStep, OthersStay
  <2>2. CASE pc[d] \notin {"user", "live", "replace"}
    BY <2>1, <2>2 DEF Warned
  <2>3. CASE pc[d] \in {"user", "live", "replace"} /\ req[d].email = req[c].email
    <3>1. Creating(req[c].email) # {c}
      BY <1>3, <2>3 DEF Creating
    <3>2. req[d].email \in raced'
      BY <2>3, <3>1 DEF Replace
    <3> QED BY <1>1, <2>1, <3>2, WarnedStays
  <2>4. CASE req[d].email # req[c].email
    <3>1. Len(invs) \in Nat
      BY <1>1 DEF TypeOK
    <3>2. DOMAIN invs = 1 .. Len(invs) /\ DOMAIN invs' = 1 .. Len(invs) + 1
      BY <1>1, ReplaceRows, Zenon
    <3>3. \A i \in DOMAIN invs' \ DOMAIN invs : i = Len(invs) + 1
      BY <3>1, <3>2
    <3>4. invs'[Len(invs) + 1] = [client |-> req[c].client, email |-> req[c].email,
             author |-> req[c].author, used |-> FALSE, revoked |-> FALSE, expired |-> FALSE]
      BY <1>1, ReplaceRows, Zenon
    <3>5. invs'[Len(invs) + 1].email = req[c].email
      BY <3>4
    <3>6. \A i \in DOMAIN invs' \ DOMAIN invs : invs'[i].email # req[d].email
      BY <2>4, <3>3, <3>5
    <3> QED BY <1>1, <2>1, <3>6, WarnedStays
  <2> QED BY <2>2, <2>3, <2>4
<1> QED BY <1>2, <1>3

LEMMA SpareStep == OneCompany /\ IInv /\ RaceInv /\ SendInv /\ SpareInv /\ [Next]_vars => SpareInv'
<1> SUFFICES ASSUME OneCompany, IInv, RaceInv, SendInv, SpareInv, [Next]_vars PROVE SpareInv'
  OBVIOUS
<1>1. InOrder'
  BY OrderStep DEF SpareInv
<1>2. ASSUME NEW c \in Requests, Replace(c), NEW d \in Requests PROVE Warned(d)'
  BY <1>2, WarnedReplace DEF SpareInv
<1>3. ASSUME NEW c \in Requests, Step(c) \/ Ask(c), ~Replace(c), NEW d \in Requests PROVE Warned(d)'
  <2>1. Grows /\ DOMAIN invs' = DOMAIN invs /\ OthersStay(c)
    BY <1>3, RequestGood, StepAdds DEF GoodStep
  <2>2. CASE d = c
    BY <1>3, <2>2, WarnedStep DEF SpareInv
  <2>3. CASE d # c
    BY <2>1, <2>3, WarnedStays DEF SpareInv, OthersStay
  <2> QED BY <2>2, <2>3
<1>4. ASSUME World \/ UNCHANGED vars, NEW d \in Requests PROVE Warned(d)'
  <2>1. Grows /\ DOMAIN invs' = DOMAIN invs
    BY <1>4, ReviewInv, PanelInv, LeaveInv, ExpiryInv DEF World, vars, Grows
  <2>2. pc'[d] = "idle" \/ (pc'[d] = pc[d] /\ req'[d] = req[d])
    BY <1>4 DEF World, Review, PanelCreate, PanelUpdate, AuthorLeaves, ClientLeaves, Expire,
       ReviewExpires, Crash, vars, requestVars
  <2>3. CASE pc'[d] = "idle"
    BY <2>3 DEF Warned
  <2>4. CASE pc'[d] = pc[d] /\ req'[d] = req[d]
    BY <2>1, <2>4, WarnedStays DEF SpareInv
  <2> QED BY <2>2, <2>3, <2>4
<1>5. \A d \in Requests : Warned(d)'
  BY <1>2, <1>3, <1>4 DEF Next
<1> QED BY <1>1, <1>5 DEF SpareInv

LEMMA SpareAlways == ASSUME OneCompany PROVE Spec => []SpareInv
<1>1. Init => SpareInv
  BY DEF Init, SpareInv, InOrder, Warned
<1> QED BY <1>1, SpareStep, Invariance, RaceAlways, SendAlways, PTL DEF Spec

\* In a portal of one company, repeating a confirmation ends no link born after its review, unless
\* somebody else was inviting that address at the same time.
THEOREM RepeatsSpareLinks == OneCompany /\ Spec => ConfirmationSparesNewLinks
<1> SUFFICES ASSUME OneCompany PROVE Spec => ConfirmationSparesNewLinks
  OBVIOUS
<1>1. ASSUME IInv, SpareInv, [Next]_vars, NEW c \in Requests, pc[c] = "replace", pc'[c] = "mail",
             req[c].op = "confirm", NEW i \in DOMAIN invs, invs'[i].revoked, ~invs[i].revoked,
             i > reviews[req[c].block].since
      PROVE  invs[i].email \in raced'
  <2>1. Replace(c)
    BY <1>1, CreatorFact
  <2>2. i \in Revoked(c) /\ req[c].saw # 0
    <3>1. i \in Revoked(c)
      BY <1>1, <2>1, ReplaceRows DEF IInv
    <3> QED BY <3>1 DEF Revoked
  <2>3. i \in Later(c) /\ invs[i].email = req[c].email
    BY <1>1, <2>2 DEF Later, Revoked
  <2>4. raced \subseteq raced'
    BY <2>1 DEF Replace
  <2> QED BY <1>1, <2>2, <2>3, <2>4 DEF SpareInv, Warned
<1>2. IInv /\ SpareInv /\ [Next]_vars =>
        [\A c \in Requests : pc[c] = "replace" /\ pc'[c] = "mail" /\ req[c].op = "confirm" =>
          \A i \in DOMAIN invs :
             invs'[i].revoked /\ ~invs[i].revoked /\ i > reviews[req[c].block].since
             => invs[i].email \in raced']_vars
  BY <1>1
<1> QED BY <1>2, Invariance, SpareAlways, PTL DEF Spec, ConfirmationSparesNewLinks

-----------------------------------------------------------------------------
(* The requests keep the promise of PortalAccess.                            *)

\* What the promise sees of an invitation, and of all of them.
Link(i) == [client |-> invs[i].client, email |-> invs[i].email,
            used |-> invs[i].used, revoked |-> invs[i].revoked]
Links == [i \in DOMAIN invs |-> Link(i)]

\* The links are one per invitation, in its order.
LEMMA LinksFact ==
    ASSUME TypeOK
    PROVE  /\ DOMAIN Links = 1 .. Len(invs) /\ Len(Links) = Len(invs) /\ Len(invs) \in Nat
           /\ \A i \in DOMAIN invs : Links[i] = Link(i)
<1>1. invs \in Seq(Invitation) /\ DOMAIN invs = 1 .. Len(invs) /\ Len(invs) \in Nat
  BY DEF TypeOK
<1>2. \A i \in 1 .. Len(invs) : Link(i) \in {Link(j) : j \in 1 .. Len(invs)}
  OBVIOUS
<1>3. Links \in [1 .. Len(invs) -> {Link(j) : j \in 1 .. Len(invs)}]
  BY <1>1, <1>2 DEF Links
<1>4. Links \in Seq({Link(j) : j \in 1 .. Len(invs)})
  BY <1>1, <1>3, SeqDef
<1>5. Len(Links) = Len(invs)
  BY <1>1, <1>3, <1>4
<1> QED BY <1>1, <1>5 DEF Links

\* A step that ends no invitation and enrols nobody is a stutter of the promise.
LEMMA QuietAccess ==
    ASSUME DOMAIN invs' = DOMAIN invs,
           \A i \in DOMAIN invs :
              /\ invs'[i].client = invs[i].client /\ invs'[i].email = invs[i].email
              /\ invs'[i].used = invs[i].used /\ invs'[i].revoked = invs[i].revoked,
           \A g \in Guests : users'[g].client = users[g].client
    PROVE  UNCHANGED Access!accessVars
BY DEF Access!accessVars

\* An invitation that ends, and keeps its address and its company.
LEMMA EditedLink ==
    ASSUME TypeOK, NEW i \in DOMAIN invs, invs'[i].client = invs[i].client, invs'[i].email = invs[i].email
    PROVE  /\ invs'[i].used = TRUE /\ invs'[i].revoked = invs[i].revoked
              => Link(i)' = [Link(i) EXCEPT !.used = TRUE]
           /\ invs'[i].used = invs[i].used /\ invs'[i].revoked = TRUE
              => Link(i)' = [Link(i) EXCEPT !.revoked = TRUE]
<1> DEFINE Seen == [client : Clients, email : Guests, used : BOOLEAN, revoked : BOOLEAN]
<1>1. invs[i].client \in Clients /\ invs[i].email \in Guests /\ invs[i].used \in BOOLEAN
      /\ invs[i].revoked \in BOOLEAN
  BY InvitationFact DEF Invitation
<1>2. Link(i) \in Seen
  BY <1>1 DEF Link
<1>3. ASSUME invs'[i].used = TRUE, invs'[i].revoked = invs[i].revoked
      PROVE  Link(i)' = [Link(i) EXCEPT !.used = TRUE]
  <2>1. Link(i)' \in Seen
    BY <1>1, <1>3 DEF Link
  <2>2. /\ Link(i)'.client = Link(i).client /\ Link(i)'.email = Link(i).email
        /\ Link(i)'.used = TRUE /\ Link(i)'.revoked = Link(i).revoked
    BY <1>3 DEF Link
  <2> QED BY <1>2, <2>1, <2>2
<1>4. ASSUME invs'[i].used = invs[i].used, invs'[i].revoked = TRUE
      PROVE  Link(i)' = [Link(i) EXCEPT !.revoked = TRUE]
  <2>1. Link(i)' \in Seen
    BY <1>1, <1>4 DEF Link
  <2>2. /\ Link(i)'.client = Link(i).client /\ Link(i)'.email = Link(i).email
        /\ Link(i)'.used = Link(i).used /\ Link(i)'.revoked = TRUE
    BY <1>4 DEF Link
  <2> QED BY <1>2, <2>1, <2>2
<1> QED BY <1>3, <1>4

\* A creation issues a link in the place of none or of all the open ones it found.
LEMMA ReplaceIssues ==
    ASSUME IInv, NEW c \in Requests, Replace(c), TypeOK'
    PROVE  Access!AccessNext
<1>0. PICK client, g, n : client = req[c].client /\ g = req[c].email /\ n = Len(invs) + 1
  OBVIOUS
<1>1. TypeOK /\ client \in Clients /\ g \in Guests
  BY <1>0 DEF IInv, TypeOK, Replace, Call
<1>2. /\ DOMAIN Links = 1 .. Len(invs) /\ Len(Links) = Len(invs) /\ Len(invs) \in Nat
      /\ \A i \in DOMAIN invs : Links[i] = Link(i)
      /\ DOMAIN invs = 1 .. Len(invs)
  BY <1>1, LinksFact, ReplaceRows
<1>3. Revoked(c) \in {{}, Access!Open(client, g)}
  BY <1>0 DEF Revoked, Access!Open
<1>4. Revoked(c) \subseteq DOMAIN invs
  BY DEF Revoked
<1>5. /\ DOMAIN Links' = 1 .. n
      /\ \A i \in 1 .. n : Links'[i] =
            IF i = n THEN [client |-> client, email |-> g, used |-> FALSE, revoked |-> FALSE]
            ELSE IF i \in Revoked(c) THEN [Links[i] EXCEPT !.revoked = TRUE] ELSE Links[i]
  <2>1. DOMAIN invs' = 1 .. n
    BY <1>0, <1>1, ReplaceRows
  <2>2. \A i \in 1 .. n : Links'[i] = Link(i)'
    BY <2>1 DEF Links
  <2>3. Link(n)' = [client |-> client, email |-> g, used |-> FALSE, revoked |-> FALSE]
    <3>1. invs'[n] = [client |-> client, email |-> g, author |-> req[c].author, used |-> FALSE,
                      revoked |-> FALSE, expired |-> FALSE]
      BY <1>0, <1>1, ReplaceRows
    <3>2. invs'[n].client = client /\ invs'[n].email = g /\ invs'[n].used = FALSE /\ invs'[n].revoked = FALSE
      BY <3>1
    <3> QED BY <3>2 DEF Link
  <2>4. ASSUME NEW i \in DOMAIN invs, i \in Revoked(c) PROVE Link(i)' = [Link(i) EXCEPT !.revoked = TRUE]
    <3>1. invs[i] \in Invitation /\ invs'[i] = [invs[i] EXCEPT !.revoked = TRUE]
      BY <1>1, <2>4, ReplaceRows, InvitationFact
    <3>2. /\ invs'[i].client = invs[i].client /\ invs'[i].email = invs[i].email
          /\ invs'[i].used = invs[i].used /\ invs'[i].revoked = TRUE
      BY <3>1 DEF Invitation
    <3> QED BY <1>1, <3>2, EditedLink
  <2>5. ASSUME NEW i \in DOMAIN invs, i \notin Revoked(c) PROVE Link(i)' = Link(i)
    BY <1>1, <2>5, ReplaceRows DEF Link
  <2>6. \A i \in 1 .. n : IF i = n THEN i \notin DOMAIN invs ELSE i \in DOMAIN invs
    BY <1>0, <1>2
  <2>7. DOMAIN Links' = 1 .. n
    BY <2>1 DEF Links
  <2> QED BY <1>2, <2>2, <2>3, <2>4, <2>5, <2>6, <2>7
<1>6. Links' = [i \in 1 .. Len(Links) + 1 |->
                   IF i = Len(Links) + 1
                   THEN [client |-> client, email |-> g, used |-> FALSE, revoked |-> FALSE]
                   ELSE IF i \in Revoked(c) THEN [Links[i] EXCEPT !.revoked = TRUE] ELSE Links[i]]
  <2>1. Links' = [i \in DOMAIN Links' |-> Links'[i]]
    BY DEF Links
  <2> QED BY <1>0, <1>2, <1>5, <2>1
<1>7. UNCHANGED users
  BY DEF Replace
<1>8. Access!Issue(client, g)
  BY <1>3, <1>6, <1>7 DEF Access!Issue, Links, Link
<1> QED BY <1>1, <1>8 DEF Access!AccessNext

\* An accept uses an open link of a company that may have its address.
LEMMA GrantUses ==
    ASSUME IInv, NEW c \in Requests, Grant(c)
    PROVE  Access!AccessNext \/ UNCHANGED Access!accessVars
<1>0. PICK i, g : i = req[c].inv /\ g = req[c].email
  OBVIOUS
<1>1. /\ TypeOK /\ RequestOK(c) /\ pc[c] = "grant" /\ req[c] \in Call /\ i \in DOMAIN invs
      /\ g \in Guests
  BY <1>0 DEF IInv, Grant, TypeOK, RequestOK, Call
<1>2. CASE UNCHANGED <<users, invs>>
  BY <1>2, QuietAccess
<1>3. CASE /\ req[c].saw = 0 => KeyIsFree(g)
           /\ users' = [users EXCEPT ![g] = Granted(c)]
           /\ invs' = [invs EXCEPT ![i].used = TRUE]
  <2>1. /\ Granted(c).client = invs[i].client /\ invs[i].email = g
        /\ users[g] # NoUser => users[g].client = invs[i].client
    BY <1>0, <1>1, <1>3, GrantedFact DEF RequestOK
  <2>2. ~invs[i].used /\ ~invs[i].revoked
    BY <1>0, <1>1 DEF RequestOK
  <2>3. Links[i].client = invs[i].client /\ Links[i].email = g /\ ~Links[i].used /\ ~Links[i].revoked
    BY <1>1, <2>1, <2>2 DEF Links, Link
  <2>4. users[g].client \in {"none", invs[i].client}
    BY <2>1 DEF NoUser
  <2>5. Links' = [Links EXCEPT ![i].used = TRUE]
    <3>1. DOMAIN invs' = DOMAIN invs /\ \A j \in DOMAIN invs \ {i} : invs'[j] = invs[j]
      BY <1>3
    <3>2. invs'[i] = [invs[i] EXCEPT !.used = TRUE] /\ invs[i] \in Invitation
      BY <1>1, <1>3, InvitationFact
    <3>3. Link(i)' = [Link(i) EXCEPT !.used = TRUE]
      <4>1. /\ invs'[i].client = invs[i].client /\ invs'[i].email = invs[i].email
            /\ invs'[i].used = TRUE /\ invs'[i].revoked = invs[i].revoked
        BY <3>2 DEF Invitation
      <4> QED BY <1>1, <4>1, EditedLink
    <3>4. \A j \in DOMAIN invs \ {i} : Link(j)' = Link(j)
      BY <3>1 DEF Link
    <3>5. Links' = [j \in DOMAIN invs |-> Link(j)']
      BY <3>1 DEF Links
    <3>6. [Links EXCEPT ![i].used = TRUE] =
             [j \in DOMAIN invs |-> IF j = i THEN [Link(i) EXCEPT !.used = TRUE] ELSE Link(j)]
      BY DEF Links
    <3> QED BY <3>3, <3>4, <3>5, <3>6
  <2>6. [h \in Guests |-> users'[h].client] =
           [[h \in Guests |-> users[h].client] EXCEPT ![g] = invs[i].client]
    BY <1>1, <1>3, <2>1 DEF TypeOK
  <2>7. i \in DOMAIN Links
    BY <1>1 DEF Links
  <2>8. Access!Use(i)
    BY <1>1, <2>3, <2>4, <2>5, <2>6 DEF Access!Use, Links, Link
  <2> QED BY <2>7, <2>8 DEF Access!AccessNext, Links
<1> QED BY <1>0, <1>2, <1>3 DEF Grant

\* The panel enrols, or edits a user without changing the company.
LEMMA PanelEnrols ==
    ASSUME TypeOK, PanelCreate \/ PanelUpdate
    PROVE  Access!AccessNext \/ UNCHANGED Access!accessVars
<1>1. CASE PanelCreate
  <2>1. PICK g \in Guests, client \in Clients, admin \in BOOLEAN :
           users[g] = NoUser /\ users' = [users EXCEPT ![g] = [client |-> client, active |-> TRUE, admin |-> admin]]
    BY <1>1 DEF PanelCreate, KeyIsFree
  <2>2. users[g].client = "none"
    BY <2>1 DEF NoUser
  <2>3. [h \in Guests |-> users'[h].client] =
           [[h \in Guests |-> users[h].client] EXCEPT ![g] = client]
    BY <2>1 DEF TypeOK
  <2>4. Access!Enrol(g, client)
    BY <1>1, <2>2, <2>3 DEF Access!Enrol, PanelCreate
  <2> QED BY <2>4 DEF Access!AccessNext
<1>2. CASE PanelUpdate
  <2>1. PICK g \in Guests, active \in BOOLEAN, admin \in BOOLEAN :
           users[g] # NoUser /\ users' = [users EXCEPT ![g].active = active, ![g].admin = admin]
    BY <1>2 DEF PanelUpdate
  <2>2. users[g] \in User
    BY <2>1 DEF TypeOK
  <2>3. \A h \in Guests : users'[h].client = users[h].client
    BY <2>1, <2>2 DEF TypeOK, User
  <2> QED BY <1>2, <2>3, QuietAccess DEF PanelUpdate
<1> QED BY <1>1, <1>2

LEMMA AccessStep ==
    ASSUME IInv, IInv', [Next]_vars
    PROVE  [Access!AccessNext]_(Access!accessVars)
<1> SUFFICES Access!AccessNext \/ UNCHANGED Access!accessVars
  OBVIOUS
<1>1. TypeOK /\ TypeOK'
  BY DEF IInv
<1>2. ASSUME UNCHANGED <<users, invs>> PROVE UNCHANGED Access!accessVars
  BY <1>2, QuietAccess
<1>3. ASSUME NEW c \in Requests, Step(c) PROVE Access!AccessNext \/ UNCHANGED Access!accessVars
  <2>1. CASE Replace(c)
    BY <1>1, <2>1, ReplaceIssues
  <2>2. CASE Grant(c)
    BY <2>2, GrantUses
  <2>3. CASE Deactivate(c)
    <3>1. RequestOK(c)
      BY DEF IInv
    <3>2. req[c].email \in Guests /\ users[req[c].email] \in User
      BY <1>1, <2>3, <3>1 DEF Deactivate, TypeOK, RequestOK, Call
    <3>3. \A h \in Guests : users'[h].client = users[h].client
      BY <1>1, <2>3, <3>2 DEF Deactivate, TypeOK, User
    <3> QED BY <2>3, <3>3, QuietAccess DEF Deactivate
  <2>4. CASE ~Replace(c) /\ ~Grant(c) /\ ~Deactivate(c)
    <3>1. UNCHANGED <<users, invs>>
      BY <1>3, <2>4 DEF Step, LookUser, LookLive, Mail, RequestFails, Lock, CheckAccept, Row, LookFresh,
         EndConfirm
    <3> QED BY <3>1, <1>2
  <2> QED BY <2>1, <2>2, <2>3, <2>4
<1>4. ASSUME NEW c \in Requests, Ask(c) PROVE UNCHANGED <<users, invs>>
  BY <1>4 DEF Ask, StartInvite, StartResend, StartAccept, StartDeactivate, StartConfirm
<1>5. ASSUME Expire PROVE UNCHANGED Access!accessVars
  <2>1. PICK i \in DOMAIN invs : invs' = [invs EXCEPT ![i].expired = TRUE]
    BY <1>5 DEF Expire
  <2>2. invs[i] \in Invitation
    BY <1>1, InvitationFact
  <2>3. \A j \in DOMAIN invs :
           /\ invs'[j].client = invs[j].client /\ invs'[j].email = invs[j].email
           /\ invs'[j].used = invs[j].used /\ invs'[j].revoked = invs[j].revoked
    BY <2>1, <2>2 DEF Invitation
  <2> QED BY <1>5, <2>1, <2>3, QuietAccess DEF Expire
<1>6. ASSUME World PROVE Access!AccessNext \/ UNCHANGED Access!accessVars
  <2>1. CASE PanelCreate \/ PanelUpdate
    BY <1>1, <2>1, PanelEnrols
  <2>2. CASE Expire
    BY <2>2, <1>5
  <2>3. CASE Review \/ AuthorLeaves \/ ClientLeaves \/ ReviewExpires \/ Crash
    BY <2>3, <1>2 DEF Review, AuthorLeaves, ClientLeaves, ReviewExpires, Crash
  <2> QED BY <1>6, <2>1, <2>2, <2>3 DEF World
<1>7. CASE UNCHANGED vars
  BY <1>7, <1>2 DEF vars
<1> QED BY <1>2, <1>3, <1>4, <1>6, <1>7 DEF Next

\* However the requests of several companies, the panel, the clock and restarts interleave, the
\* invitations keep the promise of PortalAccess: a link ends once, a new one takes the place of the
\* open ones of its own company and address, and nobody passes from one company to another.
THEOREM PortalKeepsItsPromise == Spec => LinksImplemented
<1>1. Init => Access!AccessInit
  <2> SUFFICES ASSUME Init PROVE Access!AccessInit
    OBVIOUS
  <2>1. [i \in DOMAIN invs |-> [client |-> invs[i].client, email |-> invs[i].email,
            used |-> invs[i].used, revoked |-> invs[i].revoked]] = <<>>
    BY DEF Init
  <2>2. [g \in Guests |-> users[g].client] = [g \in Guests |-> "none"]
    BY DEF Init, NoUser
  <2> QED BY <2>1, <2>2 DEF Access!AccessInit
<1>2. IInv /\ IInv' /\ [Next]_vars => [Access!AccessNext]_(Access!accessVars)
  BY AccessStep
<1> QED BY <1>1, <1>2, Invariance, PTL DEF Spec, LinksImplemented, Access!AccessSpec
=============================================================================
