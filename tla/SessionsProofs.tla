-------------------------- MODULE SessionsProofs --------------------------
(***************************************************************************)
(* Accounts and sessions for any number of calls, addresses and slugs:     *)
(* however registrations overlap, a shop is founded once and an address    *)
(* has one account; however exchanges of tokens overlap, an exchanged      *)
(* token is revoked, and a call to be refused from the start issues none.  *)
(*                                                                         *)
(* The inductive invariant says of every call what its earlier steps have  *)
(* established and no other call can undo: rows are revoked for good,      *)
(* accounts disabled for good and shops never deleted.                     *)
(***************************************************************************)
EXTENDS Sessions, FiniteSetTheorems, TLAPS

Types ==
  /\ organizations \subseteq Slugs
  /\ users \subseteq [email : Addresses, shop : Slugs, role : Roles]
  /\ disabled \subseteq Addresses
  /\ tokens \in [Calls -> [state : {"none", "live", "expired", "revoked"}, email : Addresses \cup {None},
                           parent : Calls \cup {None}]]
  /\ calls \in [Calls -> CallType]

Spent(t) == tokens[t].state \in {"revoked", "expired"}

\* What the earlier steps of a call have established.
Filed(c) ==
  /\ calls[c].at \in {"find", "slug", "create"} =>
       /\ calls[c].email \in Addresses /\ calls[c].slug \in Slugs /\ calls[c].token = None
       /\ \/ calls[c].op = "register" /\ calls[c].role = "OWNER"
          \/ calls[c].op = "invite" /\ calls[c].role \in InvitedRoles /\ calls[c].slug \in organizations
  /\ calls[c].at \in {"find", "slug"} /\ calls[c].op = "register" => calls[c].slug[2] \in Nat
  /\ calls[c].at = "slug" => calls[c].op = "register"

Presented(c) ==
  /\ calls[c].token # None => tokens[calls[c].token].state # "none"
  /\ calls[c].at \in {"check", "user", "revoke"} => calls[c].token # None
  /\ calls[c].at = "verify" => calls[c].token = None
  /\ calls[c].at = "issue" /\ calls[c].token # None => tokens[calls[c].token].state = "revoked"
  /\ tokens[c].state # "none" => calls[c].at \in {"answering", "answered", "failed"}

Hopeless(c) ==
  calls[c].hopeless =>
    /\ tokens[c].state = "none"
    /\ calls[c].at \in {"verify", "check", "user", "failed"}
    /\ calls[c].at \in {"verify", "user"} => calls[c].email \in disabled
    /\ calls[c].at = "check" => Spent(calls[c].token) \/ calls[c].email \in disabled

CallInv(c) == Filed(c) /\ Presented(c) /\ Hopeless(c)

Founded ==
  /\ \A u, v \in users : u.email = v.email => u = v
  /\ \A u \in users : u.shop \in organizations
  /\ founders \subseteq {u \in users : u.role = "OWNER"}
  /\ \A s \in organizations : \E o \in founders : {f \in founders : f.shop = s} = {o}

Rotated == \A c \in Calls : tokens[c].parent # None => tokens[tokens[c].parent].state = "revoked"

IInv == Types /\ Founded /\ Rotated /\ \A c \in Calls : CallInv(c)

-----------------------------------------------------------------------------
(* What no step of any call undoes. *)

\* Rows are revoked for good, and only the call itself issues its row.
Lasting(c) ==
  /\ disabled \subseteq disabled' /\ organizations \subseteq organizations'
  /\ \A t \in Calls :
       /\ tokens[t].state = "revoked" => tokens'[t].state = "revoked"
       /\ tokens[t].state = "expired" => tokens'[t].state \in {"expired", "revoked"}
       /\ tokens[t].state # "none" => tokens'[t].state # "none"
       /\ t # c /\ tokens[t].state = "none" => tokens'[t].state = "none"

\* A step of one call leaves what the others rely on.
LEMMA OthersRely ==
  ASSUME IInv, NEW c \in Calls, Lasting(c), NEW d \in Calls, d # c, calls'[d] = calls[d]
  PROVE  CallInv(d)'
<1> calls[d].token \in Calls \cup {None}
  BY DEF IInv, Types, CallType
<1>1. Filed(d)'
  BY DEF IInv, CallInv, Filed, Lasting
<1>2. Presented(d)'
  BY DEF IInv, CallInv, Presented, Lasting
<1>3. Hopeless(d)'
  <2>1. CASE calls[d].hopeless /\ calls[d].at = "check"
    <3>1. calls[d].token \in Calls
      BY <2>1 DEF IInv, CallInv, Presented
    <3> QED
      BY <2>1, <3>1 DEF IInv, CallInv, Hopeless, Lasting, Spent
  <2>2. CASE ~(calls[d].hopeless /\ calls[d].at = "check")
    BY <2>2 DEF IInv, CallInv, Hopeless, Lasting
  <2> QED
    BY <2>1, <2>2
<1> QED
  BY <1>1, <1>2, <1>3 DEF CallInv

\* A step that leaves the tokens alone.
LEMMA TokensStay ==
  ASSUME NEW c \in Calls, tokens' = tokens, disabled \subseteq disabled', organizations \subseteq organizations'
  PROVE  Lasting(c)
BY DEF Lasting

\* So it suffices to look at the call that moves.
LEMMA OneCallMoves ==
  ASSUME IInv, NEW c \in Calls, Lasting(c), NEW x \in CallType,
         calls' = [calls EXCEPT ![c] = x],
         CallInv(c)', Founded', Rotated',
         organizations' \subseteq Slugs, disabled' \subseteq Addresses,
         users' \subseteq [email : Addresses, shop : Slugs, role : Roles],
         tokens' \in [Calls -> [state : {"none", "live", "expired", "revoked"},
                                email : Addresses \cup {None}, parent : Calls \cup {None}]]
  PROVE  IInv'
<1>1. calls' \in [Calls -> CallType] /\ \A d \in Calls \ {c} : calls'[d] = calls[d]
  BY DEF IInv, Types
<1>2. Types'
  BY <1>1 DEF Types
<1>3. \A d \in Calls : CallInv(d)'
  BY <1>1, OthersRely
<1> QED
  BY <1>2, <1>3 DEF IInv

\* Most steps write nothing but what the call keeps.
LEMMA OnlyTheCall ==
  ASSUME IInv, NEW c \in Calls, NEW x \in CallType, calls' = [calls EXCEPT ![c] = x],
         UNCHANGED <<organizations, users, founders, disabled, tokens>>, CallInv(c)'
  PROVE  IInv'
<1>1. Lasting(c)
  BY TokensStay
<1>2. Founded' /\ Rotated'
  BY DEF IInv, Founded, Rotated
<1> QED
  BY <1>1, <1>2, OneCallMoves DEF IInv, Types

\* A call that ends relies on nothing any more.
LEMMA EndedCall ==
  ASSUME IInv, NEW c \in Calls, NEW at \in Ended, End(c, at), UNCHANGED tokens,
         calls[c].hopeless => at = "failed"
  PROVE  /\ \E x \in CallType : calls' = [calls EXCEPT ![c] = x]
         /\ CallInv(c)'
<1> DEFINE x == Call("none", at, None, None, None, calls[c].token, calls[c].hopeless)
<1>0. calls[c] \in CallType /\ c \in DOMAIN calls
  BY DEF IInv, Types
<1>1. x \in CallType
  BY <1>0 DEF CallType, Call, Steps, Ended
<1>2. calls' = [calls EXCEPT ![c] = x]
  BY DEF End
<1>3. /\ calls'[c].at = at /\ calls'[c].token = calls[c].token
      /\ calls'[c].hopeless = calls[c].hopeless
  BY <1>0, <1>2 DEF Call
<1>4. Filed(c)'
  BY <1>3 DEF Filed, Ended
<1>5. Presented(c)'
  BY <1>3 DEF Presented, Ended, IInv, CallInv
<1>6. Hopeless(c)'
  BY <1>3 DEF Hopeless, Ended, IInv, CallInv
<1> QED
  BY <1>1, <1>2, <1>4, <1>5, <1>6 DEF CallInv

\* A call that goes on keeps everything but its place.
LEMMA MovedCall ==
  ASSUME IInv, NEW c \in Calls, NEW at \in Steps, To(c, at)
  PROVE  /\ \E x \in CallType : calls' = [calls EXCEPT ![c] = x]
         /\ calls'[c].at = at /\ calls'[c].op = calls[c].op /\ calls'[c].email = calls[c].email
         /\ calls'[c].slug = calls[c].slug /\ calls'[c].role = calls[c].role
         /\ calls'[c].token = calls[c].token /\ calls'[c].hopeless = calls[c].hopeless
<1> DEFINE x == [calls[c] EXCEPT !.at = at]
<1>0. calls[c] \in CallType /\ c \in DOMAIN calls
  BY DEF IInv, Types
<1>1. x \in CallType
  BY <1>0 DEF CallType
<1>2. calls' = [calls EXCEPT ![c] = x]
  BY <1>0 DEF To
<1>3. calls'[c] = x
  BY <1>0, <1>2
<1> QED
  BY <1>0, <1>1, <1>2, <1>3 DEF CallType

-----------------------------------------------------------------------------
(* Step by step. *)

\* A call comes in.
LEMMA Beginning ==
  ASSUME IInv, NEW c \in Calls,
         BeginRegister(c) \/ BeginInvite(c) \/ BeginLogin(c) \/ BeginRefresh(c)
  PROVE  IInv'
<1>0. c \in DOMAIN calls /\ tokens[c] \in [state : {"none", "live", "expired", "revoked"},
                                             email : Addresses \cup {None}, parent : Calls \cup {None}]
  BY DEF IInv, Types
<1>1. CASE BeginRegister(c)
  <2>1. PICK e \in Emails, n \in Names :
               Begin(c, Call("register", "find", e, <<n, 0>>, "OWNER", None, FALSE))
    BY <1>1 DEF BeginRegister
  <2> DEFINE x == Call("register", "find", e, <<n, 0>>, "OWNER", None, FALSE)
  <2>2. e \in Addresses /\ <<n, 0>> \in Slugs
    BY DEF Addresses, Slugs
  <2>3. x \in CallType
    BY <2>2 DEF CallType, Call, Steps, Roles
  <2>4. calls' = [calls EXCEPT ![c] = x] /\ tokens[c].state = "none"
        /\ UNCHANGED <<organizations, users, founders, disabled, tokens>>
    BY <2>1 DEF Begin, IInv, CallInv, Presented
  <2>5. calls'[c] = x
    BY <1>0, <2>4
  <2>6. CallInv(c)'
    BY <2>2, <2>4, <2>5 DEF CallInv, Filed, Presented, Hopeless, Call
  <2> QED
    BY <2>3, <2>4, <2>6, OnlyTheCall
<1>2. CASE BeginInvite(c)
  <2>1. PICK actor \in users, e \in Emails, role \in InvitedRoles :
               Begin(c, Call("invite", "find", e, actor.shop, role, None, FALSE))
    BY <1>2 DEF BeginInvite
  <2> DEFINE x == Call("invite", "find", e, actor.shop, role, None, FALSE)
  <2>2. e \in Addresses /\ actor.shop \in Slugs /\ actor.shop \in organizations
    BY DEF Addresses, IInv, Types, Founded
  <2>3. x \in CallType
    BY <2>2 DEF CallType, Call, Steps, Roles
  <2>4. calls' = [calls EXCEPT ![c] = x] /\ tokens[c].state = "none"
        /\ UNCHANGED <<organizations, users, founders, disabled, tokens>>
    BY <2>1 DEF Begin, IInv, CallInv, Presented
  <2>5. calls'[c] = x
    BY <1>0, <2>4
  <2>6. CallInv(c)'
    BY <2>2, <2>4, <2>5 DEF CallInv, Filed, Presented, Hopeless, Call
  <2> QED
    BY <2>3, <2>4, <2>6, OnlyTheCall
<1>3. CASE BeginLogin(c)
  <2>1. PICK e \in Emails : Begin(c, Call("login", "verify", e, None, None, None, e \in disabled))
    BY <1>3 DEF BeginLogin
  <2> DEFINE x == Call("login", "verify", e, None, None, None, e \in disabled)
  <2>2. e \in Addresses /\ (e \in disabled) \in BOOLEAN
    BY DEF Addresses
  <2>3. x \in CallType
    BY <2>2 DEF CallType, Call, Steps
  <2>4. calls' = [calls EXCEPT ![c] = x] /\ tokens[c].state = "none"
        /\ UNCHANGED <<organizations, users, founders, disabled, tokens>>
    BY <2>1 DEF Begin, IInv, CallInv, Presented
  <2>5. calls'[c] = x
    BY <1>0, <2>4
  <2>6. /\ calls'[c].at = "verify" /\ calls'[c].email = e /\ calls'[c].token = None
        /\ calls'[c].hopeless = (e \in disabled)
    BY <2>5 DEF Call
  <2>7. Filed(c)' /\ Presented(c)'
    BY <2>4, <2>6 DEF Filed, Presented
  <2>8. Hopeless(c)'
    BY <2>4, <2>6 DEF Hopeless
  <2> QED
    BY <2>3, <2>4, <2>7, <2>8, OnlyTheCall DEF CallInv
<1>4. CASE BeginRefresh(c)
  <2>1. PICK t \in Calls :
          /\ Known(t)
          /\ Begin(c, Call("refresh", "check", tokens[t].email, None, None, t,
                           tokens[t].state \in {"revoked", "expired"} \/ tokens[t].email \in disabled))
    BY <1>4 DEF BeginRefresh
  <2> DEFINE reason == tokens[t].state \in {"revoked", "expired"} \/ tokens[t].email \in disabled
             x == Call("refresh", "check", tokens[t].email, None, None, t, reason)
  <2>2. /\ tokens[t].email \in Addresses \cup {None} /\ reason \in BOOLEAN
        /\ tokens[t].state # "none" /\ t # None
    BY <2>1, SessionsAssumption DEF IInv, Types, Known
  <2>3. x \in CallType
    BY <2>2 DEF CallType, Call, Steps
  <2>4. calls' = [calls EXCEPT ![c] = x] /\ tokens[c].state = "none"
        /\ UNCHANGED <<organizations, users, founders, disabled, tokens>>
    BY <2>1 DEF Begin, IInv, CallInv, Presented
  <2>5. calls'[c] = x
    BY <1>0, <2>4
  <2>6. /\ calls'[c].at = "check" /\ calls'[c].email = tokens[t].email /\ calls'[c].token = t
        /\ calls'[c].hopeless = reason
    BY <2>5 DEF Call
  <2>7. Filed(c)' /\ Presented(c)'
    BY <2>2, <2>4, <2>6 DEF Filed, Presented
  <2>8. Hopeless(c)'
    <3>1. calls'[c].hopeless => Spent(t)' \/ tokens[t].email \in disabled'
      BY <2>4, <2>6 DEF Spent
    <3> HIDE DEF reason, x
    <3> QED
      BY <2>4, <2>6, <3>1 DEF Hopeless
  <2> QED
    BY <2>3, <2>4, <2>7, <2>8, OnlyTheCall DEF CallInv
<1> QED
  BY <1>1, <1>2, <1>3, <1>4

\* A step that writes no table, and either goes on or ends the call.
LEMMA Looking ==
  ASSUME IInv, NEW c \in Calls,
         findEmail(c) \/ verifyPassword(c) \/ checkStored(c) \/ checkUser(c) \/ Answered(c) \/ Fails(c)
  PROVE  IInv'
<1>1. UNCHANGED <<organizations, users, founders, disabled, tokens>>
  BY DEF findEmail, verifyPassword, checkStored, checkUser, Answered, Fails
<1>2. CASE End(c, "failed")
  BY <1>1, <1>2, EndedCall, OnlyTheCall DEF Ended
<1>3. CASE Answered(c)
  <2>1. ~calls[c].hopeless
    BY <1>3 DEF Answered, IInv, CallInv, Hopeless
  <2>2. End(c, "answered")
    BY <1>3 DEF Answered
  <2> QED
    BY <1>1, <2>1, <2>2, EndedCall, OnlyTheCall DEF Ended
<1>4. ASSUME NEW at \in Steps, To(c, at), CallInv(c)' PROVE IInv'
  BY <1>1, <1>4, MovedCall, OnlyTheCall
<1>5. CASE findEmail(c) /\ ~End(c, "failed")
  <2>1. PICK at \in {"slug", "create"} : To(c, at) /\ (at = "slug" <=> calls[c].op = "register")
    BY <1>5 DEF findEmail
  <2>2. at \in Steps /\ calls[c].at = "find"
    BY <1>5 DEF Steps, findEmail
  <2>3. CallInv(c)'
    BY <1>1, <2>1, <2>2, MovedCall DEF IInv, CallInv, Filed, Presented, Hopeless
  <2> QED
    BY <1>4, <2>1, <2>2, <2>3
<1>6. CASE verifyPassword(c) /\ ~End(c, "failed")
  <2>1. /\ To(c, "issue") /\ "issue" \in Steps
        /\ calls[c].at = "verify" /\ calls[c].email \notin disabled
    BY <1>6 DEF Steps, verifyPassword
  <2>2. CallInv(c)'
    BY <1>1, <2>1, MovedCall DEF IInv, CallInv, Filed, Presented, Hopeless
  <2> QED
    BY <1>4, <2>1, <2>2
<1>7. CASE checkStored(c) /\ ~End(c, "failed")
  <2>1. /\ To(c, "user") /\ "user" \in Steps
        /\ calls[c].at = "check" /\ ~Spent(calls[c].token)
    BY <1>7 DEF Steps, checkStored, Spent
  <2>2. CallInv(c)'
    BY <1>1, <2>1, MovedCall DEF IInv, CallInv, Filed, Presented, Hopeless
  <2> QED
    BY <1>4, <2>1, <2>2
<1>8. CASE checkUser(c) /\ ~End(c, "failed")
  <2>1. /\ To(c, "revoke") /\ "revoke" \in Steps
        /\ calls[c].at = "user" /\ calls[c].email \notin disabled
    BY <1>8 DEF Steps, checkUser
  <2>2. CallInv(c)'
    BY <1>1, <2>1, MovedCall DEF IInv, CallInv, Filed, Presented, Hopeless
  <2> QED
    BY <1>4, <2>1, <2>2
<1>9. CASE Fails(c)
  BY <1>2, <1>9 DEF Fails
<1> QED
  BY <1>2, <1>3, <1>5, <1>6, <1>7, <1>8, <1>9

\* The loop over the candidates.
LEMMA Slugging == ASSUME IInv, NEW c \in Calls, uniqueSlug(c) PROVE IInv'
<1> DEFINE slug == calls[c].slug
<1>0. /\ calls[c].at = "slug" /\ UNCHANGED <<organizations, users, founders, disabled, tokens>>
      /\ calls[c] \in CallType /\ c \in DOMAIN calls
  BY DEF uniqueSlug, IInv, Types
<1>1. slug \in Slugs /\ slug[2] \in Nat /\ calls[c].op = "register"
  BY <1>0 DEF IInv, CallInv, Filed
<1>2. CASE To(c, "create")
  <2>1. CallInv(c)'
    BY <1>0, <1>2, MovedCall DEF Steps, IInv, CallInv, Filed, Presented, Hopeless
  <2> QED
    BY <1>0, <1>2, <2>1, MovedCall, OnlyTheCall DEF Steps
<1>3. ASSUME NEW at \in {"slug", "create"}, NEW suffix \in Nat \cup Calls,
             at = "slug" => suffix \in Nat,
             calls' = [calls EXCEPT ![c].at = at, ![c].slug = <<slug[1], suffix>>]
      PROVE  IInv'
  <2> DEFINE new == <<slug[1], suffix>>
             x == [calls[c] EXCEPT !.at = at, !.slug = new]
  <2>1. new \in Slugs /\ new[2] = suffix
    BY <1>1 DEF Slugs
  <2> HIDE DEF new
  <2>2. x \in CallType
    BY <1>0, <2>1 DEF CallType, Steps
  <2>3. calls' = [calls EXCEPT ![c] = x]
    BY <1>0, <1>3 DEF new
  <2>4. /\ calls'[c].at = at /\ calls'[c].slug = new /\ calls'[c].op = calls[c].op
        /\ calls'[c].email = calls[c].email /\ calls'[c].role = calls[c].role
        /\ calls'[c].token = calls[c].token /\ calls'[c].hopeless = calls[c].hopeless
    BY <1>0, <2>3 DEF CallType
  <2> HIDE DEF x
  <2>5. CallInv(c)'
    BY <1>0, <1>1, <1>3, <2>1, <2>4 DEF IInv, CallInv, Filed, Presented, Hopeless
  <2> QED
    BY <1>0, <2>2, <2>3, <2>5, OnlyTheCall
<1>4. \/ To(c, "create")
      \/ calls' = [calls EXCEPT ![c].at = "slug", ![c].slug = <<slug[1], slug[2] + 1>>]
      \/ calls' = [calls EXCEPT ![c].at = "create", ![c].slug = <<slug[1], c>>]
  BY DEF uniqueSlug
<1>5. slug[2] + 1 \in Nat \cup Calls /\ slug[2] + 1 \in Nat /\ c \in Nat \cup Calls
  BY <1>1
<1> HIDE DEF slug
<1>6. CASE calls' = [calls EXCEPT ![c].at = "slug", ![c].slug = <<slug[1], slug[2] + 1>>]
  BY <1>3, <1>5, <1>6
<1>7. CASE calls' = [calls EXCEPT ![c].at = "create", ![c].slug = <<slug[1], c>>]
  BY <1>3, <1>5, <1>7
<1> QED
  BY <1>2, <1>4, <1>6, <1>7

\* A shop comes with its owner, whose address nobody has.
LEMMA Founding == ASSUME IInv, NEW c \in Calls, createOrganization(c) PROVE IInv'
<1>0. /\ calls[c].at = "create" /\ calls[c].op = "register" /\ UNCHANGED <<disabled, tokens>>
      /\ calls[c] \in CallType /\ c \in DOMAIN calls
  BY DEF createOrganization, IInv, Types
<1>1. CASE End(c, "failed") /\ UNCHANGED <<organizations, users, founders>>
  BY <1>0, <1>1, EndedCall, OnlyTheCall DEF Ended
<1>2. CASE ~(End(c, "failed") /\ UNCHANGED <<organizations, users, founders>>)
  <2> DEFINE new == calls[c].slug
             u0  == NewUser(c)
  <2>1. /\ new \notin organizations /\ Emailed(calls[c].email) = {}
        /\ organizations' = organizations \cup {new}
        /\ users' = users \cup {u0} /\ founders' = founders \cup {u0}
        /\ To(c, "issue")
    BY <1>2 DEF createOrganization
  <2>2. /\ calls[c].email \in Addresses /\ new \in Slugs /\ calls[c].role = "OWNER"
        /\ calls[c].token = None
    BY <1>0 DEF IInv, CallInv, Filed
  <2>3. /\ u0 \in [email : Addresses, shop : Slugs, role : Roles]
        /\ u0.email = calls[c].email /\ u0.shop = new /\ u0.role = "OWNER"
    BY <2>2 DEF NewUser, Roles
  <2> HIDE DEF new, u0
  <2>4. \A u \in users : u.email # u0.email /\ u.shop # u0.shop
    BY <2>1, <2>3 DEF Emailed, IInv, Founded
  <2>5. Founded'
    <3>1. /\ \A u, v \in users' : u.email = v.email => u = v
          /\ \A u \in users' : u.shop \in organizations'
          /\ founders' \subseteq {u \in users' : u.role = "OWNER"}
      BY <2>1, <2>3, <2>4 DEF IInv, Founded
    <3>0. \A f \in founders : f.shop # u0.shop
      BY <2>4 DEF IInv, Founded
    <3>2. ASSUME NEW s \in organizations'
          PROVE  \E o \in founders' : {f \in founders' : f.shop = s} = {o}
      <4>1. CASE s = new
        <5>1. {f \in founders' : f.shop = s} = {u0}
          BY <2>1, <2>3, <3>0, <4>1
        <5> QED
          BY <2>1, <5>1
      <4>2. CASE s # new
        <5>1. PICK o \in founders : {f \in founders : f.shop = s} = {o}
          BY <2>1, <4>2 DEF IInv, Founded
        <5>2. {f \in founders' : f.shop = s} = {o}
          BY <2>1, <2>3, <4>2, <5>1
        <5> QED
          BY <2>1, <5>2
      <4> QED
        BY <4>1, <4>2
    <3> QED
      BY <3>1, <3>2 DEF Founded
  <2>6. Lasting(c)
    BY <1>0, <2>1, TokensStay
  <2>7. CallInv(c)'
    BY <1>0, <2>1, <2>2, MovedCall DEF Steps, IInv, CallInv, Filed, Presented, Hopeless
  <2>8. Rotated'
    BY <1>0 DEF IInv, Rotated
  <2>9. organizations' \subseteq Slugs /\ users' \subseteq [email : Addresses, shop : Slugs, role : Roles]
    BY <2>1, <2>2, <2>3 DEF IInv, Types, new
  <2>10. \E x \in CallType : calls' = [calls EXCEPT ![c] = x]
    BY <2>1, MovedCall DEF Steps
  <2> QED
    BY <1>0, <2>5, <2>6, <2>7, <2>8, <2>9, <2>10, OneCallMoves DEF IInv, Types
<1> QED
  BY <1>1, <1>2

\* Whoever is invited into a shop, as an owner or not, did not found it.
LEMMA Inviting == ASSUME IInv, NEW c \in Calls, createUser(c) PROVE IInv'
<1>0. /\ calls[c].at = "create" /\ calls[c].op = "invite" /\ UNCHANGED <<organizations, founders, disabled, tokens>>
      /\ calls[c] \in CallType /\ c \in DOMAIN calls
  BY DEF createUser, IInv, Types
<1>1. CASE End(c, "failed") /\ UNCHANGED users
  BY <1>0, <1>1, EndedCall, OnlyTheCall DEF Ended
<1>2. CASE ~(End(c, "failed") /\ UNCHANGED users)
  <2> DEFINE u0 == NewUser(c)
  <2>1. /\ Emailed(calls[c].email) = {} /\ users' = users \cup {u0} /\ To(c, "answering")
    BY <1>2 DEF createUser
  <2>2. /\ calls[c].email \in Addresses /\ calls[c].slug \in Slugs /\ calls[c].slug \in organizations
        /\ calls[c].role \in InvitedRoles
    BY <1>0 DEF IInv, CallInv, Filed
  <2>3. /\ u0 \in [email : Addresses, shop : Slugs, role : Roles]
        /\ u0.email = calls[c].email /\ u0.shop \in organizations
    BY <2>2 DEF NewUser, Roles
  <2> HIDE DEF u0
  <2>4. \A u \in users : u.email # u0.email
    BY <2>1, <2>3 DEF Emailed
  <2>5. Founded'
    <3>1. /\ \A u, v \in users' : u.email = v.email => u = v
          /\ \A u \in users' : u.shop \in organizations'
          /\ founders' \subseteq {u \in users' : u.role = "OWNER"}
      BY <1>0, <2>1, <2>3, <2>4 DEF IInv, Founded
    <3>2. \A s \in organizations' : \E o \in founders' : {f \in founders' : f.shop = s} = {o}
      BY <1>0 DEF IInv, Founded
    <3> QED
      BY <3>1, <3>2 DEF Founded
  <2>6. Lasting(c)
    BY <1>0, TokensStay
  <2>7. CallInv(c)'
    BY <1>0, <2>1, MovedCall DEF Steps, IInv, CallInv, Filed, Presented, Hopeless
  <2>8. Rotated'
    BY <1>0 DEF IInv, Rotated
  <2>9. users' \subseteq [email : Addresses, shop : Slugs, role : Roles]
    BY <2>1, <2>3 DEF IInv, Types
  <2>10. \E x \in CallType : calls' = [calls EXCEPT ![c] = x]
    BY <2>1, MovedCall DEF Steps
  <2> QED
    BY <1>0, <2>5, <2>6, <2>7, <2>8, <2>9, <2>10, OneCallMoves DEF IInv, Types
<1> QED
  BY <1>1, <1>2

\* The tables of tokens: a row is revoked, expires, or is issued.
Rows == [Calls -> [state : {"none", "live", "expired", "revoked"}, email : Addresses \cup {None},
                   parent : Calls \cup {None}]]

\* Revoking a row.
LEMMA Revoking ==
  ASSUME IInv, NEW c \in Calls, NEW t \in Calls, tokens[t].state # "none", tokens' = Revoked(t),
         disabled' = disabled, organizations' = organizations
  PROVE  /\ Lasting(c) /\ Rotated' /\ tokens' \in Rows
         /\ tokens'[t].state = "revoked"
         /\ t # c => tokens'[c].state = tokens[c].state
<1>1. tokens \in Rows
  BY DEF IInv, Types, Rows
<1>2. /\ tokens' \in Rows /\ tokens'[t].state = "revoked" /\ tokens'[t].parent = tokens[t].parent
      /\ \A x \in Calls \ {t} : tokens'[x] = tokens[x]
  BY <1>1 DEF Revoked, Rows
<1>3. Lasting(c)
  BY <1>2 DEF Lasting
<1>4. Rotated'
  <2> SUFFICES ASSUME NEW x \in Calls, tokens'[x].parent # None
               PROVE  tokens'[tokens'[x].parent].state = "revoked"
    BY DEF Rotated
  <2>1. tokens'[x].parent = tokens[x].parent /\ tokens[x].parent \in Calls
    BY <1>1, <1>2 DEF Rows
  <2>2. tokens[tokens[x].parent].state = "revoked"
    BY <2>1 DEF IInv, Rotated
  <2> QED
    BY <1>2, <2>1, <2>2
<1> QED
  BY <1>2, <1>3, <1>4

\* The old row is revoked before a successor is issued.
LEMMA Rotating == ASSUME IInv, NEW c \in Calls, rotate(c) PROVE IInv'
<1> DEFINE t == calls[c].token
<1>0. /\ calls[c].at = "revoke" /\ tokens' = Revoked(t) /\ To(c, "issue")
      /\ UNCHANGED <<organizations, users, founders, disabled>>
  BY DEF rotate
<1>1. t \in Calls /\ tokens[t].state # "none" /\ t # c
  BY <1>0 DEF IInv, CallInv, Presented, Types, CallType
<1>2. /\ Lasting(c) /\ Rotated' /\ tokens' \in Rows /\ tokens'[t].state = "revoked"
      /\ tokens'[c].state = tokens[c].state
  BY <1>0, <1>1, Revoking
<1>3. CallInv(c)'
  BY <1>0, <1>1, <1>2, MovedCall DEF Steps, IInv, CallInv, Filed, Presented, Hopeless
<1>4. Founded'
  BY <1>0 DEF IInv, Founded
<1>5. \E x \in CallType : calls' = [calls EXCEPT ![c] = x]
  BY <1>0, MovedCall DEF Steps
<1> QED
  BY <1>0, <1>2, <1>3, <1>4, <1>5, OneCallMoves DEF IInv, Types, Rows

\* The successor's row.
LEMMA Issuing == ASSUME IInv, NEW c \in Calls, issueTokens(c) PROVE IInv'
<1> DEFINE row == Row("live", calls[c].email, calls[c].token)
<1>0. /\ calls[c].at = "issue" /\ tokens' = [tokens EXCEPT ![c] = row] /\ To(c, "answering")
      /\ UNCHANGED <<organizations, users, founders, disabled>>
      /\ calls[c] \in CallType /\ tokens \in Rows
  BY DEF issueTokens, IInv, Types, Rows
<1>1. /\ tokens[c].state = "none" /\ ~calls[c].hopeless
      /\ calls[c].token # None =>
           calls[c].token \in Calls /\ tokens[calls[c].token].state = "revoked" /\ calls[c].token # c
  BY <1>0 DEF IInv, CallInv, Presented, Hopeless, CallType
<1>2. /\ tokens' \in Rows /\ tokens'[c].state = "live" /\ tokens'[c].parent = calls[c].token
      /\ \A x \in Calls \ {c} : tokens'[x] = tokens[x]
  BY <1>0 DEF Rows, Row, CallType
<1>3. Lasting(c)
  BY <1>0, <1>1, <1>2 DEF Lasting
<1>4. Rotated'
  <2> SUFFICES ASSUME NEW x \in Calls, tokens'[x].parent # None
               PROVE  tokens'[tokens'[x].parent].state = "revoked"
    BY DEF Rotated
  <2>1. CASE x = c
    BY <1>1, <1>2, <2>1
  <2>2. CASE x # c
    <3>1. tokens[x].parent \in Calls /\ tokens[tokens[x].parent].state = "revoked"
      BY <1>0, <1>2, <2>2 DEF IInv, Rotated, Rows
    <3> QED
      BY <1>1, <1>2, <2>2, <3>1
  <2> QED
    BY <2>1, <2>2
<1>5. CallInv(c)'
  BY <1>0, <1>1, <1>2, MovedCall DEF Steps, IInv, CallInv, Filed, Presented, Hopeless
<1>6. Founded'
  BY <1>0 DEF IInv, Founded
<1>7. \E x \in CallType : calls' = [calls EXCEPT ![c] = x]
  BY <1>0, MovedCall DEF Steps
<1> QED
  BY <1>0, <1>2, <1>3, <1>4, <1>5, <1>6, <1>7, OneCallMoves DEF IInv, Types, Rows

\* Signing out.
LEMMA SigningOut == ASSUME IInv, NEW c \in Calls, logout(c) PROVE IInv'
<1>1. PICK t \in Calls :
        /\ Known(t) /\ calls[c].at = "idle" /\ tokens' \in {tokens, Revoked(t)}
        /\ calls' = [calls EXCEPT ![c] = Call("logout", "answering", None, None, None, t, FALSE)]
  BY DEF logout
<1> DEFINE x == Call("logout", "answering", None, None, None, t, FALSE)
<1>2. /\ x \in CallType /\ x.at = "answering" /\ x.token = t /\ ~x.hopeless
      /\ c \in DOMAIN calls /\ tokens[t].state # "none" /\ t # c
  BY <1>1, SessionsAssumption DEF Call, CallType, Steps, IInv, Types, Known
<1>3. calls'[c] = x
  BY <1>1, <1>2
<1>4. UNCHANGED <<organizations, users, founders, disabled>>
  BY DEF logout
<1>5. /\ Lasting(c) /\ Rotated' /\ tokens' \in Rows
      /\ tokens'[t].state # "none"
  <2>1. CASE tokens' = tokens
    BY <1>2, <1>4, <2>1, TokensStay DEF IInv, Types, Rows, Rotated
  <2>2. CASE tokens' = Revoked(t)
    <3>1. Lasting(c) /\ Rotated' /\ tokens' \in Rows /\ tokens'[t].state = "revoked"
      BY <1>2, <1>4, <2>2, Revoking
    <3> QED
      BY <3>1
  <2> QED
    BY <1>1, <2>1, <2>2
<1> HIDE DEF x
<1>6. CallInv(c)'
  BY <1>2, <1>3, <1>5 DEF CallInv, Filed, Presented, Hopeless
<1>7. Founded'
  BY <1>4 DEF IInv, Founded
<1>8. calls' = [calls EXCEPT ![c] = x]
  BY <1>1 DEF x
<1> QED
  BY <1>2, <1>4, <1>5, <1>6, <1>7, <1>8, OneCallMoves DEF IInv, Types, Rows

\* A row expires: nobody's call moves.
LEMMA Expiring == ASSUME IInv, NEW t \in Calls, Expires(t) PROVE IInv'
<1>0. /\ tokens[t].state = "live" /\ tokens' = [tokens EXCEPT ![t].state = "expired"]
      /\ UNCHANGED <<organizations, users, founders, disabled, calls>> /\ tokens \in Rows
  BY DEF Expires, IInv, Types, Rows
<1>1. /\ tokens' \in Rows /\ tokens'[t].state = "expired" /\ tokens'[t].parent = tokens[t].parent
      /\ \A x \in Calls \ {t} : tokens'[x] = tokens[x]
  BY <1>0 DEF Rows
<1>2. \A c \in Calls : Lasting(c)
  BY <1>0, <1>1 DEF Lasting
<1>3. \A c \in Calls : CallInv(c)'
  <2> SUFFICES ASSUME NEW c \in Calls PROVE CallInv(c)'
    OBVIOUS
  <2>1. CASE \E d \in Calls : d # c
    BY <1>0, <1>2, <2>1, OthersRely
  <2>2. CASE ~\E d \in Calls : d # c
    <3>1. t = c
      BY <2>2
    <3>2. calls[c].token \in Calls \cup {None}
      BY DEF IInv, Types, CallType
    <3> QED
      BY <1>0, <1>1, <2>2, <3>1, <3>2 DEF IInv, CallInv, Filed, Presented, Hopeless, Spent
  <2> QED
    BY <2>1, <2>2
<1>4. Rotated'
  <2> SUFFICES ASSUME NEW x \in Calls, tokens'[x].parent # None
               PROVE  tokens'[tokens'[x].parent].state = "revoked"
    BY DEF Rotated
  <2>1. tokens'[x].parent = tokens[x].parent /\ tokens[x].parent \in Calls
    BY <1>0, <1>1 DEF Rows
  <2>2. tokens[tokens[x].parent].state = "revoked"
    BY <2>1 DEF IInv, Rotated
  <2> QED
    BY <1>0, <1>1, <2>1, <2>2
<1>5. Types' /\ Founded'
  BY <1>0, <1>1 DEF IInv, Types, Founded, Rows
<1> QED
  BY <1>3, <1>4, <1>5 DEF IInv

\* An account is disabled: nobody's call moves.
LEMMA Disabling == ASSUME IInv, DisableUser PROVE IInv'
<1>1. PICK u \in users : disabled' = disabled \cup {u.email}
  BY DEF DisableUser
<1>2. UNCHANGED <<organizations, users, founders, tokens, calls>>
  BY DEF DisableUser
<1>3. Types' /\ Founded' /\ Rotated'
  BY <1>1, <1>2 DEF IInv, Types, Founded, Rotated
<1>4. \A c \in Calls : CallInv(c)'
  BY <1>1, <1>2 DEF IInv, CallInv, Filed, Presented, Hopeless, Spent
<1> QED
  BY <1>3, <1>4 DEF IInv

-----------------------------------------------------------------------------
(* The theorems. *)

\* The shops there are at first have one founder each.
LEMMA InitIInv == Init => IInv
<1> SUFFICES ASSUME Init PROVE IInv
  OBVIOUS
<1>1. Types
  BY SessionsAssumption DEF Init, Types, CallType, Call, Row, Steps, Roles
<1>2. Founded
  <2>1. ASSUME NEW s \in organizations
        PROVE  \E o \in founders : {f \in founders : f.shop = s} = {o}
    <3>1. PICK o \in Owners : s = o.shop
      BY DEF Init
    <3>2. {f \in Owners : f.shop = s} = {o}
      BY <3>1, SessionsAssumption
    <3> QED
      BY <3>2 DEF Init
  <2>2. founders \subseteq {u \in users : u.role = "OWNER"}
    BY SessionsAssumption DEF Init
  <2> QED
    BY <2>1, <2>2, SessionsAssumption DEF Init, Founded
<1>3. Rotated /\ \A c \in Calls : CallInv(c)
  BY DEF Init, Rotated, CallInv, Filed, Presented, Hopeless, Call, Row
<1> QED
  BY <1>1, <1>2, <1>3 DEF IInv

\* Every step of every call keeps what all of them rely on.
LEMMA NextIInv == IInv /\ [Next]_vars => IInv'
<1> SUFFICES ASSUME IInv, [Next]_vars PROVE IInv'
  OBVIOUS
<1>1. ASSUME NEW c \in Calls, Handles(c) PROVE IInv'
  BY <1>1, Beginning, Looking, Slugging, Founding, Inviting, Rotating, Issuing, SigningOut, Expiring
  DEF Handles
<1>2. CASE UNCHANGED vars
  BY <1>2 DEF vars, IInv, Types, Founded, Rotated, CallInv, Filed, Presented, Hopeless, Spent
<1> QED
  BY <1>1, <1>2, Disabling DEF Next

\* The invariant holds in every reachable state.
THEOREM Invariance == Spec => []IInv
<1> QED
  BY InitIInv, NextIInv, PTL DEF Spec

\* Every table and every call has its type; a row is presented only once issued.
THEOREM TypeCorrect == Spec => []TypeOK
<1>1. IInv => TypeOK
  BY DEF IInv, Types, TypeOK, Founded, CallInv, Presented
<1> QED
  BY <1>1, Invariance, PTL

\* However registrations and invitations overlap and fail, and whatever roles the
\* invitations name, an address has one account and a shop one founder, who owns it.
THEOREM FoundedOnce == Spec => []ShopsAreFoundedOnce
<1>1. IInv => ShopsAreFoundedOnce
  <2> SUFFICES ASSUME IInv, NEW s \in organizations
               PROVE  Cardinality({f \in founders : f.shop = s}) = 1
    BY DEF ShopsAreFoundedOnce, IInv, Founded
  <2>1. PICK o \in founders : {f \in founders : f.shop = s} = {o}
    BY DEF IInv, Founded
  <2> QED
    BY <2>1, FS_Singleton
<1> QED
  BY <1>1, Invariance, PTL

\* However exchanges of one token overlap, an exchanged token is revoked.
THEOREM Rotation == Spec => []ExchangedIsSpent
<1>1. IInv => ExchangedIsSpent
  BY DEF IInv, Rotated, ExchangedIsSpent
<1> QED
  BY <1>1, Invariance, PTL

\* A call that should be refused when it comes in never issues a token.
THEOREM Refusal == Spec => []RefusedFromTheStart
<1>1. IInv => RefusedFromTheStart
  BY DEF IInv, CallInv, Hopeless, RefusedFromTheStart
<1> QED
  BY <1>1, Invariance, PTL
=============================================================================
