------------------------------ MODULE Sessions ------------------------------
(***************************************************************************)
(* Accounts and sessions of the API, await by await: a registration looks  *)
(* up the email and tries slugs before one transaction creates shop and    *)
(* owner; a refresh reads the stored row and the user before it revokes    *)
(* the row and issues a successor.  Any number of calls are between two of *)
(* their awaits at once, each may fail at any of them, and an answer may   *)
(* be lost.  The unique constraints of the tables are the only locks.      *)
(* The audit trail, which no handler reads, is left out.                   *)
(***************************************************************************)
EXTENDS Naturals, FiniteSets

CONSTANTS Calls,        \* bound: the calls there will be, each used once
          Emails,       \* the addresses they name
          Names,        \* names of shops, each standing for the slug made of it
          SlugAttempts, \* candidates tried before a random suffix (25 in the code)
          InvitedRoles, \* the roles an invitation may name, which the code does not narrow
          Owners,       \* the founders of the shops there are at first
          None

VARIABLES organizations, \* slugs
          users,         \* [email, shop, role]
          founders,      \* the users who came with their shop; no step reads it
          disabled,      \* emails of users with a disabledAt
          tokens,        \* refresh token rows, each named after the call that issued it
          calls

vars == <<organizations, users, founders, disabled, tokens, calls>>

Roles == {"OWNER"} \cup InvitedRoles
\* A slug is a name with the number of an attempt or a random suffix.
Slugs == Names \X (Nat \cup Calls)

Addresses == Emails \cup {u.email : u \in Owners}

ASSUME SessionsAssumption ==
  /\ SlugAttempts \in Nat \ {0} /\ None \notin Calls
  /\ Owners \subseteq [email : Addresses, shop : Slugs, role : {"OWNER"}]
  /\ \A u, v \in Owners : u.email = v.email \/ u.shop = v.shop => u = v

Ended == {"answered", "failed"}
Steps == {"idle", "find", "slug", "create", "verify", "check", "user", "revoke", "issue", "answering"} \cup Ended

\* What a call keeps between its awaits: slug is the candidate it is at.
\* hopeless, which no step reads, says that there was a reason to refuse the
\* call when it came in.
Call(op, at, email, slug, role, token, hopeless) ==
  [op |-> op, at |-> at, email |-> email, slug |-> slug, role |-> role, token |-> token,
   hopeless |-> hopeless]

Row(state, email, parent) == [state |-> state, email |-> email, parent |-> parent]
Emailed(email) == {u \in users : u.email = email}

To(c, at) == calls' = [calls EXCEPT ![c].at = at]
\* What a call kept is gone with it.
End(c, at) == calls' = [calls EXCEPT ![c] = Call("none", at, None, None, None, @.token, @.hopeless)]

Init ==
  /\ organizations = {u.shop : u \in Owners} /\ users = Owners /\ founders = Owners /\ disabled = {}
  /\ tokens = [c \in Calls |-> Row("none", None, None)]
  /\ calls = [c \in Calls |-> Call("none", "idle", None, None, None, None, FALSE)]

-----------------------------------------------------------------------------
(* Calls come in. *)

\* A client has the tokens it was given an answer with.
Known(t) == tokens[t].state # "none" /\ calls[t].at = "answered"

Begin(c, call) ==
  /\ calls[c].at = "idle"
  /\ calls' = [calls EXCEPT ![c] = call]
  /\ UNCHANGED <<organizations, users, founders, disabled, tokens>>

BeginRegister(c) ==
  \E e \in Emails, n \in Names :
    Begin(c, Call("register", "find", e, <<n, 0>>, "OWNER", None, FALSE))

\* Owners and administrators; their word is the access token's, no row is read.
\* The request names any role, "OWNER" as well: InviteUserDto accepts a string
\* and invite() casts it.  One that is no UserRole fails at the insert.
BeginInvite(c) ==
  \E actor \in users, e \in Emails, role \in InvitedRoles :
    /\ actor.role \in {"OWNER", "ADMIN"}
    /\ Begin(c, Call("invite", "find", e, actor.shop, role, None, FALSE))

BeginLogin(c) ==
  \E e \in Emails : Begin(c, Call("login", "verify", e, None, None, None, e \in disabled))

\* A client may refresh with one token twice: a first answer is lost, or two
\* tabs are open.
BeginRefresh(c) ==
  \E t \in Calls :
    /\ Known(t)
    /\ Begin(c, Call("refresh", "check", tokens[t].email, None, None, t,
                     tokens[t].state \in {"revoked", "expired"} \/ tokens[t].email \in disabled))

-----------------------------------------------------------------------------
(* register and invite. *)

findEmail(c) ==
  /\ calls[c].at = "find"
  /\ IF Emailed(calls[c].email) # {} THEN End(c, "failed")
     ELSE To(c, IF calls[c].op = "register" THEN "slug" ELSE "create")
  /\ UNCHANGED <<organizations, users, founders, disabled, tokens>>

\* One lookup of the loop: the candidate is free, the next one is due, or the
\* attempts are used up and a random suffix is taken unseen.
uniqueSlug(c) ==
  /\ calls[c].at = "slug"
  /\ LET candidate == calls[c].slug
         Attempt(at, suffix) ==
           calls' = [calls EXCEPT ![c].at = at, ![c].slug = <<candidate[1], suffix>>]
     IN  \/ candidate \notin organizations /\ To(c, "create")
         \/ /\ candidate \in organizations
            /\ IF candidate[2] + 1 < SlugAttempts THEN Attempt("slug", candidate[2] + 1)
               ELSE Attempt("create", c)
  /\ UNCHANGED <<organizations, users, founders, disabled, tokens>>

NewUser(c) == [email |-> calls[c].email, shop |-> calls[c].slug, role |-> calls[c].role]

\* Faulty: the shop is created outside the transaction.
CreatedApart(c) ==
  /\ calls[c].at = "create" /\ calls[c].op = "register"
  /\ IF calls[c].slug \in organizations THEN End(c, "failed") /\ UNCHANGED <<organizations, users, founders>>
     ELSE /\ organizations' = organizations \cup {calls[c].slug}
          /\ IF Emailed(calls[c].email) # {} THEN End(c, "failed") /\ UNCHANGED <<users, founders>>
             ELSE /\ To(c, "issue") /\ users' = users \cup {NewUser(c)}
                  /\ founders' = founders \cup {NewUser(c)}
  /\ UNCHANGED <<disabled, tokens>>

\* Shop and owner in one transaction: both constraints hold or neither is created.
createOrganization(c) ==
  /\ calls[c].at = "create" /\ calls[c].op = "register"
  /\ IF calls[c].slug \in organizations \/ Emailed(calls[c].email) # {}
     THEN End(c, "failed") /\ UNCHANGED <<organizations, users, founders>>
     ELSE /\ organizations' = organizations \cup {calls[c].slug}
          /\ users' = users \cup {NewUser(c)} /\ founders' = founders \cup {NewUser(c)}
          /\ To(c, "issue")
  /\ UNCHANGED <<disabled, tokens>>

createUser(c) ==
  /\ calls[c].at = "create" /\ calls[c].op = "invite"
  /\ IF Emailed(calls[c].email) # {} THEN End(c, "failed") /\ UNCHANGED users
     ELSE To(c, "answering") /\ users' = users \cup {NewUser(c)}
  /\ UNCHANGED <<organizations, founders, disabled, tokens>>

-----------------------------------------------------------------------------
(* login, refresh and logout. *)

\* The user is read and the password verified against what was read.
verifyPassword(c) ==
  /\ calls[c].at = "verify"
  /\ \/ Emailed(calls[c].email) # {} /\ calls[c].email \notin disabled /\ To(c, "issue")
     \/ End(c, "failed")
  /\ UNCHANGED <<organizations, users, founders, disabled, tokens>>

\* Faulty: any row that has not expired will do.
CheckedExpiry(c) ==
  /\ calls[c].at = "check"
  /\ IF tokens[calls[c].token].state = "expired" THEN End(c, "failed") ELSE To(c, "user")
  /\ UNCHANGED <<organizations, users, founders, disabled, tokens>>

checkStored(c) ==
  /\ calls[c].at = "check"
  /\ IF tokens[calls[c].token].state \in {"revoked", "expired"} THEN End(c, "failed") ELSE To(c, "user")
  /\ UNCHANGED <<organizations, users, founders, disabled, tokens>>

checkUser(c) ==
  /\ calls[c].at = "user"
  /\ IF calls[c].email \in disabled THEN End(c, "failed") ELSE To(c, "revoke")
  /\ UNCHANGED <<organizations, users, founders, disabled, tokens>>

Revoked(t) == [tokens EXCEPT ![t].state = "revoked"]

\* Faulty: issues the successor whether or not the update was carried out.
RotatedUnawaited(c) ==
  /\ calls[c].at = "revoke"
  /\ tokens' \in {tokens, Revoked(calls[c].token)} /\ To(c, "issue")
  /\ UNCHANGED <<organizations, users, founders, disabled>>

\* The row is updated by its id, whatever became of it since it was read.
rotate(c) ==
  /\ calls[c].at = "revoke"
  /\ tokens' = Revoked(calls[c].token) /\ To(c, "issue")
  /\ UNCHANGED <<organizations, users, founders, disabled>>

\* Every token has a jti of its own, so no two rows collide.
issueTokens(c) ==
  /\ calls[c].at = "issue"
  /\ tokens' = [tokens EXCEPT ![c] = Row("live", calls[c].email, calls[c].token)]
  /\ To(c, "answering")
  /\ UNCHANGED <<organizations, users, founders, disabled>>

\* Faulty: the row is deleted.
DeletedRow(c) ==
  /\ \E t \in Calls :
       /\ Known(t) /\ calls[c].at = "idle"
       /\ tokens' = [tokens EXCEPT ![t].state = "none"]
       /\ calls' = [calls EXCEPT ![c] = Call("logout", "answering", None, None, None, t, FALSE)]
  /\ UNCHANGED <<organizations, users, founders, disabled>>

\* One statement, whose failure is answered like its success.
logout(c) ==
  /\ \E t \in Calls :
       /\ Known(t) /\ calls[c].at = "idle"
       /\ tokens' \in {tokens, Revoked(t)}
       /\ calls' = [calls EXCEPT ![c] = Call("logout", "answering", None, None, None, t, FALSE)]
  /\ UNCHANGED <<organizations, users, founders, disabled>>

-----------------------------------------------------------------------------
(* What ends a call, and what happens besides. *)

Answered(c) ==
  /\ calls[c].at = "answering" /\ End(c, "answered")
  /\ UNCHANGED <<organizations, users, founders, disabled, tokens>>

\* The database or the process fails, or the answer is lost.
Fails(c) ==
  /\ calls[c].at \notin {"idle"} \cup Ended /\ End(c, "failed")
  /\ UNCHANGED <<organizations, users, founders, disabled, tokens>>

\* A revoked row may expire too, which makes no difference.
Expires(c) ==
  /\ tokens[c].state = "live"
  /\ tokens' = [tokens EXCEPT ![c].state = "expired"]
  /\ UNCHANGED <<organizations, users, founders, disabled, calls>>

\* External: disabledAt is read by the handlers and set by none.
DisableUser ==
  /\ \E u \in users : u.email \notin disabled /\ disabled' = disabled \cup {u.email}
  /\ UNCHANGED <<organizations, users, founders, tokens, calls>>

Handles(c) ==
  \/ BeginRegister(c) \/ BeginInvite(c) \/ BeginLogin(c) \/ BeginRefresh(c)
  \/ findEmail(c) \/ uniqueSlug(c) \/ createOrganization(c) \/ createUser(c)
  \/ verifyPassword(c) \/ checkStored(c) \/ checkUser(c) \/ rotate(c)
  \/ issueTokens(c) \/ logout(c) \/ Answered(c) \/ Fails(c) \/ Expires(c)

Next == DisableUser \/ \E c \in Calls : Handles(c)

Spec == Init /\ [][Next]_vars

-----------------------------------------------------------------------------
(* Properties. *)

CallType ==
  [op : {"none", "register", "invite", "login", "refresh", "logout"}, at : Steps,
   email : Addresses \cup {None}, slug : Slugs \cup {None}, role : Roles \cup {None},
   token : Calls \cup {None}, hopeless : BOOLEAN]

\* Tokens are those of calls that are being answered, or were, and a refresh
\* presents one of them.
TypeOK ==
  /\ organizations \subseteq Slugs
  /\ users \subseteq [email : Addresses, shop : Slugs, role : Roles]
  /\ founders \subseteq users
  /\ disabled \subseteq Addresses
  /\ tokens \in [Calls -> [state : {"none", "live", "expired", "revoked"}, email : Addresses \cup {None},
                           parent : Calls \cup {None}]]
  /\ calls \in [Calls -> CallType]
  /\ \A c \in Calls :
       /\ tokens[c].state # "none" => calls[c].at \in {"answering", "answered", "failed"}
       /\ calls[c].token # None => tokens[calls[c].token].state # "none"

\* However registrations and invitations overlap and fail, an address has one
\* account, and a shop is founded once, by an owner who is created with it: no shop
\* is left without somebody in it, and no race over a slug makes two founders.
\* Further owners come by invitation.
ShopsAreFoundedOnce ==
  /\ \A u, v \in users : u.email = v.email => u = v
  /\ \A u \in users : u.shop \in organizations
  /\ founders \subseteq {u \in users : u.role = "OWNER"}
  /\ \A s \in organizations : Cardinality({f \in founders : f.shop = s}) = 1

\* A token is never valid together with one it was exchanged for, nor with any
\* later one of that line: of a line of exchanges at most the last can be used,
\* also when two exchanges of one token overlap and the line forks.
ExchangedIsSpent ==
  \A c \in Calls : tokens[c].state # "none" /\ tokens[c].parent # None =>
    tokens[tokens[c].parent].state = "revoked"

\* A call that came in when its token had been exchanged, revoked or had expired,
\* or its account was disabled, issues nothing, whatever else is under way.
RefusedFromTheStart ==
  \A c \in Calls : calls[c].hopeless => tokens[c].state = "none"
=============================================================================
