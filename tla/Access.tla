------------------------------- MODULE Access -------------------------------
(***************************************************************************)
(* authruntime: the control store (users, workspaces, memberships,         *)
(* sessions, overrides, audit events: one SQLite transaction per call) and *)
(* the dependencies of a route.  get_current_user runs in the thread pool  *)
(* and reads the session, then the membership, in two transactions; the    *)
(* handler runs on the event loop afterwards, with the context it was      *)
(* given, whatever has changed meanwhile.                                  *)
(***************************************************************************)
EXTENDS Naturals, Sequences, FiniteSets

CONSTANTS
  Users,          \* people the provider knows
  Tokens,         \* session tokens, never reused
  Spaces,         \* workspace ids, "default" among them
  Requests,       \* requests in flight at once
  MaxEvents,      \* bound on the audit events
  MaxCalls        \* bound on the requests and on the changes of is_admin

ASSUME SpacesAssumption == "default" \in Spaces

NoOne == "no one"

ASSUME AccessAssumption == NoOne \notin Users /\ MaxEvents \in Nat /\ MaxCalls \in Nat

Roles == {"product_owner", "standard_user"}
NoMembership == [space |-> "none", role |-> "none"]
Member == [space : Spaces, role : Roles] \cup {NoMembership}

VARIABLES
  admins,      \* the users marked is_admin
  known,       \* the users the store has a row of
  spaces,      \* the workspaces
  member,      \* member[u]: one row at most
  session,     \* session[t]: its user, and "none", "live" or "dead"
  call,        \* call[r]: the request, its context as read so far
  overrides,   \* rows [space, by, resolved]
  audit,       \* events [actor, action], in order
  since        \* history, see AccessInit

accessVars == <<admins, known, spaces, member, session, call, overrides, audit, since>>

NoCall == [pc |-> "idle", token |-> NoOne, user |-> NoOne, admin |-> FALSE, member |-> NoMembership]
NeverSo == [live |-> FALSE, admin |-> FALSE, member |-> {}]
NothingDone == [what |-> "none", space |-> "none", seen |-> NeverSo]

AccessTypeOK ==
  /\ admins \subseteq Users /\ known \subseteq Users /\ spaces \subseteq Spaces
  /\ member \in [Users -> Member]
  /\ session \in [Tokens -> [user : Users \cup {NoOne}, state : {"none", "live", "dead"}]]
  /\ \A r \in Requests : call[r].pc \in {"idle", "session", "member", "handler"}
  /\ \A i \in DOMAIN overrides : overrides[i].space \in Spaces
  /\ Len(audit) <= MaxEvents
  /\ since.cut \in BOOLEAN /\ since.calls \in 0..MaxCalls

(* A server started on its store: init_schema has made the default         *)
(* workspace, users are entered, and some sessions may be open.            *)
AccessInit ==
  /\ known = Users /\ admins \in SUBSET Users \ {{}}
  /\ spaces = {"default"}
  /\ member = [u \in Users |-> NoMembership]
  /\ session \in [Tokens -> {[user |-> NoOne, state |-> "none"]} \cup [user : known, state : {"live"}]]
  /\ call = [r \in Requests |-> NoCall]
  /\ overrides = <<>>
  /\ audit = <<>>
  /\ since = [calls |-> 0,
              seen |-> [r \in Requests |-> NeverSo],  \* what has held of the caller
              done |-> NothingDone,   \* what a handler has just done
              cut |-> FALSE]          \* a handler stopped between two rows

RecordAudit(actor, action) ==
  Len(audit) < MaxEvents /\ audit' = Append(audit, [actor |-> actor, action |-> action])

(* What has held of the caller since the request came, this state included. *)
Witness == [r \in Requests |->
  LET t == call[r].token  u == session[t].user
  IN IF call[r].pc = "idle" THEN NeverSo
     ELSE [live |-> since.seen[r].live \/ session[t].state = "live",
           admin |-> since.seen[r].admin \/ u \in admins,
           member |-> since.seen[r].member \cup {member[u]}]]
Counts == since.calls < MaxCalls /\ since' = [since EXCEPT !.calls = @ + 1, !.seen = Witness, !.done = NothingDone]
Watch == since' = [since EXCEPT !.seen = Witness, !.done = NothingDone]

(***************************************************************************)
(* /auth: one step of the event loop each                                  *)
(***************************************************************************)
GetOrCreateUser(u) == known' = known \cup {u}
CreateSession(u, t) ==
  /\ session[t].state = "none"
  /\ session' = [session EXCEPT ![t] = [user |-> u, state |-> "live"]]

Callback(u, t) ==
  /\ GetOrCreateUser(u) /\ CreateSession(u, t)
  /\ RecordAudit(u, "login")
  /\ Watch
  /\ UNCHANGED <<admins, spaces, member, call, overrides>>

(* Revoked by a logout, or past its expiry: never to be live again.        *)
EndSession(t) ==
  /\ session[t].state = "live"
  /\ session' = [session EXCEPT ![t].state = "dead"]
  /\ Watch
  /\ UNCHANGED <<admins, known, spaces, member, call, overrides, audit>>

(* No route: scripts/dev_login.py and an operator's shell.                 *)
SetAdmin(u, yes) ==
  /\ admins' = IF yes THEN admins \cup {u} ELSE admins \ {u}
  /\ u \in known
  /\ Counts
  /\ UNCHANGED <<known, spaces, member, session, call, overrides, audit>>

(***************************************************************************)
(* get_current_user                                                        *)
(***************************************************************************)
Arrive(r, t) ==
  /\ call[r] = NoCall /\ session[t].state # "none"
  /\ call' = [call EXCEPT ![r] = [NoCall EXCEPT !.pc = "session", !.token = t]]
  /\ Counts
  /\ UNCHANGED <<admins, known, spaces, member, session, overrides, audit>>

SessionValid(t) == session[t].state = "live"

GetSessionUser(r) ==
  LET t == call[r].token  u == session[t].user
  IN /\ call[r].pc = "session"
     /\ call' = [call EXCEPT ![r] = IF ~SessionValid(t) THEN NoCall   \* 401
                                    ELSE [@ EXCEPT !.pc = "member", !.user = u, !.admin = u \in admins]]
     /\ Watch
     /\ UNCHANGED <<admins, known, spaces, member, session, overrides, audit>>

GetMembership(r) ==
  /\ call[r].pc = "member"
  /\ call' = [call EXCEPT ![r].pc = "handler", ![r].member = member[call[r].user]]
  /\ Watch
  /\ UNCHANGED <<admins, known, spaces, member, session, overrides, audit>>

(***************************************************************************)
(* What the context permits                                                *)
(***************************************************************************)
CanAccessWorkspace(c, w) == c.admin \/ c.member.space = w
RequireRole(c, roles) == c.admin \/ c.member.role \in roles
MayOverride(c, w) == CanAccessWorkspace(c, w) /\ (c.admin \/ c.member.role = "product_owner")

(* server.py: the workspace a legacy route queries; "any" is a query       *)
(* without the filter, for an admin or a caller without a membership.      *)
EffectiveWorkspace(c, asked) ==
  IF asked # "none" THEN asked
  ELSE IF c.member = NoMembership THEN "any" ELSE c.member.space

Replies(r, what, w) ==
  /\ call' = [call EXCEPT ![r] = NoCall]
  /\ since' = [since EXCEPT !.seen = [Witness EXCEPT ![r] = NeverSo],
                            !.done = [what |-> what, space |-> w, seen |-> Witness[r]]]

Read(r, asked) ==
  /\ call[r].pc = "handler"
  /\ asked # "none" => CanAccessWorkspace(call[r], asked)     \* 404
  /\ Replies(r, "read", EffectiveWorkspace(call[r], asked))
  /\ UNCHANGED <<admins, known, spaces, member, session, overrides, audit>>

Refuse(r) ==
  /\ call[r].pc = "handler" /\ Replies(r, "none", "none")
  /\ UNCHANGED <<admins, known, spaces, member, session, overrides, audit>>

(***************************************************************************)
(* Handlers that change the store: the change and its audit event are two  *)
(* transactions, and the server may stop in between (stops).               *)
(***************************************************************************)
Audited(r, action, w, stops) ==
  IF ~stops THEN RecordAudit(call[r].user, action) /\ Replies(r, action, w)
  ELSE /\ call' = [q \in Requests |-> NoCall]
       /\ since' = [since EXCEPT !.seen = [q \in Requests |-> NeverSo], !.done = NothingDone, !.cut = TRUE]
       /\ UNCHANGED audit

CreateWorkspace(r, w, stops) ==
  /\ call[r].pc = "handler" /\ RequireRole(call[r], {})
  /\ w \notin spaces                                          \* 409
  /\ spaces' = spaces \cup {w}
  /\ Audited(r, "create_workspace", w, stops)
  /\ UNCHANGED <<admins, known, member, session, overrides>>

(* One membership a user: the new row replaces the old.                    *)
SetMembership(r, u, w, role, stops) ==
  /\ call[r].pc = "handler" /\ RequireRole(call[r], {})
  /\ w \in spaces /\ u \in known                              \* 404
  /\ member' = [member EXCEPT ![u] = [space |-> w, role |-> role]]
  /\ Audited(r, "set_membership", w, stops)
  /\ UNCHANGED <<admins, known, spaces, session, overrides>>

Override(r, w, stops) ==
  /\ call[r].pc = "handler" /\ MayOverride(call[r], w)
  /\ w \in spaces                                             \* REFERENCES
  /\ overrides' = Append(overrides, [space |-> w, by |-> call[r].user, resolved |-> NoOne])
  /\ Audited(r, "qualification_override", w, stops)
  /\ UNCHANGED <<admins, known, spaces, member, session>>

Resolved(row, u) == IF row.resolved = NoOne THEN [row EXCEPT !.resolved = u] ELSE row

(* Resolving twice, or an override that is not there, is no error.         *)
ResolveOverride(r, i, stops) ==
  /\ call[r].pc = "handler" /\ RequireRole(call[r], {})
  /\ overrides' = IF i \in DOMAIN overrides
                  THEN [overrides EXCEPT ![i] = Resolved(@, call[r].user)] ELSE overrides
  /\ Audited(r, "resolve_override", "any", stops)
  /\ UNCHANGED <<admins, known, spaces, member, session>>

AccessNext ==
  \/ \E u \in Users : \/ \E t \in Tokens : Callback(u, t)
                      \/ \E yes \in BOOLEAN : SetAdmin(u, yes)
  \/ \E t \in Tokens : EndSession(t) \/ \E r \in Requests : Arrive(r, t)
  \/ \E r \in Requests :
       \/ GetSessionUser(r) \/ GetMembership(r) \/ Refuse(r)
       \/ \E asked \in Spaces \cup {"none"} : Read(r, asked)
       \/ \E stops \in BOOLEAN :
            \/ \E w \in Spaces :
                 \/ CreateWorkspace(r, w, stops) \/ Override(r, w, stops)
                 \/ \E u \in Users, role \in Roles : SetMembership(r, u, w, role, stops)
            \/ ResolveOverride(r, 1, stops)

(***************************************************************************)
(* Properties                                                              *)
(***************************************************************************)
(* What a handler read or changed in a workspace rests on a session, and   *)
(* on an admin mark or a membership of that workspace (for an override, a  *)
(* product owner's), each of which held at some moment of the request,     *)
(* though it may be gone when the handler runs.                            *)
ActsWereEntitled ==
  LET d == since.done
  IN d.what # "none" =>
       /\ d.seen.live
       /\ \/ d.seen.admin
          \/ d.what = "read" /\ (d.space = "any" \/ \E m \in d.seen.member : m.space = d.space)
          \/ d.what = "qualification_override"
             /\ [space |-> d.space, role |-> "product_owner"] \in d.seen.member

(* Every override has its audit event by the same hand, unless the server  *)
(* stopped between the two, and stays with the hand of the first event     *)
(* that resolved it.                                                       *)
Made(upto) == Cardinality({j \in 1..upto : audit[j].action = "qualification_override"})
MadeAt(i, k) == audit[k].action = "qualification_override" /\ Made(k) = i
ResolvedAt(i, k) == audit[k].action = "resolve_override" /\ Made(k) >= i
TheTrailIsWhole ==
  since.cut \/
    /\ Made(Len(audit)) = Len(overrides)
    /\ \A i \in DOMAIN overrides :
         /\ \E k \in DOMAIN audit : MadeAt(i, k) /\ audit[k].actor = overrides[i].by
         /\ i = 1 /\ overrides[i].resolved # NoOne =>
              \E k \in DOMAIN audit :
                /\ ResolvedAt(i, k) /\ audit[k].actor = overrides[i].resolved
                /\ \A j \in 1..(k - 1) : ~ResolvedAt(i, j)
=============================================================================
