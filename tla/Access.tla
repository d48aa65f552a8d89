------------------------------- MODULE Access -------------------------------
(***************************************************************************)
(* Who may do what in a tenant: its users with their passwords             *)
(* (app/gateway/users_api.py, auth_api.py), its roles and their members    *)
(* (app/security/roles_api.py), its policies (policy_api.py), the engine   *)
(* that decides by them (policy.py) and the start-up that sees to the      *)
(* defaults (app/storage/seed.py).                                         *)
(*                                                                         *)
(* Every request but a change of one's own password first passes the       *)
(* guard, which reads the user's roles in one transaction and the policies *)
(* in another.  A handler then looks for its row, and commits what it made *)
(* of it: only the columns that differ from those it had read.  The guard  *)
(* of every modelled endpoint asks for one action, "manage".               *)
(*                                                                         *)
(* Abstractions: a change of a user sets his password or his roles; a      *)
(* template is the role of the administrator with one policy; names other  *)
(* than that role's, e-mails and the enabled flag are left out.            *)
(***************************************************************************)
EXTENDS Naturals, FiniteSets

CONSTANTS
  Users, Roles, Policies,   \* keys of the tables; a key is used once
  Seed,                     \* settings.seed_user
  AnyOne,                   \* NULL in user_id and role_id of a policy
  Bodies,                   \* what requests put into a policy
  Processes,                \* requests in flight at once
  MaxRequests,              \* bound on requests
  None, Gone

Actions == {"manage", "use"}
Body == [user : Users \union {AnyOne}, role : Roles \union {AnyOne},
         effect : {"ALLOW", "DENY", "other"}, action : Actions \union {"*"}, resource : {"*", "x"}]
UserRow == [password : {"none", "seeded", "given", "theirs"}, must : BOOLEAN, deleted : BOOLEAN]
ASSUME AccessAssumption ==
  /\ Seed \in Users /\ Bodies \subseteq Body /\ MaxRequests \in Nat
  /\ \E r, q \in Roles : r # q
  /\ AnyOne \notin Users \union Roles
  /\ None # Gone /\ {None, Gone} \intersect (Body \union UserRow) = {}

VARIABLES
  user,       \* user[u]: the row, or None; whose the password is, must_change_password
  role,       \* role[r]: name of the role; "none" before, "gone" after
  member,     \* user_roles
  policy,     \* policy[p]: the row; None before, Gone after
  request,    \* where each request stands and what it has read
  asked,      \* requests so far
  seen,       \* what the guard should have said, at each moment since it began
  moved,      \* what changed meanwhile: "roles" of its user, "policies"
  raced,      \* users whose password was written over a row that had changed
  strayed     \* roles that a write named when they were gone, or being deleted

tables == <<user, role, member, policy>>
vars == <<tables, request, asked, seen, moved, raced, strayed>>

RoleNames == {"admin", "other"}
Rows == {p \in Policies : policy[p] \notin {None, Gone}}
Known == {r \in Roles : role[r] # "none"}
RoleIds(u) == {r \in Roles : <<u, r>> \in member}

Idle == [pc |-> "idle", kind |-> "none", by |-> Seed, of |-> None, arg |-> None,
         read |-> None, verdict |-> "none"]
Allow(r, x) == [user |-> AnyOne, role |-> r, effect |-> "ALLOW", action |-> x, resource |-> "*"]

\* Some keys of a set, in an order; which they are does not matter.
Keys(n, S) == CHOOSE s \in [1 .. n -> S] : Cardinality({s[i] : i \in 1 .. n}) = n

\* After the first start.  An administrator may since have made a user with a
\* password, a role with members, and a policy, and may have deleted the
\* default policies and renamed the default role.
Init ==
  LET r == Keys(2, Roles)
      p == Keys(3, Policies)
  IN
  /\ \E u \in Users \ {Seed}, made, kept \in BOOLEAN, first \in RoleNames, name \in {"none", "other"},
        in \in SUBSET (Users \ {Seed}), b \in Bodies \union {None} :
       /\ user = [v \in Users |->
            IF v = Seed THEN [password |-> "seeded", must |-> FALSE, deleted |-> FALSE]
            ELSE IF v = u /\ made THEN [password |-> "given", must |-> TRUE, deleted |-> FALSE]
            ELSE None]
       /\ kept => first = "admin"
       /\ role = [x \in Roles |-> IF x = r[1] THEN first ELSE IF x = r[2] THEN name ELSE "none"]
       /\ in \subseteq {v \in Users : user[v] # None} /\ (name = "none" => in = {})
       /\ member = {<<Seed, r[1]>>} \union (in \X {r[2]})
       /\ b # None => b.role \in {AnyOne} \union Known
       /\ policy = [q \in Policies |->
            CASE q = p[1] -> IF kept THEN Allow(AnyOne, "manage") ELSE Gone
              [] q = p[2] -> IF kept THEN Allow(AnyOne, "use") ELSE Gone
              [] q = p[3] -> b
              [] OTHER -> None]
  /\ request = [a \in Processes |-> Idle]
  /\ asked = 0
  /\ seen = [a \in Processes |-> {}] /\ moved = [a \in Processes |-> {}]
  /\ raced = {} /\ strayed = {}

-----------------------------------------------------------------------------
(* The policy engine *)

\* _rows_for: rows of the tenant, of the user, of the roles read before.
\* Fault: a user without roles gets the rows of all roles.
RowsForAll(u, ids) == {policy[p] : p \in {q \in Rows :
  policy[q].user \in {AnyOne, u} /\ (ids = {} \/ policy[q].role \in ids \union {AnyOne})}}
RowsFor(u, ids) == {policy[p] : p \in {q \in Rows :
  policy[q].user \in {AnyOne, u} /\ policy[q].role \in ids \union {AnyOne}}}

Matches(row, action, resource) ==
  row.action \in {"*", action} /\ row.resource \in {"*", resource}
IsAllowed(rows, action, resource) ==
  LET hit == {row \in rows : Matches(row, action, resource)} IN
  IF \E row \in hit : row.effect = "DENY" THEN FALSE
  ELSE \E row \in hit : row.effect = "ALLOW"

\* The actions that /auth/me lists, for the buttons of the pages.
\* Fault: what is denied is listed.
ListAllowed(rows) ==
  {row.action : row \in {x \in rows : x.resource = "*" /\ x.effect = "ALLOW"}}
ListActions(rows) ==
  LET all == {row \in rows : row.resource = "*"}
      allowed == {row.action : row \in {x \in all : x.effect = "ALLOW"}}
      denied == {row.action : row \in {x \in all : x.effect # "ALLOW"}}
  IN allowed \ denied

\* What its documents say (policy.py 3-6): a denial of the user, of a role of
\* his or of the tenant prevails, then a permission, then nothing.
Entitled(u, members, policies) ==
  LET says(effect) == \E p \in Policies : LET row == policies[p] IN
        /\ row \notin {None, Gone}
        /\ row.effect = effect
        /\ row.action = "*" \/ row.action = "manage"
        /\ row.resource = "*"
        /\ row.user = AnyOne \/ row.user = u
        /\ row.role = AnyOne \/ <<u, row.role>> \in members
  IN says("ALLOW") /\ ~says("DENY")

-----------------------------------------------------------------------------
Is(a, kind, pc) == request[a].kind = kind /\ request[a].pc = pc
Of(a) == request[a].of
Arg(a) == request[a].arg
Read(a) == request[a].read
Becomes(a, q) == request' = [request EXCEPT ![a] = q]
\* The handler goes on to its commit with what it has read.
Reads(a, read) ==
  /\ Becomes(a, [request[a] EXCEPT !.pc = "commit", !.read = read])
  /\ UNCHANGED <<tables, raced, strayed>>
\* Over without a write: an error, or nothing to do.
Ends(a) == Becomes(a, Idle) /\ UNCHANGED <<tables, raced, strayed>>

Deleting(r) == \E a \in Processes : Is(a, "delete role", "commit") /\ Of(a) = r
Named(rs) == strayed' = strayed \union {r \in rs \intersect Roles : role[r] = "gone" \/ Deleting(r)}

\* require_perm: the roles, then the policies, in two transactions.
ReadRoles(a) ==
  /\ request[a].pc = "roles"
  /\ Becomes(a, [request[a] EXCEPT !.pc = "policies", !.read = RoleIds(request[a].by)])
  /\ UNCHANGED <<tables, raced, strayed>>
Judge(a) ==
  /\ request[a].pc = "policies"
  /\ LET allowed == IsAllowed(RowsFor(request[a].by, Read(a)), "manage", "*")
     IN Becomes(a, [request[a] EXCEPT !.verdict = IF allowed THEN "allowed" ELSE "denied",
          !.pc = IF allowed THEN "look" ELSE "denied", !.read = None])
  /\ UNCHANGED <<tables, raced, strayed>>
Denied(a) == request[a].pc = "denied" /\ Ends(a)

-----------------------------------------------------------------------------
(* Users *)

\* _sync_roles deletes the pairs of the user that its statement sees and adds
\* the new ones; one that was added meanwhile violates the unique key.
PairsOf(u) == {m \in member : m[1] = u}
Clash(u, old, rs) == ({u} \X rs) \intersect (member \ old) # {}
Synced(u, old, rs) == (member \ old) \union ({u} \X rs)

LookForNoUser(a) ==
  /\ Is(a, "create user", "look")
  /\ IF user[Of(a)] # None THEN Ends(a)
     ELSE Reads(a, IF Arg(a) = {} THEN {} ELSE PairsOf(Of(a)))
CreateUser(a) ==
  /\ Is(a, "create user", "commit")
  /\ LET u == Of(a) IN
     IF user[u] = None /\ ~Clash(u, Read(a), Arg(a))
     THEN /\ \E given \in BOOLEAN : user' = [user EXCEPT ![u] =
               [password |-> IF given THEN "given" ELSE "none", must |-> given, deleted |-> FALSE]]
          /\ member' = Synced(u, Read(a), Arg(a))
          /\ Named(Arg(a))
          /\ Becomes(a, Idle) /\ UNCHANGED <<role, policy, raced>>
     ELSE Ends(a)

\* A user who was deleted can be changed: only the flag tells.
LookForUser(a) ==
  /\ \E kind \in {"set roles", "set password", "delete user"} : Is(a, kind, "look")
  /\ IF user[Of(a)] = None THEN Ends(a)
     ELSE Reads(a, IF request[a].kind = "set password" THEN user[Of(a)] ELSE PairsOf(Of(a)))
SetRoles(a) ==
  /\ Is(a, "set roles", "commit")
  /\ IF Clash(Of(a), Read(a), Arg(a)) THEN Ends(a)
     ELSE /\ member' = Synced(Of(a), Read(a), Arg(a))
          /\ Named(Arg(a))
          /\ Becomes(a, Idle) /\ UNCHANGED <<user, role, policy, raced>>

\* The flag is written only if it was read otherwise; the hash always.
Rewrite(a, u, password, must) ==
  /\ user' = [user EXCEPT ![u].password = password,
                          ![u].must = IF Read(a).must = must THEN @ ELSE must]
  /\ raced' = IF user[u] = Read(a) THEN raced ELSE raced \union {u}
  /\ Becomes(a, Idle) /\ UNCHANGED <<role, member, policy, strayed>>
\* Fault: a reset leaves the flag alone.
ResetUnflagged(a) ==
  /\ Is(a, "set password", "commit")
  /\ Rewrite(a, Of(a), "given", Read(a).must)
SetPassword(a) ==
  /\ Is(a, "set password", "commit")
  /\ Rewrite(a, Of(a), "given", TRUE)
\* The old password, if there is one, has been verified on the row read.
LookForSelf(a) ==
  /\ Is(a, "change password", "look")
  /\ \/ Ends(a)
     \/ user[request[a].by] # None /\ Reads(a, user[request[a].by])
ChangePassword(a) ==
  /\ Is(a, "change password", "commit")
  /\ Rewrite(a, request[a].by, "theirs", FALSE)

DeleteUser(a) ==
  /\ Is(a, "delete user", "commit")
  /\ user' = [user EXCEPT ![Of(a)].deleted = TRUE]
  /\ member' = member \ Read(a)
  /\ Becomes(a, Idle) /\ UNCHANGED <<role, policy, raced, strayed>>

-----------------------------------------------------------------------------
(* Roles and their members *)

FreshRole == CHOOSE r \in Roles : role[r] = "none"
FreshPolicy == CHOOSE p \in Policies : policy[p] = None
MoreRoles == \E r \in Roles : role[r] = "none"
MorePolicies == \E p \in Policies : policy[p] = None

CreateRole(a) ==
  /\ Is(a, "create role", "look") /\ MoreRoles
  /\ role' = [role EXCEPT ![FreshRole] = "other"]
  /\ Becomes(a, Idle) /\ UNCHANGED <<user, member, policy, raced, strayed>>

\* The role of the template with its policies, unless one has its name.
LookForName(a) ==
  /\ Is(a, "use template", "look")
  /\ IF \E r \in Roles : role[r] = "admin" THEN Ends(a) ELSE Reads(a, None)
UseTemplate(a) ==
  /\ Is(a, "use template", "commit") /\ MoreRoles /\ MorePolicies
  /\ role' = [role EXCEPT ![FreshRole] = "admin"]
  /\ policy' = [policy EXCEPT ![FreshPolicy] = Allow(FreshRole, "manage")]
  /\ Becomes(a, Idle) /\ UNCHANGED <<user, member, raced, strayed>>

LookForRole(a) ==
  /\ \E kind \in {"rename role", "delete role", "add member"} : Is(a, kind, "look")
  /\ IF role[Of(a)] = "gone" THEN Ends(a)
     ELSE CASE request[a].kind = "rename role" -> Reads(a, role[Of(a)])
            [] request[a].kind = "delete role" ->
                 Reads(a, [pairs |-> {m \in member : m[2] = Of(a)},
                           rows |-> {p \in Rows : policy[p].role = Of(a)}])
            [] request[a].kind = "add member" ->
                 IF <<Arg(a), Of(a)>> \in member THEN Ends(a) ELSE Reads(a, None)
\* A row that has gone cannot be updated (StaleDataError).
RenameRole(a) ==
  /\ Is(a, "rename role", "commit")
  /\ IF role[Of(a)] = "gone" \/ Read(a) = "other" THEN Ends(a)
     ELSE /\ role' = [role EXCEPT ![Of(a)] = "other"]
          /\ Becomes(a, Idle) /\ UNCHANGED <<user, member, policy, raced, strayed>>
\* What the statements saw of the role goes with it.
\* Fault: the policies of the role stay.
DeleteRoleOnly(a) ==
  /\ Is(a, "delete role", "commit")
  /\ role' = [role EXCEPT ![Of(a)] = "gone"]
  /\ member' = member \ Read(a).pairs
  /\ Becomes(a, Idle) /\ UNCHANGED <<user, policy, raced, strayed>>
DeleteRole(a) ==
  /\ Is(a, "delete role", "commit")
  /\ role' = [role EXCEPT ![Of(a)] = "gone"]
  /\ member' = member \ Read(a).pairs
  /\ policy' = [p \in Policies |-> IF p \in Read(a).rows THEN Gone ELSE policy[p]]
  /\ Becomes(a, Idle) /\ UNCHANGED <<user, raced, strayed>>
\* Nobody looks whether there is such a user.
AddMember(a) ==
  /\ Is(a, "add member", "commit")
  /\ IF <<Arg(a), Of(a)>> \in member THEN Ends(a)
     ELSE /\ member' = member \union {<<Arg(a), Of(a)>>}
          /\ Named({Of(a)})
          /\ Becomes(a, Idle) /\ UNCHANGED <<user, role, policy, raced>>
RemoveMember(a) ==
  /\ Is(a, "remove member", "look")
  /\ member' = member \ {<<Arg(a), Of(a)>>}
  /\ Becomes(a, Idle) /\ UNCHANGED <<user, role, policy, raced, strayed>>

-----------------------------------------------------------------------------
(* Policies *)

\* Nobody looks whether there are such a user and role.
CreatePolicy(a) ==
  /\ Is(a, "create policy", "look") /\ MorePolicies
  /\ policy' = [policy EXCEPT ![FreshPolicy] = Arg(a)]
  /\ Named({Arg(a).role})
  /\ Becomes(a, Idle) /\ UNCHANGED <<user, role, member, raced>>

LookForPolicy(a) ==
  /\ \E kind \in {"update policy", "delete policy"} : Is(a, kind, "look")
  /\ IF Of(a) \in Rows THEN Reads(a, policy[Of(a)]) ELSE Ends(a)
\* Each column is written only if it was read otherwise.
UpdatePolicy(a) ==
  /\ Is(a, "update policy", "commit")
  /\ LET p == Of(a) IN
     IF p \notin Rows \/ Arg(a) = Read(a) THEN Ends(a)
     ELSE /\ policy' = [policy EXCEPT ![p] =
               [c \in DOMAIN Arg(a) |-> IF Arg(a)[c] = Read(a)[c] THEN @[c] ELSE Arg(a)[c]]]
          /\ Named({Arg(a).role})
          /\ Becomes(a, Idle) /\ UNCHANGED <<user, role, member, raced>>
DeletePolicy(a) ==
  /\ Is(a, "delete policy", "commit")
  /\ policy' = [policy EXCEPT ![Of(a)] = Gone]
  /\ Becomes(a, Idle) /\ UNCHANGED <<user, role, member, raced, strayed>>

-----------------------------------------------------------------------------
(* seed_defaults, when an instance starts: the seed user, a role called     *)
(* admin that he has, and the default policies if there are none            *)

AdminRoles == {r \in Roles : role[r] = "admin"}
LookForDefaults(a) ==
  /\ Is(a, "start", "look")
  /\ \E r \in IF AdminRoles = {} THEN {"none"} ELSE AdminRoles :
       Reads(a, [user |-> user[Seed] # None, role |-> r,
                 bound |-> r # "none" /\ <<Seed, r>> \in member, rows |-> Rows # {}])
StartUp(a) ==
  /\ Is(a, "start", "commit")
  /\ Read(a).role = "none" => MoreRoles
  /\ ~Read(a).rows => Cardinality({p \in Policies : policy[p] = None}) > 1
  /\ LET r == IF Read(a).role = "none" THEN FreshRole ELSE Read(a).role
         fails == \/ ~Read(a).user /\ user[Seed] # None
                  \/ ~Read(a).bound /\ <<Seed, r>> \in member
     IN IF fails THEN Ends(a)
        ELSE /\ user' = IF Read(a).user THEN user ELSE [user EXCEPT ![Seed] =
                  [password |-> "seeded", must |-> FALSE, deleted |-> FALSE]]
             /\ role' = [role EXCEPT ![r] = IF @ = "none" THEN "admin" ELSE @]
             /\ member' = IF Read(a).bound THEN member ELSE member \union {<<Seed, r>>}
             /\ policy' = IF Read(a).rows THEN policy
                          ELSE LET p == FreshPolicy
                                   q == CHOOSE x \in Policies \ {p} : policy[x] = None
                               IN [policy EXCEPT ![p] = Allow(AnyOne, "manage"), ![q] = Allow(AnyOne, "use")]
             /\ Named(IF Read(a).bound THEN {} ELSE {r})
             /\ Becomes(a, Idle) /\ UNCHANGED raced

-----------------------------------------------------------------------------
\* What a request asks for: its kind, the row it is about, what it brings.
Wants ==
  ({"create user", "set roles"} \X Users \X SUBSET Known)
  \union ({"set password", "delete user"} \X Users \X {None})
  \union ({"create role", "use template", "change password", "start"} \X {None} \X {None})
  \union ({"rename role", "delete role"} \X Known \X {None})
  \union ({"add member", "remove member"} \X Known \X Users)
  \union ({"create policy"} \X {None} \X Bodies)
  \union ({"update policy"} \X {p \in Policies : policy[p] # None} \X Bodies)
  \union ({"delete policy"} \X {p \in Policies : policy[p] # None} \X {None})
Unguarded == {"change password", "start"}

Ask(a) ==
  /\ request[a] = Idle /\ asked < MaxRequests
  /\ asked' = asked + 1
  /\ \E u \in {v \in Users : user[v] # None}, want \in Wants :
       /\ want[1] = "start" => u = Seed
       /\ want[1] \in {"create policy", "update policy"} => want[3].role \in Known \union {AnyOne}
       /\ Becomes(a, [Idle EXCEPT !.pc = IF want[1] \in Unguarded THEN "look" ELSE "roles",
            !.kind = want[1], !.by = u, !.of = want[2], !.arg = want[3]])
  /\ UNCHANGED <<tables, raced, strayed>>

Guard(a) == ReadRoles(a) \/ Judge(a) \/ Denied(a)
UserStep(a) ==
  \/ LookForNoUser(a) \/ CreateUser(a) \/ LookForUser(a) \/ SetRoles(a)
  \/ SetPassword(a) \/ LookForSelf(a) \/ ChangePassword(a) \/ DeleteUser(a)
RoleStep(a) ==
  \/ CreateRole(a) \/ LookForName(a) \/ UseTemplate(a) \/ LookForRole(a)
  \/ RenameRole(a) \/ DeleteRole(a) \/ AddMember(a) \/ RemoveMember(a)
PolicyStep(a) ==
  CreatePolicy(a) \/ LookForPolicy(a) \/ UpdatePolicy(a) \/ DeletePolicy(a)
StartStep(a) == LookForDefaults(a) \/ StartUp(a)
Handle(a) == (Guard(a) \/ UserStep(a) \/ RoleStep(a) \/ PolicyStep(a) \/ StartStep(a)) /\ UNCHANGED asked

\* What the properties remember of the guard of each request.
Remember ==
  /\ seen' = [a \in Processes |->
       CASE request'[a].pc \in {"roles", "policies"} ->
              seen[a] \union {Entitled(request'[a].by, member', policy')}
         [] request'[a].pc = "idle" -> {}
         [] OTHER -> seen[a]]
  /\ moved' = [a \in Processes |->
       CASE request'[a].pc = "idle" -> {}
         [] request'[a].pc = "policies" /\ request[a].pc = "policies" ->
              moved[a] \union {t \in {"roles"} : {r \in Roles : <<request[a].by, r>> \in member'} # RoleIds(request[a].by)}
                       \union {t \in {"policies"} : policy' # policy}
         [] OTHER -> moved[a]]

Next == (\E a \in Processes : Ask(a) \/ Handle(a)) /\ Remember
Spec == Init /\ [][Next]_vars

-----------------------------------------------------------------------------
TypeOK ==
  /\ user \in [Users -> UserRow \union {None}]
  /\ role \in [Roles -> RoleNames \union {"none", "gone"}]
  /\ member \subseteq Users \X Roles
  /\ policy \in [Policies -> Body \union {None, Gone}]
  /\ \A a \in Processes :
       /\ request[a].pc \in {"idle", "roles", "policies", "look", "commit", "denied"}
       /\ request[a].by \in Users
       /\ request[a].verdict \in {"none", "allowed", "denied"}
       /\ seen[a] \subseteq BOOLEAN /\ moved[a] \subseteq {"roles", "policies"}
  /\ asked \in 0 .. MaxRequests /\ raced \subseteq Users /\ strayed \subseteq Roles

\* The guard reads the roles of a user in one transaction and the policies in
\* a second.  Unless both changed in between, what it says was right at some
\* moment since the request came (security/policy.py 3-6: a denial prevails,
\* what nothing permits is denied).
VerdictWasTrue ==
  \A a \in Processes :
    request[a].verdict # "none" /\ moved[a] # {"roles", "policies"} =>
      (request[a].verdict = "allowed") \in seen[a]

\* A role goes with its policies and its members (roles_api.py 6), though
\* requests that began before it went may commit after it; only one that named
\* the role when it was gone or going leaves something of it behind.
GoneRoleLeavesNothing ==
  \A r \in Roles :
    role[r] = "gone" /\ r \notin strayed =>
      /\ \A u \in Users : <<u, r>> \notin member
      /\ \A p \in Rows : policy[p].role # r

\* A password that an administrator set is to be changed at the next sign-in
\* (docs/customer/security.md 10), whatever the order of creations, resets and
\* changes; except where a write met a row that had changed since it was read.
PasswordIsTheirs ==
  \A u \in Users :
    user[u] # None /\ user[u].password = "given" /\ u \notin raced => user[u].must

\* The actions that the pages offer to a user are those that the guard allows
\* him (docs/customer/security.md 18), as long as no policy names every action
\* and none has an effect that is neither ALLOW nor DENY.
MenuAgrees ==
  \A u \in Users :
    LET rows == RowsFor(u, RoleIds(u)) IN
    (\A row \in rows : row.action # "*" /\ row.effect # "other") =>
      \A x \in Actions : x \in ListActions(rows) <=> IsAllowed(rows, x, "*")

(***************************************************************************)
(* What the documents say and the code does not keep (access_departures)   *)
(***************************************************************************)

\* A template is used once per tenant (roles_api.py 135): two requests, or an
\* instance that starts meanwhile, make it twice.
OneAdminRole == Cardinality(AdminRoles) <= 1
\* The roles of a user are those of one list an administrator saved: two lists
\* saved at once, neither of which sees the pairs of the other, are united.
SetRolesStand ==
  [][\A a \in Processes : Is(a, "set roles", "commit") /\ member' # member =>
       {r \in Roles : <<Of(a), r>> \in member'} = Arg(a)]_vars
\* A policy is as one request asked for it: the columns of two may be mixed.
PolicyIsAsAsked ==
  \A p \in Rows : policy[p] \in Bodies \union {Allow(r, x) : r \in Roles \union {AnyOne}, x \in Actions}
\* A user who has been deleted has no role (users_api.py 6).
DeletedHasNoRole == \A u \in Users : user[u] # None /\ user[u].deleted => RoleIds(u) = {}
\* No role that is gone is left in a table.
NothingStrays ==
  \A r \in Roles : role[r] = "gone" =>
    (\A u \in Users : <<u, r>> \notin member) /\ (\A p \in Rows : policy[p].role # r)
\* The pages offer exactly what the guard allows, for every policy.
MenuAlwaysAgrees ==
  \A u \in Users : LET rows == RowsFor(u, RoleIds(u)) IN
    \A x \in Actions : x \in ListActions(rows) <=> IsAllowed(rows, x, "*")
\* Every password that was set for a user is marked.
GivenIsMarked ==
  \A u \in Users : user[u] # None /\ user[u].password = "given" => user[u].must
=============================================================================
