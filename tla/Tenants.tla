------------------------------- MODULE Tenants -------------------------------
(***************************************************************************)
(* Tenants and tariff plans (app/api/v1/superadmin.py), the schema of a    *)
(* tenant (app/services/tenant_provisioning.py) and its repair at startup  *)
(* (app/core/schema_heal.py).  A request reads its row, and its UPDATE     *)
(* writes the columns that differ from what it has read.                   *)
(***************************************************************************)
EXTENDS Integers, FiniteSets

CONSTANTS
  Slugs, Plans,
  Operators,   \* requests of super administrators
  Parts,       \* parts of a schema: tables and columns
  Added,       \* those that an old schema lacks
  None

VARIABLES
  limit,       \* how many requests may be under way at once
  tenant,      \* public.tenants, with the branch and the admin of the schema
  plan,        \* public.subscription_plans: open or closed
  schema,      \* parts a tenant's schema has
  doing,       \* the request under way; "made" is what its open transaction holds
  crossed      \* history: the tenants that two requests changed at once

tenants == <<tenant, plan, schema, doing, crossed>>

Rest      == [kind |-> None, slug |-> None, plan |-> None, saw |-> None, admin |-> FALSE,
              made |-> {}]
Known     == {t \in Slugs : tenant[t] # None}
Served    == {t \in Known : tenant[t].active}
Row(r) == [plan |-> r.plan, status |-> IF r.plan = None THEN "trial" ELSE "active",
           active |-> TRUE, branch |-> "branch" \in r.made, admin |-> "admin" \in r.made,
           asked |-> r.admin]

\* The statements of a schema: CREATE ... IF NOT EXISTS makes the tables as they are
\* now, ALTER adds to old ones what they lack, but for the statements that fail.
CreateTables(has)         == IF has = {} THEN Parts ELSE has \cup (Parts \ Added)
AlterTables(has, skipped) == has \cup (Added \ skipped)

\* At first: no tenant, or one whose schema is older than the last migrations.
TenantsInit ==
  /\ plan \in [Plans -> {None, "open"}] /\ crossed = {}
  /\ \E old \in SUBSET Slugs :
       /\ tenant = [t \in Slugs |-> IF t \in old THEN Row(Rest) ELSE None]
       /\ schema = [t \in Slugs |-> IF t \in old THEN Parts \ Added ELSE {}]
  /\ doing = [o \in Operators |-> Rest]

Start(o, request) ==
  /\ doing[o] = Rest /\ Cardinality({x \in Operators : doing[x] # Rest}) < limit
  /\ doing' = [doing EXCEPT ![o] = request]
  /\ UNCHANGED <<limit, tenant, plan, schema>>

Finish(o) == doing' = [doing EXCEPT ![o] = Rest]

\* POST /tenants: the slug is free and the plan, if any, is there ...
CheckSlug(o, t, p, a) ==
  /\ tenant[t] = None /\ (p # None => plan[p] # None) /\ UNCHANGED crossed
  /\ Start(o, [Rest EXCEPT !.kind = "create", !.slug = t, !.plan = p, !.admin = a])

Creating(o) == doing[o].kind = "create"
Made(o)     == doing[o].made
Make(o, x)  == /\ doing' = [doing EXCEPT ![o].made = @ \cup {x}]
               /\ UNCHANGED <<limit, tenant, plan, schema, crossed>>

FlushTenant_Commits(o, free) ==
  /\ Creating(o) /\ Made(o) = {} /\ free /\ tenant[doing[o].slug] = None
  /\ tenant' = [tenant EXCEPT ![doing[o].slug] = Row(doing[o])]
  /\ doing' = [doing EXCEPT ![o].made = {"row"}] /\ UNCHANGED <<limit, plan, schema, crossed>>

\* ... then, in one transaction, the row, which waits while another request holds the
\* same slug and fails when that one is committed, ...
FlushTenant(o, free) ==
  /\ Creating(o) /\ Made(o) = {} /\ free = (tenant[doing[o].slug] = None)
  /\ \A x \in Operators : doing[x].slug = doing[o].slug => "row" \notin Made(x)
  /\ IF free THEN Make(o, "row")
             ELSE Finish(o) /\ UNCHANGED <<limit, tenant, plan, schema, crossed>>

\* ... the schema with its tables, the main branch and the admin that were asked for, ...
ProvisionTenantSchema(o) == Creating(o) /\ Made(o) = {"row"} /\ Make(o, "tables")

CreateDefaultBranch(o) ==
  Creating(o) /\ doing[o].admin /\ Made(o) = {"row", "tables"} /\ Make(o, "branch")

CreateAdminUser(o) == Creating(o) /\ Made(o) = {"row", "tables", "branch"} /\ Make(o, "admin")

\* ... any of which may fail: ROLLBACK takes all back, the schema too.
Abandon(o) ==
  /\ Creating(o) /\ Made(o) # {} /\ Finish(o)
  /\ UNCHANGED <<limit, tenant, plan, schema, crossed>>

\* COMMIT, after the last of them.
CommitTenant(o) ==
  LET r == doing[o]
  IN  /\ Creating(o) /\ "tables" \in Made(o) /\ (r.admin => "admin" \in Made(o)) /\ Finish(o)
      /\ tenant' = [tenant EXCEPT ![r.slug] = Row(r)]
      /\ schema' = [schema EXCEPT ![r.slug] = CreateTables({})]
      /\ UNCHANGED <<limit, plan, crossed>>

\* The requests that change a tenant: it is there, and so is the plan.
Writes      == {"suspend", "delete", "activate", "change_plan", "patch"}
Changing(t) == {o \in Operators : doing[o].kind \in Writes /\ doing[o].slug = t}

ReadTenant(o, kind, t, p) ==
  /\ t \in Known /\ (p # None => plan[p] # None)
  /\ (kind = "change_plan" => p # None) /\ (kind # "change_plan" /\ kind # "patch" => p = None)
  /\ crossed' = IF Changing(t) = {} THEN crossed ELSE crossed \cup {t}
  /\ Start(o, [Rest EXCEPT !.kind = kind, !.slug = t, !.plan = p, !.saw = tenant[t]])

UpdateTenant(row, p)     == [row EXCEPT !.plan = p]
DeleteTenant(row)        == [row EXCEPT !.status = "cancelled", !.active = FALSE]
ActivateTenant(row)      == [row EXCEPT !.status = "active", !.active = TRUE]
ChangeTenantPlan(row, p) == [row EXCEPT !.plan = p, !.status = "active", !.active = TRUE]
SuspendTenant(row)       == [row EXCEPT !.status = "suspended", !.active = FALSE]

\* The row after the assignments of the handler.
Wanted(kind, row, p) ==
  CASE kind = "suspend"     -> SuspendTenant(row)
    [] kind = "delete"      -> DeleteTenant(row)
    [] kind = "activate"    -> ActivateTenant(row)
    [] kind = "change_plan" -> ChangeTenantPlan(row, p)
    [] kind = "patch"       -> UpdateTenant(row, p)

\* UPDATE writes what changed since the row was read.
WriteTenant(o) ==
  LET r   == doing[o]
      new == Wanted(r.kind, r.saw, r.plan)
  IN  /\ r.kind \in Writes /\ Finish(o)
      /\ tenant' = [tenant EXCEPT ![r.slug] =
                     [c \in DOMAIN @ |-> IF new[c] # r.saw[c] THEN new[c] ELSE @[c]]]
      /\ UNCHANGED <<limit, plan, schema, crossed>>

CreatePlan(p) ==
  /\ plan[p] = None /\ plan' = [plan EXCEPT ![p] = "open"]
  /\ UNCHANGED <<limit, tenant, schema, doing, crossed>>

\* PATCH /plans opens and closes a plan whoever has it.
UpdatePlan(p, state) ==
  /\ plan[p] # None /\ plan' = [plan EXCEPT ![p] = state]
  /\ UNCHANGED <<limit, tenant, schema, doing, crossed>>

\* DELETE /plans: the plan has no active tenant ...
Subscribers(p) == {t \in Served : tenant[t].plan = p}
CheckPlan(o, p) ==
  /\ plan[p] # None /\ Subscribers(p) = {} /\ UNCHANGED crossed
  /\ Start(o, [Rest EXCEPT !.kind = "delete_plan", !.plan = p])

\* ... and is closed.
DeletePlan(o) ==
  /\ doing[o].kind = "delete_plan" /\ Finish(o)
  /\ plan' = [plan EXCEPT ![doing[o].plan] = "closed"]
  /\ UNCHANGED <<limit, tenant, schema, crossed>>

\* The ALTERs fail alone; a CREATE that fails aborts the transaction of the request,
\* and no schema is upgraded, whatever the answer says.
Upgrade(list, broken, skipped) ==
  /\ skipped \subseteq Added
  /\ schema' = [t \in Slugs |-> IF t \in list /\ ~broken
                                  THEN AlterTables(CreateTables(schema[t]), skipped) ELSE schema[t]]
  /\ UNCHANGED <<limit, tenant, plan, doing, crossed>>

UpgradeTenantSchema(t, broken, skipped) == t \in Known /\ Upgrade({t}, broken, skipped)

UpgradeAllSchemas(broken, skipped) == Upgrade(Served, broken, skipped)

\* At startup: every schema, each statement on its own.
HealTenantSchemas(skipped) ==
  /\ skipped \subseteq Added
  /\ schema' = [t \in Slugs |-> IF t \in Known THEN AlterTables(schema[t], skipped) ELSE schema[t]]
  /\ doing' = [o \in Operators |-> Rest] /\ UNCHANGED <<limit, tenant, plan, crossed>>

TenantsNext ==
  \/ \E o \in Operators :
       \/ \E t \in Slugs, p \in Plans \cup {None} :
            \/ \E a \in BOOLEAN : CheckSlug(o, t, p, a)
            \/ \E k \in Writes : ReadTenant(o, k, t, p)
       \/ \E free \in BOOLEAN : FlushTenant(o, free)
       \/ ProvisionTenantSchema(o) \/ CreateDefaultBranch(o) \/ CreateAdminUser(o)
       \/ Abandon(o) \/ CommitTenant(o)
       \/ WriteTenant(o) \/ DeletePlan(o) \/ \E p \in Plans : CheckPlan(o, p)
  \/ \E p \in Plans : CreatePlan(p) \/ \E s \in {"open", "closed"} : UpdatePlan(p, s)
  \/ \E skipped \in SUBSET Added :
       \/ HealTenantSchemas(skipped)
       \/ \E broken \in BOOLEAN : \/ UpgradeAllSchemas(broken, skipped)
                                  \/ \E t \in Slugs : UpgradeTenantSchema(t, broken, skipped)

-----------------------------------------------------------------------------

\* What /stats counts.
InStatus(s) == {t \in Known : tenant[t].status = s}

\* However suspensions, deletions, activations and changes of plan follow one another
\* and overlap with those of other tenants: one that the dashboard counts as active or
\* on trial is served, and one that is served is counted - unless two changes of that
\* tenant overlapped, when each may have written only one of the two columns.
DashboardAgrees ==
  (InStatus("active") \cup InStatus("trial")) \ crossed = Served \ crossed

\* However creations, of one slug or of several, overlap, fail at any statement and are
\* cut off: a tenant that others see has the tables of its schema, and the branch and
\* the admin that were asked for.
TenantIsComplete ==
  \A t \in Known : /\ Parts \ Added \subseteq schema[t]
                   /\ tenant[t].asked => tenant[t].branch /\ tenant[t].admin

\* Both: what is recorded of tenants agrees with what is there.
TenantsAreWhole == DashboardAgrees /\ TenantIsComplete

-----------------------------------------------------------------------------
(* What the proofs need besides *)

Record == [plan : Plans \cup {None}, status : {"trial", "active", "suspended", "cancelled"},
           active : BOOLEAN, branch : BOOLEAN, admin : BOOLEAN, asked : BOOLEAN]

\* A request is about a slug; one that writes has read a record, and the record is
\* still there, though it may have changed.
TenantsTypeOK ==
  /\ tenant \in [Slugs -> Record \cup {None}] /\ schema \in [Slugs -> SUBSET (Parts \cup Added)]
  /\ doing = [o \in Operators |-> doing[o]]
  /\ \A o \in Operators :
       /\ Creating(o) =>
            /\ doing[o].slug \in Slugs /\ doing[o].plan \in Plans \cup {None}
            /\ doing[o].admin \in BOOLEAN
       /\ doing[o].kind \in Writes =>
            /\ doing[o].slug \in Slugs /\ doing[o].plan \in Plans \cup {None}
            /\ tenant[doing[o].slug] \in Record /\ doing[o].saw \in Record

\* A creation has its row first, and nobody else has that slug; the admin comes after
\* the branch.
CreationsAreSound ==
  /\ \A o \in Operators : Creating(o) =>
       /\ "tables" \in Made(o) => "row" \in Made(o)
       /\ "row" \in Made(o) => tenant[doing[o].slug] = None
       /\ "admin" \in Made(o) => "branch" \in Made(o)
  /\ \A o, x \in Operators :
       /\ Creating(o) /\ Creating(x) /\ doing[o].slug = doing[x].slug
       /\ "row" \in Made(o) /\ "row" \in Made(x)
       => o = x

\* The only change of a tenant has read the record as it is.
RecordIsFresh ==
  \A o \in Operators : doing[o].kind \in Writes /\ doing[o].slug \notin crossed =>
    /\ doing[o].saw = tenant[doing[o].slug]
    /\ \A x \in Changing(doing[o].slug) : x = o

\* The inductive invariant.
TenantsInv == TenantsTypeOK /\ CreationsAreSound /\ RecordIsFresh /\ TenantsAreWhole

TenantsSpec == TenantsInit /\ [][TenantsNext]_<<limit, tenants>>

=============================================================================
