------------------------------- MODULE Seeding -------------------------------
(***************************************************************************)
(* The maintenance commands of prisma/seed.ts - seed, clean, reset, drop - *)
(* and the data that prisma/seeds writes.  One command runs at a time, in  *)
(* a process of its own and without a transaction: what throws ends it and *)
(* leaves what was written, and the next command starts from there.        *)
(*                                                                         *)
(* A row is a tuple of its table and the key it is looked up by.  A batch  *)
(* is a Promise.all, of which a failure leaves some rows with those they   *)
(* refer to, or a loop of awaits, of which it leaves the first ones.  The  *)
(* columns that are neither keys nor references are left out.  Of a row    *)
(* that each seeding creates anew there is a copy for each.                *)
(***************************************************************************)
EXTENDS Naturals, SequencesExt

CONSTANTS
    Production,             \* NODE_ENV
    MaxCommands, MaxFaults  \* bounds on a behaviour

ASSUME SeedingAssumption ==
    Production \in BOOLEAN /\ MaxCommands \in Nat /\ MaxFaults \in Nat

VARIABLES
    db,             \* pairs of a row that is there and the number of its copy
    schema,         \* the tables that there are
    command,        \* the command that runs, "none" between two
    step,           \* the batch of Plan that a seeding is at
    todo,           \* the tables that a clean or a drop has before it
    passed,         \* history: tables whose cleaning failed and was passed over
    commands, faults

seedVars == <<db, schema, command, step, todo, passed, commands, faults>>

-----------------------------------------------------------------------------
(* The schema, as far as seeding writes it, with Prisma's own table *)

AllTables ==
    <<"_prisma_migrations", "channels", "curriculums", "departments",
      "meet_participants", "meet_recording_files", "meet_recordings",
      "meetings", "order_refunds", "orders", "organizations", "permissions",
      "products", "projects", "role_permissions", "roles", "storage_objects",
      "transcript_paragraphs", "transcript_sentences", "transcript_words",
      "transcripts", "user_departments", "user_organizations",
      "user_permissions", "user_platforms", "user_profiles", "user_roles",
      "users">>

Tables == ToSet(AllTables)

\* The tables that each table refers to, of those that refer to any.
References ==
    [curriculums |-> {"projects"},
     departments |-> {"organizations", "departments"},
     organizations |-> {"organizations"},
     permissions |-> {"permissions"},
     meetings |-> {"user_platforms"},
     meet_participants |-> {"meetings", "user_platforms"},
     meet_recordings |-> {"meetings", "user_platforms"},
     meet_recording_files |-> {"meet_recordings", "storage_objects"},
     order_refunds |-> {"orders", "users", "order_refunds"},
     orders |-> {"products", "users", "channels"},
     products |-> {"users"},
     role_permissions |-> {"roles", "permissions"},
     storage_objects |-> {"users"},
     transcripts |-> {"meet_recordings"},
     transcript_paragraphs |-> {"transcripts", "user_platforms"},
     transcript_sentences |-> {"transcript_paragraphs"},
     transcript_words |-> {"transcript_sentences"},
     user_departments |-> {"users", "departments"},
     user_organizations |-> {"users", "organizations"},
     user_permissions |-> {"users", "permissions"},
     user_platforms |-> {"users"},
     user_profiles |-> {"users"},
     user_roles |-> {"users", "roles"}]

Parents(t) == IF t \in DOMAIN References THEN References[t] ELSE {}

\* How many tables a table leads to one after the other, itself the first.
Depth[t \in Tables] ==
    LET others == Parents(t) \ {t}
    IN  IF others = {} THEN 1 ELSE 1 + Max({Depth[u] : u \in others})

\* There is no cycle of tables, and none leads to more than seven others.
ASSUME DepthAssumption ==
    \A t \in Tables : /\ Parents(t) \subseteq Tables
                       /\ Depth[t] \in 1..8
                       /\ \A u \in Parents(t) \ {t} : Depth[u] < Depth[t]

-----------------------------------------------------------------------------
(* The data.  A batch is a set of rows [row, of], `of' the rows that the    *)
(* row refers to, with the way they are written: looked up and written     *)
(* once, or created each time.                                             *)

Entry(row, of) == [row |-> row, of |-> of]
Once(entries) == [entries |-> entries, again |-> FALSE, loop |-> FALSE]
Again(entries) == [entries |-> entries, again |-> TRUE, loop |-> FALSE]
Loop(entries) == [entries |-> entries, again |-> FALSE, loop |-> TRUE]

\* USER_CONFIGS and NORMAL_USER_PROFILES: the users by their email.
SpecialUsers == {"admin", "finance", "service"}
NormalUsers == <<"user1", "user2", "user3", "user4", "user5">>
SeedUsers == SpecialUsers \cup ToSet(NormalUsers)

User(u) == <<"users", u>>
Role(r) == <<"roles", r>>
Permission(p) == <<"permissions", p>>

\* createUserWithProfile: the user, by email, then the profile.
CreateUserWithProfile(u) ==
    {Entry(User(u), {}), Entry(<<"user_profiles", u>>, {User(u)})}

\* ROLE_CONFIGS, and createRole.
BasicRoles == {"ADMIN", "FINANCE", "CUSTOMER_SERVICE", "USER"}
CreateRole(r) == Entry(Role(r), {})

\* The role that createUsers assigns to u.
RoleOf(u) ==
    CASE u = "admin" -> "ADMIN" [] u = "finance" -> "FINANCE"
      [] u = "service" -> "CUSTOMER_SERVICE" [] OTHER -> "USER"

AssignUserRole(u) ==
    Entry(<<"user_roles", u, RoleOf(u)>>, {User(u), Role(RoleOf(u))})

CreateUsers ==
    <<Once(UNION {CreateUserWithProfile(u) : u \in SpecialUsers}),
      Once(UNION {CreateUserWithProfile(u) : u \in ToSet(NormalUsers)}),
      Loop({CreateRole(r) : r \in BasicRoles}),
      Once({AssignUserRole(u) : u \in SeedUsers})>>

\* basePermissions: of the forty codes one for each set of roles that the
\* filters below tell apart.
PermissionCodes ==
    {"user:read", "user:create", "role:read", "product:read", "order:read",
     "finance:read", "system:config"}

\* The filters of createPermissions.
Grants(r) ==
    CASE r = "SUPER_ADMIN" -> PermissionCodes
      [] r = "ADMIN" -> PermissionCodes \ {"system:config"}
      [] r = "MANAGER" -> {"user:read", "user:create", "product:read", "order:read"}
      [] r = "FINANCE" -> {"finance:read", "order:read"}
      [] r = "CUSTOMER_SERVICE" -> {"user:read", "product:read", "order:read"}
      [] r = "USER" -> {"product:read", "order:read"}

Grant(r, p) ==
    Entry(<<"role_permissions", r, p>>, {Role(r), Permission(p)})

GrantAll(r, ps) == Loop({Grant(r, p) : p \in ps})

CreatePermissions ==
    <<Loop({Entry(Permission(p), {}) : p \in PermissionCodes}),
      Loop({CreateRole(r) : r \in BasicRoles \cup {"SUPER_ADMIN", "MANAGER"}}),
      GrantAll("SUPER_ADMIN", Grants("SUPER_ADMIN")),
      GrantAll("ADMIN", Grants("ADMIN")),
      GrantAll("MANAGER", Grants("MANAGER")),
      GrantAll("FINANCE", Grants("FINANCE")),
      GrantAll("CUSTOMER_SERVICE", Grants("CUSTOMER_SERVICE")),
      GrantAll("USER", Grants("USER"))>>

Organization == <<"organizations", "LULAB">>

CreateOrganization == <<Once({Entry(Organization, {})})>>

\* DEPARTMENT_CONFIGS: the departments, and the parents of those that have one.
TopDepartments == {"TECH", "SALES", "FINANCE", "HR", "CUSTOMER_SERVICE"}

ParentOf(d) ==
    IF d \in {"TECH_DEV", "TECH_OPS"} THEN "TECH" ELSE "SALES"

SubDepartments == {"TECH_DEV", "TECH_OPS", "SALES_DIRECT", "SALES_CHANNEL"}

Department(d) == <<"departments", d>>

CreateDepartments ==
    <<Once({Entry(Department(d), {Organization}) : d \in TopDepartments}),
      Once({Entry(Department(d), {Organization, Department(ParentOf(d))}) :
                d \in SubDepartments})>>

\* Who belongs where: the primary departments, then the parents of two.
Memberships ==
    {<<"admin", "TECH">>, <<"finance", "FINANCE">>,
     <<"service", "CUSTOMER_SERVICE">>, <<"user1", "TECH_DEV">>,
     <<"user2", "SALES_DIRECT">>, <<"user3", "TECH_OPS">>,
     <<"user4", "SALES_CHANNEL">>, <<"user5", "HR">>,
     <<"user1", "TECH">>, <<"user2", "SALES">>}

CreateUserDepartmentRelations ==
    <<Loop({Entry(<<"user_departments", m[1], m[2]>>,
                  {User(m[1]), Department(m[2])}) : m \in Memberships})>>

CreateUserOrganizationRelations ==
    <<Loop({Entry(<<"user_organizations", u, "LULAB">>,
                  {User(u), Organization}) : u \in SeedUsers})>>

\* ADMIN is granted every permission, system:config too; the other filters
\* look for capitals, which no code has.
CreateRolePermissionRelations == <<GrantAll("ADMIN", PermissionCodes)>>

\* The first two permissions of the table: it keeps the order of the list.
CreateUserPermissionRelations ==
    <<Loop({Entry(<<"user_permissions", "user1", "user:read">>,
                  {User("user1"), Permission("user:read")}),
            Entry(<<"user_permissions", "user2", "user:create">>,
                  {User("user2"), Permission("user:create")})})>>

\* There are no data permission rules, so that they are passed over.
CreateDataPermissionRelations == << >>

CreateAllRelations ==
    CreateUserOrganizationRelations \o CreateRolePermissionRelations
        \o CreateUserPermissionRelations \o CreateDataPermissionRelations

Channel(c) == <<"channels", c>>

\* CHANNEL_CONFIGS, in the order that orders count by; each is looked up by
\* its code, then updated or created.
ChannelCodes == <<"OFFICIAL_WEBSITE", "DOUYIN_SHOP", "WECHAT_MINIPROGRAM",
                  "TAOBAO_SHOP", "OFFLINE_PROMOTION", "PARTNER">>

CreateChannels == <<Once({Entry(Channel(c), {}) : c \in ToSet(ChannelCodes)})>>

\* PROJECT_CONFIGS by their ids.
ProjectIds == 1..5
Project(p) == <<"projects", p>>
CreateProjects == <<Once({Entry(Project(p), {}) : p \in ProjectIds})>>

\* CURRICULUM_CONFIGS: project and place in it, the first of each project.
CurriculumIds == {<<1, 1>>, <<2, 1>>, <<3, 1>>, <<4, 1>>, <<5, 1>>}

\* The ids of projects that no project has are only warned of.
CreateCurriculums ==
    <<Once({Entry(<<"curriculums", c[1], c[2]>>, {Project(c[1])}) :
                c \in CurriculumIds})>>

\* productConfigs, in order; createProduct looks each up by its code.
ProductCodes == <<"COURSE_001", "COURSE_002", "COURSE_003", "MEMBERSHIP_001",
                  "CONSULTING_001", "PROJECT_001">>

Product(p) == <<"products", p>>

CreateProducts ==
    <<Loop({Entry(Product(p), {User("admin")}) : p \in ToSet(ProductCodes)})>>

\* The orders: product, channel, buyer where there is one, and whether they
\* are financially closed, by the administrator.
OrderConfigs ==
    <<[product |-> 1, channel |-> 2, buyer |-> {"user1"}, closed |-> TRUE],
      [product |-> 2, channel |-> 3, buyer |-> {"user2"}, closed |-> TRUE],
      [product |-> 4, channel |-> 1, buyer |-> {"user3"}, closed |-> TRUE],
      [product |-> 5, channel |-> 4, buyer |-> {"user4"}, closed |-> FALSE],
      [product |-> 6, channel |-> 6, buyer |-> {"user5"}, closed |-> TRUE],
      [product |-> 3, channel |-> 5, buyer |-> {}, closed |-> FALSE],
      [product |-> 2, channel |-> 1, buyer |-> {}, closed |-> TRUE]>>

Order(i) == <<"orders", i>>

OrderEntry(i) ==
    LET o == OrderConfigs[i]
    IN  Entry(Order(i),
              {Product(ProductCodes[o.product]), Channel(ChannelCodes[o.channel]),
               User("finance")}
                  \cup {User(u) : u \in o.buyer}
                  \cup (IF o.closed THEN {User("admin")} ELSE {}))

\* Their codes carry the time, so that each run creates its own.
CreateOrders == <<Again({OrderEntry(i) : i \in 1..Len(OrderConfigs)})>>

\* REFUND_CONFIGS: the order of each (the code counts from 0) and its creator.
RefundConfigs ==
    {[order |-> 1, by |-> "admin"], [order |-> 4, by |-> "finance"],
     [order |-> 3, by |-> "finance"], [order |-> 5, by |-> "admin"]}

\* afterSaleCode is not unique.
CreateRefunds ==
    <<Again({Entry(<<"order_refunds", r.order>>, {Order(r.order), User(r.by)}) :
                 r \in RefundConfigs})>>

\* PLATFORM_USER_CONFIGS, and createPlatformUser, which updates who is found.
PlatformUsers ==
    {"host1", "host2", "host3", "host4", "participant1", "participant2"}
PlatformUser(u) == <<"user_platforms", u>>

CreatePlatformUsers == Once({Entry(PlatformUser(u), {}) : u \in PlatformUsers})

\* MEETING_CONFIGS and the hosts that createMeetings gives them.
HostOf == [team |-> "host1", client |-> "host2", training |-> "host3",
           emergency |-> "host4"]

Meeting(m) == <<"meetings", m>>

CreateMeeting ==
    Once({Entry(Meeting(m), {PlatformUser(HostOf[m])}) : m \in DOMAIN HostOf})

\* createMeetingParticipant for each of these.
Participations ==
    {<<"team", "participant1">>, <<"team", "participant2">>,
     <<"client", "participant1">>, <<"training", "participant1">>,
     <<"emergency", "participant2">>}

CreateMeetingParticipants ==
    Again({Entry(<<"meet_participants", p[1], p[2]>>,
                 {Meeting(p[1]), PlatformUser(p[2])}) : p \in Participations})

Storage == <<"storage_objects", "recording">>
Recording == <<"meet_recordings", "team">>

\* MEETING_FILE_CONFIGS, each of the three rows looked up before it is made.
CreateMeetingRecording ==
    <<Once({Entry(Storage, {})}),
      Once({Entry(Recording, {Meeting("team"), PlatformUser("host1")})}),
      Once({Entry(<<"meet_recording_files", "team">>, {Recording, Storage})})>>

\* TRANSCRIPT_DIALOGUE: paragraphs of one sentence each, and its words as one.
DialogueLength == 7

Transcript == <<"transcripts", "team">>

ParagraphEntries(i) ==
    LET paragraph == <<"transcript_paragraphs", i>>
        sentence == <<"transcript_sentences", i>>
    IN  {Entry(paragraph, {Transcript, PlatformUser("host1")}),
         Entry(sentence, {paragraph}),
         Entry(<<"transcript_words", i>>, {sentence})}

CreateSimulatedTranscript ==
    <<Again({Entry(Transcript, {Recording})})>>
        \o [i \in 1..DialogueLength |-> Again(ParagraphEntries(i))]

\* createMeetingSummary names a field, createdBy, that the model of the
\* summaries does not have: Prisma throws before it writes.
CreateMeetingSummary == Again({})

CreateMeetings ==
    <<CreatePlatformUsers, CreateMeeting, CreateMeetingParticipants>>
        \o CreateMeetingRecording \o CreateSimulatedTranscript
        \o <<CreateMeetingSummary>>

CreateBasicData ==
    CreateUsers \o CreatePermissions \o CreateOrganization \o CreateDepartments
        \o CreateUserDepartmentRelations \o CreateAllRelations
        \o CreateChannels \o CreateProjects \o CreateCurriculums
        \o CreateProducts

CreateBusinessData == CreateOrders \o CreateRefunds

\* seedDatabase.
Plan == CreateBasicData \o CreateBusinessData \o CreateMeetings

Batches == DOMAIN Plan
RowsOf(es) == {e.row : e \in es}
Entries == UNION {Plan[i].entries : i \in Batches}

\* What a row refers to, whoever writes it.
Needs == [row \in RowsOf(Entries) |->
              UNION {e.of : e \in {f \in Entries : f.row = row}}]
NeededBy(row) == IF row \in DOMAIN Needs THEN Needs[row] ELSE {}

Migrations == <<"_prisma_migrations", "init">>
Rows == RowsOf(Entries) \cup {Migrations}

\* The tables of which each run has its own rows.
TablesAgain ==
    {"orders", "order_refunds", "meet_participants", "transcripts",
     "transcript_paragraphs", "transcript_sentences", "transcript_words"}

TableOf(row) == row[1]

\* Whom an entry e of batch i refers to is written with it or before it.
WrittenBefore(i, e, r) ==
    \/ r \in e.of /\ \E f \in Plan[i].entries : f.row = r
    \/ \E j \in 1..(i - 1) : r \in RowsOf(Plan[j].entries)

\* What the data is like: a row is created by every run or by none, it refers
\* along the references of its table, and what all runs share refers to what
\* all runs share.
ASSUME PlanAssumption ==
    /\ Batches = 1..Len(Plan) /\ Len(Plan) \in Nat \ {0}
    /\ \A i \in Batches : \A e \in Plan[i].entries :
          /\ TableOf(e.row) \in Tables
          /\ Plan[i].again <=> TableOf(e.row) \in TablesAgain
          /\ \A r \in NeededBy(e.row) :
                /\ WrittenBefore(i, e, r)
                /\ TableOf(r) \in Parents(TableOf(e.row))
                /\ TableOf(r) \in TablesAgain => Plan[i].again
    /\ NeededBy(Migrations) = {} /\ TableOf(Migrations) \in Tables \ TablesAgain

-----------------------------------------------------------------------------
(* topologicalSort *)

\* What has been visited, and the tables in the order in which their visits
\* ended: before and after a visit's walk through the parents of t.
Entered(seen, t) == [seen EXCEPT !.visited = @ \cup {t}]
Left(seen, t) == [seen EXCEPT !.result = Append(@, t)]

\* visit, for one table after the other.
VisitAll(deps) ==
    LET T == DOMAIN deps
        visit[p \in Seq(T) \X [visited : SUBSET T, result : Seq(T)]] ==
            LET ts == p[1]
                seen == p[2]
                inner == visit[<<deps[Head(ts)], Entered(seen, Head(ts))>>]
            IN  IF ts = << >> THEN seen
                ELSE IF Head(ts) \in seen.visited THEN visit[<<Tail(ts), seen>>]
                ELSE visit[<<Tail(ts), Left(inner, Head(ts))>>]
    IN  visit

NothingVisited == [visited |-> {}, result |-> << >>]

\* The tables ts, children before their parents; deps[t] are the parents.
TopologicalSort(ts, deps) ==
    Reverse(VisitAll(deps)[<<ts, NothingVisited>>].result)

\* Mutant: a list of the tables instead of asking for them.
TablesListed == AllTables

\* The tables ts in the order of their names.
Place == [t \in Tables |-> CHOOSE i \in DOMAIN AllTables : AllTables[i] = t]

ByName(ts) ==
    [i \in 1..Cardinality(ts) |->
        CHOOSE t \in ts : Cardinality({u \in ts : Place[u] <= Place[t]}) = i]

\* getAllTables, and analyzeTableDependencies on them.
TablesNow == ByName(schema)
DependenciesNow ==
    LET ts == ToSet(TablesNow) IN [t \in ts |-> ByName(Parents(t) \cap ts)]

\* Mutant: the tables are deleted in the order they are listed.
ListOrder == TablesNow

DeletionOrder == TopologicalSort(TablesNow, DependenciesNow)

-----------------------------------------------------------------------------
(* Commands *)

SeedInit ==
    /\ db = {<<Migrations, 0>>}
    /\ schema = Tables
    /\ command = "none" /\ step = 0 /\ todo = << >>
    /\ passed = {}
    /\ commands = 0 /\ faults = 0

Fault == faults < MaxFaults /\ faults' = faults + 1

Commands == {"seed", "clean", "reset", "drop"}

Ends == command' = "none" /\ step' = 0 /\ todo' = << >>

\* main, and cleanDatabase and dropAllTables as far as their loops, which
\* drop reaches with force or, but in production, a typed confirmation.
Start ==
    /\ command = "none" /\ commands < MaxCommands
    /\ commands' = commands + 1
    /\ \E c \in Commands :
           /\ c = "drop" => \E force, confirmed \in BOOLEAN :
                                force \/ (~Production /\ confirmed)
           /\ IF c = "seed" \/ (c = "reset" /\ schema = {})
              THEN command' = c /\ step' = 1 /\ todo' = << >>
              ELSE IF schema = {} THEN Ends
              ELSE command' = c /\ step' = 0 /\ todo' = DeletionOrder
    /\ passed' = {}
    /\ UNCHANGED <<db, schema, faults>>

Seeding == step \in Batches

\* Table by table, there is room for the rows of these entries.
Tabled(es) == \A r \in RowsOf(es) : TableOf(r) \in schema

Has(row) == \E n \in 0..commands : <<row, n>> \in db

\* Mutant: nothing is looked up before it is written.
WrittenAnew(b, es) == db' = db \cup (RowsOf(es) \X {commands})

\* The entries es of the batch b are written.
Written(b, es) ==
    db' = db \cup (IF b.again THEN RowsOf(es) \X {commands}
                   ELSE {r \in RowsOf(es) : ~Has(r)} \X {0})

SeedBatch ==
    /\ Seeding /\ step < Len(Plan)
    /\ Tabled(Plan[step].entries)
    /\ Written(Plan[step], Plan[step].entries)
    /\ step' = step + 1
    /\ UNCHANGED <<schema, command, todo, passed, commands, faults>>

\* The first rows of a loop, whose order is any one.
BeginningsOf(entries) ==
    LET beginnings[es \in SUBSET entries] ==
            {es} \cup IF es = {} THEN {}
                      ELSE beginnings[es \ {CHOOSE e \in es : TRUE}]
    IN  beginnings[entries]

\* What may have been written of the batch b when it throws.
Partial(b) ==
    {es \in SUBSET b.entries :
        /\ b.loop => es \in BeginningsOf(b.entries)
        /\ Tabled(es)
        /\ \A e \in es : \A f \in b.entries : f.row \in e.of => f \in es}

\* A batch throws: for want of a table, as the last one does each time, or
\* by a fault, the end of the process among them.
SeedThrows ==
    /\ Seeding
    /\ IF step = Len(Plan) \/ ~Tabled(Plan[step].entries)
       THEN UNCHANGED faults ELSE Fault
    /\ \E es \in Partial(Plan[step]) : Written(Plan[step], es)
    /\ Ends
    /\ UNCHANGED <<schema, passed, commands>>

Deleting(c) == todo # << >> /\ command \in c

\* After a table: the next one, or what follows the last.
DeletesOn ==
    IF Tail(todo) # << >> THEN todo' = Tail(todo) /\ UNCHANGED <<command, step>>
    ELSE IF command = "reset" THEN step' = 1 /\ todo' = << >> /\ UNCHANGED command
    ELSE Ends

\* The tables ts with those that refer to them, those that refer to these,
\* and so on: DepthAssumption has how far.
WithReferring(ts) == ts \cup {u \in schema : Parents(u) \cap ts # {}}

FourDeep(ts) ==
    WithReferring(WithReferring(WithReferring(WithReferring(ts))))

CascadesTo(ts) == FourDeep(FourDeep(ts))

\* The rows that are not in the tables ts.
Outside(ts) == LET gone == ts IN {row \in db : TableOf(row[1]) \notin gone}

\* cleanupTableData: no name of a table is one of a Prisma model, so that
\* every table is truncated, Prisma's own with them.
CleanupTableData ==
    /\ Deleting({"clean", "reset"})
    /\ db' = Outside(CascadesTo({Head(todo)}))
    /\ DeletesOn
    /\ UNCHANGED <<schema, passed, commands, faults>>

\* A table's cleaning fails and is passed over.
CleanupFails ==
    /\ Deleting({"clean", "reset"}) /\ Fault
    /\ passed' = passed \cup {Head(todo)}
    /\ DeletesOn
    /\ UNCHANGED <<db, schema, commands>>

\* DROP TABLE ... CASCADE drops the table and the constraints on it.
DropTable ==
    /\ Deleting({"drop"})
    /\ schema' = schema \ {Head(todo)}
    /\ db' = Outside({Head(todo)})
    /\ DeletesOn
    /\ UNCHANGED <<passed, commands, faults>>

DropFails ==
    /\ Deleting({"drop"}) /\ Fault
    /\ DeletesOn
    /\ UNCHANGED <<db, schema, passed, commands>>

\* The process is ended between two tables.
Interrupted ==
    /\ todo # << >> /\ Fault
    /\ Ends
    /\ UNCHANGED <<db, schema, passed, commands>>

SeedNext ==
    \/ Start \/ SeedBatch \/ SeedThrows \/ CleanupTableData \/ CleanupFails
    \/ DropTable \/ DropFails \/ Interrupted

SeedSpec == SeedInit /\ [][SeedNext]_seedVars

-----------------------------------------------------------------------------
(* Properties *)

SeedTypeOK ==
    /\ db \subseteq Rows \X (0..MaxCommands)
    /\ schema \subseteq Tables
    /\ command \in Commands \cup {"none"}
    /\ step \in {0} \cup Batches
    /\ todo \in Seq(schema)
    /\ passed \subseteq Tables
    /\ commands \in 0..MaxCommands /\ faults \in 0..MaxFaults

\* Seeding can be run again after it ended anywhere, and after a clean or a
\* drop that did: what it looks up is there once, and what it writes refers
\* to rows that are there, of the same run where each run creates its own.
SeededSound ==
    \A copy \in db :
        /\ TableOf(copy[1]) \notin TablesAgain => copy[2] = 0
        /\ \A r \in NeededBy(copy[1]) : TableOf(r) \in schema =>
               <<r, IF TableOf(r) \in TablesAgain THEN copy[2] ELSE 0>> \in db

Empty(t) == \A row \in db : TableOf(row[1]) # t

\* A clean empties children before parents: when it truncates a table, each
\* other table that the cascade reaches is empty or one whose own cleaning
\* failed in this clean.
CascadesHitEmptyTables ==
    [][CleanupTableData =>
           \A u \in CascadesTo({Head(todo)}) \ {Head(todo)} :
               Empty(u) \/ u \in passed]_seedVars
=============================================================================
