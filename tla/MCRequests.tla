----------------------------- MODULE MCRequests -----------------------------
(***************************************************************************)
(* Beside the services (MCServices): what the website shows, the catalogue *)
(* and its caches (Catalogue), images (Media), prices (Prices), promotions *)
(* (Promotions) and testimonials (Testimonials), and the link by which a   *)
(* client calls off what she booked (CancellationLinks). Then the scripts  *)
(* that fill the database, the shop and Conduit (SetUp, ProductImport),    *)
(* what a visitor is shown of the catalogue (Storefront), the templates of *)
(* messages (Templates), the tools of the bot (Conversation), the          *)
(* treatments that are meant by a name (TreatmentNames), and what          *)
(* surrounds every request: the guards and limits before its handler       *)
(* (RateLimits) and the audit log around it (Audit). This is the module of *)
(* the run Services; and of the run Progress, which takes the instances    *)
(* that the process drives by itself, and the transactions that give       *)
(* appointments their place (SlotHolding).                                 *)
(***************************************************************************)
EXTENDS MCServices

VARIABLES
  row, cached, reader, edit, edits, asked, crossed, missed, failures,
  kind, shown, kept, editor, crashes, severed, disturbed,
  treatment, promotion, hair, quote, charged, changed, point,
  link, visitor, hour, incidents, answered,
  place, tied

\* Some of these belong to two modules, by name only: row (Catalogue, CancellationLinks),
\* asked (Catalogue, Testimonials), crossed (Catalogue, Promotions), failures (Catalogue,
\* Media), editor (Media, Promotions, Testimonials), promotion (Prices, Promotions).
catalogueOnly == <<cached, reader, edit, edits, missed>>
mediaOnly == <<kind, shown, kept, crashes, severed, disturbed>>
pricesOnly == <<treatment, hair, quote, charged, changed, point>>
linksOnly == <<link, visitor, hour, incidents, answered>>
testimonialsOnly == <<place, tied>>
shared == <<row, asked, crossed, failures, editor, promotion>>
websiteVars ==
  <<catalogueOnly, mediaOnly, pricesOnly, linksOnly, testimonialsOnly, shared>>
siteVars == <<knownVars, websiteVars>>

-----------------------------------------------------------------------------
(* Instances *)

\* Every edit there is, a reader, and a call of Redis that fails.
Store == INSTANCE Catalogue WITH Readers <- {1}, MaxEdits <- 1, MaxFailures <- 1

\* Two administrators, calls that fail and a process that dies.
Images == INSTANCE Media WITH
  Admins <- {1, 2}, Kinds <- {"variant", "video", "testimonial"}, MaxFailures <- 2,
  MaxCrashes <- 1, stored <- kept, admin <- editor

Service(assessed, variable, min, max, length, color) ==
  [requiresPriorAssessment |-> assessed, hasHairVariablePricing |-> variable,
   basePriceMin |-> min, basePriceMax |-> max, length |-> length, color |-> color]

\* Services with one price, with a price after assessment that is known and that is not,
\* with prices by length, with surcharges, and with half of their settings.
Price == INSTANCE Prices WITH
  Treatments <- {Service(FALSE, FALSE, {5}, {9}, <<>>, <<>>),
                 Service(TRUE, FALSE, {5}, {9}, <<>>, <<>>),
                 Service(TRUE, FALSE, {5}, {}, <<>>, <<>>),
                 Service(FALSE, TRUE, {5}, {9}, <<7, 11>>, <<3>>),
                 Service(TRUE, TRUE, {}, {}, <<11, 7>>, <<>>),
                 Service(FALSE, TRUE, {7}, {}, <<>>, <<2, 3>>)},
  Discounts <- {15, 50}, Lengths <- {1, 2}, Colors <- {1, 2}, phase <- point

\* Two administrators and three promotions.
Offer == INSTANCE Promotions WITH
  Admins <- {1, 2}, Ids <- 1 .. 3, Times <- 0 .. 2, admin <- editor

\* Two reservations of one client, one of which may move to another day.
Links == INSTANCE CancellationLinks WITH
  Reservations <- 1 .. 2, Starts <- <<{1, 3}, {1}>>, Requests <- {1, 2},
  DayLength <- 2, Horizon <- 2, MaxEvents <- 1,
  request <- visitor, now <- hour, events <- incidents

\* Three administrators and three testimonials.
Words == INSTANCE Testimonials WITH
  Admins <- 1 .. 3, Ids <- 1 .. 3, admin <- editor,
  Orders <- {<<1, 2>>, <<2, 1>>, <<3, 2, 1>>, <<2, 3, 1>>, <<1, 2, 3>>}

-----------------------------------------------------------------------------

CatalogueOnlyRests ==
  cached = <<>> /\ reader = <<>> /\ edit = <<>> /\ edits = 0 /\ missed = <<>>
MediaOnlyRests ==
  /\ kind = "" /\ shown = <<>> /\ kept = <<>> /\ crashes = 0 /\ severed = <<>>
  /\ disturbed = <<>>
PricesOnlyRests ==
  /\ treatment = <<>> /\ hair = <<>> /\ quote = <<>> /\ charged = 0 /\ changed = FALSE
  /\ point = ""
LinksOnlyRests ==
  /\ link = <<>> /\ visitor = <<>> /\ hour = 0 /\ incidents = 0 /\ answered = <<>>
TestimonialsOnlyRests == place = <<>> /\ tied = FALSE

\* All but the variables of one module are at rest.
OtherThan(only) ==
  /\ IF only = "catalogue" THEN TRUE ELSE CatalogueOnlyRests
  /\ IF only = "media" THEN TRUE ELSE MediaOnlyRests
  /\ IF only = "prices" THEN TRUE ELSE PricesOnlyRests
  /\ IF only = "links" THEN TRUE ELSE LinksOnlyRests
  /\ IF only = "testimonials" THEN TRUE ELSE TestimonialsOnlyRests
  /\ IF only \in {"catalogue", "links"} THEN TRUE ELSE row = <<>>
  /\ IF only \in {"catalogue", "testimonials"} THEN TRUE ELSE asked = {}
  /\ IF only \in {"catalogue", "promotions"} THEN TRUE ELSE crossed = {}
  /\ IF only \in {"catalogue", "media"} THEN TRUE ELSE failures = 0
  /\ IF only \in {"media", "promotions", "testimonials"} THEN TRUE ELSE editor = <<>>
  /\ IF only \in {"prices", "promotions"} THEN TRUE ELSE promotion = <<>>

WebsiteInit ==
  \/ ClientsInit /\ OtherThan("none")
  \/ /\ ServicesRest /\ MessagesRest /\ ClientsRest
     /\ \/ scenario = "catalogue" /\ Store!Init /\ OtherThan("catalogue")
        \/ scenario = "media" /\ Images!Init /\ OtherThan("media")
        \/ scenario = "prices" /\ Price!Init /\ OtherThan("prices")
        \/ scenario = "promotions" /\ Offer!Init /\ OtherThan("promotions")
        \/ scenario = "links" /\ Links!Init /\ OtherThan("links")
        \/ scenario = "testimonials" /\ Words!Init /\ OtherThan("testimonials")

WebsiteNext ==
  \/ /\ scenario = "catalogue" /\ Store!Next
     /\ UNCHANGED <<mediaOnly, pricesOnly, linksOnly, testimonialsOnly, editor, promotion>>
  \/ /\ scenario = "media" /\ Images!Next
     /\ UNCHANGED <<catalogueOnly, pricesOnly, linksOnly, testimonialsOnly,
                    row, asked, crossed, promotion>>
  \/ /\ scenario = "prices" /\ Price!Next
     /\ UNCHANGED <<catalogueOnly, mediaOnly, linksOnly, testimonialsOnly,
                    row, asked, crossed, failures, editor>>
  \/ /\ scenario = "promotions" /\ Offer!Next
     /\ UNCHANGED <<catalogueOnly, mediaOnly, pricesOnly, linksOnly, testimonialsOnly,
                    row, asked, failures>>
  \/ /\ scenario = "links" /\ Links!Next
     /\ UNCHANGED <<catalogueOnly, mediaOnly, pricesOnly, testimonialsOnly,
                    asked, crossed, failures, editor, promotion>>
  \/ /\ scenario = "testimonials" /\ Words!Next
     /\ UNCHANGED <<catalogueOnly, mediaOnly, pricesOnly, linksOnly,
                    row, crossed, failures, promotion>>

SiteNext ==
  \/ ClientsNext /\ UNCHANGED websiteVars
  \/ WebsiteNext /\ UNCHANGED knownVars

\* Handlers and readers of the catalogue go on, and so do transactions, of which the
\* database aborts one when they wait for each other.
WebsiteFairness ==
  /\ WF_<<row, cached, reader, edit, edits, asked, crossed, missed, failures>>(
       scenario = "catalogue" /\ Store!Work)
  /\ WF_<<place, editor, asked, tied>>(
       scenario = "testimonials" /\ \E a \in 1 .. 3 : Words!Step(a))

-----------------------------------------------------------------------------
(* What is recorded is true (UploadsAreTrue and SentIsTrue) *)

\* A row reported as uploaded has its vouchers at Siigo, and whoever is marked as sent
\* an event or a message did get it, however often sending was interrupted, repeated or
\* taken over.
SiteRecords == UploadsAreTrue /\ SentIsTrue

\* Of a client who was made anonymous nothing is left that was there when it began, and
\* health data is kept of nobody who did not consent (PrivacyHolds); tags do not
\* contradict each other and the preview of an audience accounts for everybody.
ClientsAreTrue == PrivacyHolds /\ WhatIsToldOfClients

-----------------------------------------------------------------------------
(* The website *)

\* The catalogue shows every edit once its handler is done, as far as the caches it
\* forgets are concerned; the price that was told is the one that is charged while
\* nothing changes, and a known profile never makes a service dearer; one promotion at
\* most applies to a target unless two requests cross; and the testimonials are in the
\* order that was committed last.
SiteIsTrue ==
  /\ scenario = "catalogue" => Store!EditsAreShown
  /\ scenario = "prices" => Price!QuoteIsKept /\ Price!ProfileIsNeverDearer
  /\ scenario = "promotions" => Offer!PromotionIsClear
  /\ scenario = "testimonials" => Words!OrderIsTheLastAsked

\* No image that is shown was destroyed, and none that is not shown is left at
\* Cloudinary, whichever call fails, unless a crash, a failed destruction or two
\* requests that crossed explain it.
ImagesAreKept ==
  /\ ProofsAreStored
  /\ scenario = "media" => Images!ShownIsStored /\ Images!NothingIsLeft

\* A client is told what became of her booking (ClientIsTold), and the answer to her
\* link is true: the day she was told is called off is, and asking again says the same.
ClientIsAnswered ==
  /\ ClientIsTold
  /\ scenario = "links" => Links!DayIsCleared /\ Links!RepeatIsAnswered

-----------------------------------------------------------------------------

\* What was begun comes to an end (OutboundSettled, ServicesSettled, MessagesSettled,
\* ClientsSettled); no cache stays older than the catalogue, and no administrators wait
\* for each other's rows.
SiteSettled ==
  /\ ClientsSettled
  /\ scenario = "catalogue" => Store!NothingStale
  /\ scenario = "testimonials" => Words!NobodyWaits

\* The type invariants of the modules.
SiteTypes ==
  /\ ClientsTypes
  /\ scenario = "catalogue" => Store!TypeOK
  /\ scenario = "media" => Images!TypeOK
  /\ scenario = "prices" => Price!TypeOK
  /\ scenario = "promotions" => Offer!TypeOK
  /\ scenario = "links" => Links!TypeOK
  /\ scenario = "testimonials" => Words!TypeOK

-----------------------------------------------------------------------------
(* Set-up, the shop, the bot and what surrounds every request *)

VARIABLES
  rows, remote, seeder, meddling, failing, lost, doubled, removed,
  shelves, shop, texts, script, touches, touched,
  stock, menu, asking

setUpVars == <<rows, remote, seeder, meddling, failing, lost, doubled, removed>>
importVars == <<shelves, shop, texts, script, touches, touched>>
storeVars == <<stock, menu, asking>>
panelVars == <<setUpVars, importVars, storeVars>>

-----------------------------------------------------------------------------
(* Instances *)

\* A run, one more, a failure and a word of the operator.
Deploy == INSTANCE SetUp WITH MaxRuns <- 2, MaxMeddling <- 1, MaxFailures <- 1

\* Two runs, of either script, that break off or that the administrator crosses.
Import == INSTANCE ProductImport WITH MaxRuns <- 2, MaxTouches <- 2

Product(name, category, order, tags, prices) ==
  [name |-> name, category |-> category, order |-> order, tags |-> tags, prices |-> prices]
Card(min, max, off) == [min |-> min, max |-> max, off |-> off]

\* Products without a variant, with one price and several, with equal prices, without tags.
SmallShop ==
  <<Product(1, 1, 2, {"oil"}, {10, 40}), Product(2, 2, 1, {"oil", "dry"}, {20}),
    Product(3, 1, 1, {}, {}), Product(4, 2, 1, {"dry"}, {20, 30})>>
LargeShop ==
  <<Product(3, 1, 1, {"oil"}, {10}), Product(1, 1, 1, {"oil"}, {10}),
    Product(2, 1, 2, {}, {}), Product(4, 2, 1, {"oil"}, {}),
    Product(5, 2, 2, {"dry", "oil"}, {30}), Product(6, 1, 5, {"dry"}, {25, 50})>>

Browse == INSTANCE Storefront WITH
  Catalogs <- {SmallShop, LargeShop, <<>>},
  Menus <- {<<Card({500}, {900}, {}), Card({600}, {}, {50}), Card({}, {}, {15})>>},
  Filters <-
    [category : {{}, {1}}, tags : {{}, {"oil"}, {"oil", "dry"}},
     min : {{}, {15}, {25}}, max : {{}, {15}, {30}},
     sort : {"featured", "name", "price-asc", "price-desc"}, size : {{}, {2}},
     page : {1, 2, 9}]

-----------------------------------------------------------------------------

SetUpRests ==
  /\ rows = <<>> /\ remote = <<>> /\ seeder = <<>> /\ meddling = 0 /\ failing = 0
  /\ lost = {} /\ doubled = {} /\ removed = {}
ImportRests ==
  /\ shelves = {} /\ shop = <<>> /\ texts = <<>> /\ script = <<>> /\ touches = 0
  /\ touched = FALSE
StoreRests == stock = <<>> /\ menu = <<>> /\ asking = <<>>

WebsiteRests == OtherThan("none")
PanelInit ==
  \/ WebsiteInit /\ SetUpRests /\ ImportRests /\ StoreRests
  \/ /\ ServicesRest /\ MessagesRest /\ ClientsRest /\ WebsiteRests
     /\ \/ scenario = "deploy" /\ Deploy!Init /\ ImportRests /\ StoreRests
        \/ scenario = "import" /\ Import!Init /\ SetUpRests /\ StoreRests
        \/ scenario = "browse" /\ Browse!Init /\ SetUpRests /\ ImportRests

PanelNext ==
  \/ SiteNext /\ UNCHANGED panelVars
  \/ /\ \/ scenario = "deploy" /\ Deploy!Next /\ UNCHANGED <<importVars, storeVars>>
        \/ scenario = "import" /\ Import!Next /\ UNCHANGED <<setUpVars, storeVars>>
        \/ scenario = "browse" /\ Browse!Next /\ UNCHANGED <<setUpVars, importVars>>
     /\ UNCHANGED siteVars

-----------------------------------------------------------------------------
(* The website *)

\* What the website shows follows the catalogue, the price that is told is the one that
\* is charged (SiteIsTrue); lists, numbers beside a choice, filters by price and
\* announced prices are true to the shop they are computed from.
WebsiteIsTrue ==
  /\ SiteIsTrue
  /\ scenario = "browse" =>
       /\ Browse!PagesCoverTheList /\ Browse!FacetsAreTrue /\ Browse!PriceFilterHidesNothing
       /\ Browse!OrderIsByPrice /\ Browse!AnnouncedPriceIsReal /\ Browse!RelatedAreClosest

\* A script that sets up the spa or imports its shop can break off anywhere and be run
\* again: what it completes is what its files say, and what the spa wrote is kept.
SetUpIsRepeatable ==
  /\ scenario = "deploy" =>
       /\ Deploy!EditsAreKept /\ Deploy!CreatedOnce /\ Deploy!FallbackStands
       /\ Deploy!LockedIsSilent /\ Deploy!RunCompletes
  /\ scenario = "import" =>
       Import!ImportIsExact /\ Import!EverythingHasAShelf /\ Import!StepsAreWhole

-----------------------------------------------------------------------------

PanelTypes ==
  /\ SiteTypes
  /\ scenario = "deploy" => Deploy!TypeOK
  /\ scenario = "import" => Import!TypeOK
  /\ scenario = "browse" => Browse!TypeOK

-----------------------------------------------------------------------------
(* The templates and the bot *)

VARIABLES
  listing, cache, resolver, panel, clock, outages, revision, forgotten, left,
  person, booked, tool, notice, erasures, unqueued,
  catalog, query

templateVars == <<listing, cache, resolver, panel, clock, outages, revision, forgotten, left>>
toolVars == <<person, booked, tool, notice, erasures, unqueued>>
nameVars == <<catalog, query>>
botVars == <<templateVars, toolVars, nameVars>>

-----------------------------------------------------------------------------
(* Instances *)

Template(id, name) == [id |-> id, name |-> name]

\* One message at a time, while the panel sends a request of any kind: the template is on
\* the second page, is not there, or is there twice when one is created.
OfPanel == INSTANCE Templates WITH
  Wanted <- {"reminder", "link"}, Names <- {"reminder", "other"}, Env <- {"link"},
  Lists <- {<<Template(1, "reminder"), Template(2, "other")>>,
            <<Template(1, "other"), Template(2, "reminder")>>, <<>>},
  KnownIds <- {1, 2}, NewIds <- {3}, PageSize <- 1, Resolvers <- {q1}, Requests <- {q2},
  Kinds <- {"create", "rename", "remove", "connection", "conversations", "messages"},
  Unset <- {"connection"}, TTL <- 1, Patience <- 1, MaxTime <- 3, MaxOutages <- 1

\* Two messages, of which one may be reading the list since before a template was removed.
Latecomers == INSTANCE Templates WITH
  Wanted <- {"reminder"}, Names <- {"reminder", "other"}, Env <- {},
  Lists <- {<<Template(1, "other"), Template(2, "reminder"), Template(3, "reminder")>>},
  KnownIds <- {2}, NewIds <- {}, PageSize <- 2, Resolvers <- {q1, q2}, Requests <- {e1},
  Kinds <- {"remove"}, Unset <- {},
  TTL <- 1, Patience <- 1, MaxTime <- 2, MaxOutages <- 1

\* Two requests from any chats, with a client who has a booking and a number that nobody has.
Chats == INSTANCE Conversation WITH
  Calls <- {q1, q2}, Phones <- {"ana", "bea"}, Known <- (1 :> "ana"), Rows <- {1, 2},
  OwnerOf <- (1 :> 1), Bookings <- {1, 2},
  Requested <- {"me", "register", "book", "handoff", "update", "upcoming", "cancel",
                "reschedule", "catalogue"},
  Recipients <- {c1, c2}, MaxErasures <- 1, MaxFailures <- 1,
  row <- person, mishaps <- unqueued

ASSUME ChatsAssumption == Chats!ChatBounds

AWord(root, length) == [root |-> root, length |-> length]
Named(id, name, slug) == [id |-> id, name |-> name, slug |-> slug]
Clean == AWord("clean", 8)
Deep == AWord("deep", 8)
DeepS == AWord("deep", 10)
Face == AWord("face", 6)
FaceS == AWord("face", 8)
FaceXX == AWord("face", 10)
Foot == AWord("foot", 3)
FootS == AWord("foot", 4)
SpokenWords == {Clean, Deep, DeepS, Face, FaceS, FaceXX, Foot, FootS}

\* Names that begin alike or contain each other, words of three letters, endings, twins.
Naming == INSTANCE TreatmentNames WITH
  Catalogs <-
    {<<Named(1, <<Clean, Face>>, <<Clean, Face>>), Named(2, <<Clean, Face, Deep>>, <<Deep>>),
       Named(3, <<Foot>>, <<>>), Named(4, <<FootS, Deep>>, <<>>)>>,
     <<Named(1, <<FaceS>>, <<>>), Named(2, <<FaceXX, Clean>>, <<>>), Named(3, <<Face>>, <<>>),
       Named(4, <<Clean>>, <<Deep>>), Named(5, <<Clean, DeepS>>, <<>>)>>,
     <<Named(1, <<FaceXX, Clean>>, <<>>), Named(2, <<Clean, Face>>, <<>>),
       Named(3, <<>>, <<>>)>>},
  Queries <- {<<>>} \cup {<<a>> : a \in SpokenWords} \cup (SpokenWords \X SpokenWords)
             \cup (SpokenWords \X SpokenWords \X {Clean, Deep}),
  MaxOptions <- 2

-----------------------------------------------------------------------------

TemplatesRest ==
  /\ listing = <<>> /\ cache = <<>> /\ resolver = <<>> /\ panel = <<>> /\ clock = 0
  /\ outages = 0 /\ revision = 0 /\ forgotten = 0 /\ left = <<>>
ToolsRest ==
  /\ person = <<>> /\ booked = <<>> /\ tool = <<>> /\ notice = {} /\ erasures = 0
  /\ unqueued = 0
NamesRest == catalog = <<>> /\ query = <<>>
BotRests == TemplatesRest /\ ToolsRest /\ NamesRest

PanelRests == SetUpRests /\ ImportRests /\ StoreRests

BotInit ==
  \/ PanelInit /\ BotRests
  \/ /\ ServicesRest /\ MessagesRest /\ ClientsRest /\ WebsiteRests /\ PanelRests
     /\ \/ scenario = "templates" /\ OfPanel!Init /\ ToolsRest /\ NamesRest
        \/ scenario = "latecomers" /\ Latecomers!Init /\ ToolsRest /\ NamesRest
        \/ scenario = "chats" /\ Chats!Init /\ TemplatesRest /\ NamesRest
        \/ scenario = "naming" /\ Naming!Init /\ TemplatesRest /\ ToolsRest

BotNext ==
  \/ PanelNext /\ UNCHANGED botVars
  \/ /\ \/ scenario = "templates" /\ OfPanel!Next /\ UNCHANGED <<toolVars, nameVars>>
        \/ scenario = "latecomers" /\ Latecomers!Next /\ UNCHANGED <<toolVars, nameVars>>
        \/ scenario = "chats" /\ Chats!Next /\ UNCHANGED <<templateVars, nameVars>>
        \/ scenario = "naming" /\ Naming!Next /\ UNCHANGED <<templateVars, toolVars>>
     /\ UNCHANGED <<siteVars, panelVars>>

-----------------------------------------------------------------------------

\* Messages are sent with an id that Conduit has or had a moment ago, and the panel is told
\* what became of its requests.
TemplatesAreTrue ==
  /\ scenario = "templates" =>
       OfPanel!ToldIsTrue /\ OfPanel!KeptIsTrue /\ OfPanel!IdsAreRecent
  /\ scenario = "latecomers" =>
       Latecomers!ToldIsTrue /\ Latecomers!KeptIsTrue /\ Latecomers!IdsAreRecent

\* The bot changes and tells only what is of the client it speaks with, promises a person
\* only when somebody was told, by the inductive invariant Served; and it takes a treatment
\* for the one that is meant.
BotServesItsClient ==
  /\ scenario = "chats" =>
       /\ Chats!Served
       /\ Chats!OnlyHerOwn /\ Chats!ToldOnlyHerOwn /\ Chats!WithheldOnlyOnErasure
       /\ Chats!PromiseIsKept /\ Chats!OneRowPerNumber
  /\ scenario = "naming" =>
       /\ Naming!OwnNameFinds /\ Naming!OrderDoesNotMatter /\ Naming!PrecisionHelps
       /\ Naming!OptionsHaveTheWords

\* The type invariants of the modules.
BotTypes ==
  /\ PanelTypes
  /\ scenario = "templates" => OfPanel!TypeOK
  /\ scenario = "latecomers" => Latecomers!TypeOK
  /\ scenario = "chats" => Chats!TypeOK
  /\ scenario = "naming" => Naming!TypeOK

-----------------------------------------------------------------------------
(* The guards and the audit log *)

VARIABLES
  changedBy, journal, audited, changeLog, lapses,
  hits, memory, breaker, caller, silences, resent

auditVars == <<changedBy, journal, audited, changeLog, lapses>>
limitVars == <<hits, memory, breaker, caller, silences, resent>>
requestVars == <<auditVars, limitVars>>

-----------------------------------------------------------------------------
(* Instances *)

Route(method, path) == [method |-> method, path |-> path]

\* Two requests, of every kind that a rule knows and of two that none does; a combo of two
\* appointments moves together.
Log == INSTANCE Audit WITH
  Requests <- {1, 2},
  Routes <-
    {Route("POST", <<"clients">>), Route("POST", <<"clients", "resolve">>),
     Route("PATCH", <<"clients", "{id}">>), Route("PUT", <<"clients", "{id}", "hair-profile">>),
     Route("POST", <<"clients", "{id}", "hair-profile", "confirm">>),
     Route("POST", <<"clients", "{id}", "consents">>),
     Route("POST", <<"clients", "{id}", "anonymize">>),
     Route("POST", <<"reservations">>), Route("PATCH", <<"reservations", "{id}", "cancel">>),
     Route("POST", <<"treatments">>), Route("PATCH", <<"treatments", "{id}">>),
     Route("PATCH", <<"treatments", "{id}", "hair-length-pricing">>),
     Route("PATCH", <<"capacity-pools", "{id}">>)},
  OwnRows <- (1 :> "clients") @@ (2 :> "reservations") @@ (3 :> "treatments")
             @@ (6 :> "reservations") @@ (7 :> "capacity-pools"),
  NewRows <- {4, 5}, Groups <- {{2, 6}}, MaxLapses <- 2,
  row <- changedBy, entries <- journal, request <- audited, history <- changeLog

Unlimited ==
  [name \in {"default", "availability", "reservations", "client-booking", "webhooks"} |-> 9]
ToCreate ==
  [public |-> TRUE, skipsCsrf |-> TRUE, safe |-> FALSE, creates |-> TRUE,
   path |-> {"reservations"}, limit |-> ("client-booking" :> 1) @@ ("reservations" :> 2) @@ Unlimited]
ToSeeSlots ==
  [public |-> TRUE, skipsCsrf |-> FALSE, safe |-> TRUE, creates |-> FALSE,
   path |-> {"reservations", "availability"}, limit |-> ("availability" :> 1) @@ Unlimited]
ToRevive ==
  [public |-> FALSE, skipsCsrf |-> FALSE, safe |-> FALSE, creates |-> FALSE,
   path |-> {"reservations"}, limit |-> ("reservations" :> 1) @@ Unlimited]

Asking(name, ip, phone, session, csrf, apiKey) ==
  [handler |-> name, ip |-> ip, phone |-> phone, session |-> session, csrf |-> csrf,
   apiKey |-> apiKey]
ToBook(ip, phone) == Asking("create", ip, phone, "none", FALSE, "none")

\* Three bookings for one number, written in two ways, from two origins.
OneNumber == INSTANCE RateLimits WITH
  Requests <- {1, 2, 3}, Processes <- {1}, Handlers <- ("create" :> ToCreate),
  Asked <- {ToBook("i", "a"), ToBook("j", "+a")}, NumberOf <- ("a" :> "a") @@ ("+a" :> "a"),
  NoPhone <- "none", BeforeOpen <- 1, MaxTroubles <- 1, troubles <- silences

\* Two requests of any kind: without a session or a token, with those of an administrator,
\* an old session, the key of Conduit or another.
TwoProcesses == INSTANCE RateLimits WITH
  Requests <- {1, 2}, Processes <- {1, 2},
  Handlers <- ("create" :> ToCreate) @@ ("slots" :> ToSeeSlots) @@ ("revive" :> ToRevive),
  Asked <-
    {ToBook("i", "a"), ToBook("j", "+a"), ToBook("i", "none"),
     Asking("create", "i", "b", "stale", FALSE, "wrong"),
     Asking("create", "i", "a", "none", FALSE, "right"),
     Asking("slots", "i", "none", "none", FALSE, "none"),
     Asking("revive", "i", "none", "valid", TRUE, "none"),
     Asking("revive", "i", "none", "none", FALSE, "none"),
     Asking("revive", "i", "none", "valid", FALSE, "none")},
  NumberOf <- ("a" :> "a") @@ ("+a" :> "a") @@ ("b" :> "b"),
  NoPhone <- "none", BeforeOpen <- 2, MaxTroubles <- 2, troubles <- silences

-----------------------------------------------------------------------------
(* Transactions *)

VARIABLES slot, base, exceptions, dayLock, baseLock, step, task

slotVars == <<slot, base, exceptions, dayLock, baseLock, step, task>>

Hours(a, b) == [from |-> a, to |-> b]

\* Appointments of two clients are booked, moved, cancelled and revived while the weekly
\* schedule is replaced.
Slots == INSTANCE SlotHolding WITH
  Reservations <- {a1, b1}, Procs <- {q1, q2}, Categories <- {1, 2},
  Bookings <- {<<a1>>, <<b1>>},
  ClientOf <- (a1 :> "ana") @@ (b1 :> "bea"), CategoryOf <- (a1 :> 1) @@ (b1 :> 1),
  Duration <- (a1 :> 1) @@ (b1 :> 1), Capacity <- <<1, 1>>,
  Days <- {0}, DayLength <- 6, BaseSchedules <- {{Hours(1, 5)}, {Hours(3, 5)}},
  Closures <- {}, Asked <- {1, 3}, Elsewhere <- {"CANCELADA"},
  Offered <- {"book", "reschedule", "revive", "updateBase"},
  AnyCategory <- 0, Step <- 1, NoSlot <- None,
  reservation <- slot, lock <- dayLock, pc <- step

SlotsRest ==
  /\ slot = <<>> /\ base = {} /\ exceptions = {} /\ dayLock = <<>> /\ baseLock = None
  /\ step = <<>> /\ task = <<>>

-----------------------------------------------------------------------------

AuditRests ==
  /\ changedBy = <<>> /\ journal = <<>> /\ audited = <<>> /\ changeLog = <<>> /\ lapses = 0
LimitsRest ==
  /\ hits = <<>> /\ memory = <<>> /\ breaker = <<>> /\ caller = <<>> /\ silences = 0
  /\ resent = <<>>

ServiceRest ==
  /\ ServicesRest /\ MessagesRest /\ ClientsRest /\ WebsiteRests /\ PanelRests /\ BotRests

Init ==
  /\ SlotsRest
  /\ \/ BotInit /\ AuditRests /\ LimitsRest
     \/ /\ ServiceRest
        /\ \/ scenario = "audit" /\ Log!Init /\ LimitsRest
           \/ scenario = "number" /\ OneNumber!Init /\ AuditRests
           \/ scenario = "guards" /\ TwoProcesses!Init /\ AuditRests

Next ==
  /\ \/ BotNext /\ UNCHANGED requestVars
     \/ /\ \/ scenario = "audit" /\ Log!Next /\ UNCHANGED limitVars
           \/ scenario = "number" /\ OneNumber!Next /\ UNCHANGED auditVars
           \/ scenario = "guards" /\ TwoProcesses!Next /\ UNCHANGED auditVars
        /\ UNCHANGED <<siteVars, panelVars, botVars>>
  /\ UNCHANGED slotVars

allVars == <<siteVars, panelVars, botVars, requestVars, slotVars>>

Spec == Init /\ [][Next]_allVars

-----------------------------------------------------------------------------


\* What is planned or sent keeps its limits (MessageLimits), and so do the requests that
\* are served, also while Redis does not answer; whoever is refused came after as many
\* others that the guards had let through.
LimitsHold ==
  /\ MessageLimits
  /\ scenario = "number" => OneNumber!ServedWithinLimits /\ OneNumber!RefusedForOthers
  /\ scenario = "guards" => TwoProcesses!ServedWithinLimits /\ TwoProcesses!RefusedForOthers

\* The type invariants of the modules.
TypesOK ==
  /\ BotTypes
  /\ scenario = "audit" => Log!TypeOK
  /\ scenario = "number" => OneNumber!TypeOK
  /\ scenario = "guards" => TwoProcesses!TypeOK

-----------------------------------------------------------------------------
(* What has to come to an end *)

\* The instances in which something must come to an end.
Driven ==
  {"punctual", "takeover", "outbox", "managed", "twofold", "faulty", "plan", "reminder",
   "visit", "lapse", "combined", "sweeps", "tags", "catalogue", "testimonials"}

ProgressInit ==
  /\ AuditRests /\ LimitsRest
  /\ \/ BotInit /\ scenario \in Driven /\ SlotsRest
     \/ scenario = "slots" /\ Slots!Init /\ ServiceRest

ProgressNext ==
  /\ \/ BotNext /\ UNCHANGED slotVars
     \/ scenario = "slots" /\ Slots!Next /\ UNCHANGED <<siteVars, panelVars, botVars>>
  /\ UNCHANGED requestVars

\* What processes, timers, schedulers and transactions owe (see OutboundFairness and the
\* others); the database grants locks in the order of arrival.
ProgressSpec ==
  /\ ProgressInit /\ [][ProgressNext]_allVars
  /\ OutboundFairness /\ OfficeFairness /\ MessagesFairness
  /\ ClientsFairness /\ WebsiteFairness
  /\ \A q \in {q1, q2} : SF_slotVars(scenario = "slots" /\ Slots!Work(q))

\* What was begun comes to an end: uploads, events, campaigns, requests and plans, jobs and
\* notices, sweeps and tags (OutboundSettled, ServicesSettled, MessagesSettled,
\* ClientsSettled); caches follow the catalogue and administrators do not wait for each
\* other (SiteSettled); and no transaction waits for a lock for ever, however bookings,
\* moves, revivals and a new weekly schedule cross (TransactionsEnd, of either handler).
EverythingSettles == []<>(SiteSettled /\ (scenario = "slots" => step[q1] = "idle"))
=============================================================================
