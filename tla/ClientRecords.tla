----------------------------- MODULE ClientRecords -----------------------------
(***************************************************************************)
(* The packages a studio offers, the cached list of them, and one client.  *)
(* Edits load a row and save the entity: every column in which the copy    *)
(* differs from the row by then is written, and a row that is gone is      *)
(* inserted again.  What changed goes to the outbox in the transaction of  *)
(* the save; the cached list is dropped some awaits later, by the request  *)
(* and, after a change of price, by an in-process handler too.             *)
(***************************************************************************)
EXTENDS Naturals, FiniteSets

CONSTANTS Offers,         \* packages
          Prices,         \* what a package may cost
          RecordRequests,
          RecordPlots     \* [kinds, offered, booked, faults]

ASSUME RecordAssumption ==
  /\ 0 \notin Prices /\ Prices # {} /\ Offers # {}
  /\ IsFiniteSet(RecordRequests)
  /\ RecordPlots \subseteq [kinds : SUBSET STRING, offered : SUBSET Offers, booked : SUBSET Offers, faults : Nat]

VARIABLES offers,    \* package -> its row; price 0: there is none
          offerList, \* the cached list: [is, rows, raced]
          client,    \* the client's row: [email, tags]
          toldOf,    \* what the outbox events so far say of packages and client
          recordOp,  \* request -> [kind, at, offer, copy, raced]
          handlers,  \* in-process handlers of price changes that have yet to run
          recordPlot,
          oldCopies, \* history: rows saved from a copy that was not the row any more
          strayed    \* history: since the list was dropped a change was committed
                     \* that nothing will drop it for

recordVars == <<offers, offerList, client, toldOf, recordOp, handlers, recordPlot, oldCopies, strayed>>

NoOffer == [price |-> 0, active |-> FALSE]
NoList == [is |-> FALSE, rows |-> [o \in Offers |-> NoOffer], raced |-> FALSE]
FirstPrice == CHOOSE p \in Prices : TRUE
NewClient == [email |-> 0, tags |-> 0]
OpNew == [kind |-> "none", at |-> "new", offer |-> CHOOSE o \in Offers : TRUE, copy |-> NoOffer, raced |-> FALSE]

RecordInit ==
  \E plot \in RecordPlots :
    /\ recordPlot = plot
    /\ offers = [o \in Offers |-> IF o \in plot.offered THEN [price |-> FirstPrice, active |-> TRUE] ELSE NoOffer]
    /\ offerList = NoList
    /\ client = NewClient
    /\ toldOf = [prices |-> [o \in Offers |-> 0], client |-> NewClient]
    /\ recordOp = [r \in RecordRequests |-> OpNew]
    /\ handlers = 0
    /\ oldCopies = {}
    /\ strayed = FALSE

Idle(r, kind) == recordOp[r].at = "new" /\ kind \in recordPlot.kinds
RecordOpGoes(r, kind, at, o, copy) ==
  recordOp' = [recordOp EXCEPT ![r] = [kind |-> kind, at |-> at, offer |-> o, copy |-> copy, raced |-> FALSE]]
After(r, at) == recordOp' = [recordOp EXCEPT ![r].at = at]
Loaded(r, kinds) == recordOp[r].at = "loaded" /\ recordOp[r].kind \in kinds
Exists(o) == offers[o].price # 0
\* Every package that is created gets an id of its own.
NewId(o) ==
  /\ o \notin recordPlot.offered
  /\ \A q \in RecordRequests : recordOp[q].kind = "create" => recordOp[q].offer # o
CopyIsOld(who, row, copy) == oldCopies' = IF row = copy THEN oldCopies ELSE oldCopies \cup {who}
----------------------------------------------------------------------------
\* findAllPackages: the cached list, or the rows, which it then caches.
ListPackages(r) ==
  /\ Idle(r, "list")
  /\ RecordOpGoes(r, "list", IF offerList.is THEN "ended" ELSE "loaded", OpNew.offer, offers)
  /\ UNCHANGED <<offers, offerList, client, toldOf, handlers, recordPlot, oldCopies, strayed>>

CacheList(r) ==
  /\ Loaded(r, {"list"})
  /\ offerList' = [is |-> TRUE, rows |-> recordOp[r].copy, raced |-> recordOp[r].raced]
  /\ After(r, "ended")
  /\ UNCHANGED <<offers, client, toldOf, handlers, recordPlot, oldCopies, strayed>>

\* The hour of PACKAGES_CACHE_TTL ends.
ListExpires ==
  /\ offerList.is
  /\ offerList' = NoList
  /\ UNCHANGED <<offers, client, toldOf, recordOp, handlers, recordPlot, oldCopies, strayed>>

\* updatePackage and clonePackage begin with findPackageById, deletePackage too.
LoadOffer(r, o) ==
  /\ Exists(o)
  /\ \E kind \in {"reprice", "activate", "clone", "remove"} :
       Idle(r, kind) /\ RecordOpGoes(r, kind, "loaded", o, offers[o])
  /\ UNCHANGED <<offers, offerList, client, toldOf, handlers, recordPlot, oldCopies, strayed>>

\* A price is told whenever the request names one: the column is a decimal,
\* which the driver reads as a string, and is never identical to a number.
Reprice(r, price) ==
  /\ Loaded(r, {"reprice"})
  /\ LET o == recordOp[r].offer
     IN /\ offers' = [offers EXCEPT ![o] = [recordOp[r].copy EXCEPT !.price = price]]
        /\ toldOf' = [toldOf EXCEPT !.prices[o] = price]
        /\ CopyIsOld(o, offers[o], recordOp[r].copy)
  /\ handlers' = IF price = recordOp[r].copy.price THEN handlers ELSE handlers + 1
  /\ After(r, "forget")
  /\ UNCHANGED <<offerList, client, recordPlot, strayed>>

Activate(r) ==
  /\ Loaded(r, {"activate"})
  /\ LET o == recordOp[r].offer
     IN /\ offers' = [offers EXCEPT ![o] = [recordOp[r].copy EXCEPT !.active = ~@]]
        /\ CopyIsOld(o, offers[o], recordOp[r].copy)
  /\ After(r, "forget")
  /\ UNCHANGED <<offerList, client, toldOf, handlers, recordPlot, strayed>>

\* createPackage, and clonePackage from the copy it loaded.
CreatePackage(r, o, price) ==
  /\ NewId(o)
  /\ \/ Idle(r, "create")
     \/ Loaded(r, {"clone"})
  /\ offers' = [offers EXCEPT ![o] = [price |-> price, active |-> TRUE]]
  /\ RecordOpGoes(r, "create", "forget", o, NoOffer)
  /\ UNCHANGED <<offerList, client, toldOf, handlers, recordPlot, oldCopies, strayed>>

\* Mutation: deletePackage leaves the list as it is.
ForgetsAfterRemovalNot == "ended"

ForgetsAfterRemoval == "forget"

\* The foreign key of bookings keeps a package that is booked: package_in_use.
RemovePackage(r) ==
  /\ Loaded(r, {"remove"})
  /\ IF recordOp[r].offer \in recordPlot.booked
     THEN After(r, "ended") /\ UNCHANGED offers
     ELSE After(r, ForgetsAfterRemoval) /\ offers' = [offers EXCEPT ![recordOp[r].offer] = NoOffer]
  /\ UNCHANGED <<offerList, client, toldOf, handlers, recordPlot, oldCopies, strayed>>

\* A reader that has its rows and has not cached them yet misses this.
Dropped(ops) ==
  /\ offerList' = NoList
  /\ strayed' = FALSE
  /\ recordOp' = [q \in RecordRequests |->
       IF ops[q].kind = "list" /\ ops[q].at = "loaded" THEN [ops[q] EXCEPT !.raced = TRUE] ELSE ops[q]]

ForgetList(r) ==
  /\ recordOp[r].at = "forget"
  /\ Dropped([recordOp EXCEPT ![r].at = "ended"])
  /\ UNCHANGED <<offers, client, toldOf, handlers, recordPlot, oldCopies>>

HandlePriceChange ==
  /\ handlers > 0
  /\ handlers' = handlers - 1
  /\ Dropped(recordOp)
  /\ UNCHANGED <<offers, client, toldOf, recordPlot, oldCopies>>

\* The audit entry, which is written in between, fails and the request is over,
\* or the process ends and takes its handlers with it.
EndsUnforgotten(r) ==
  /\ recordOp[r].at = "forget"
  /\ recordPlot.faults > 0
  /\ recordPlot' = [recordPlot EXCEPT !.faults = @ - 1]
  /\ After(r, "ended")
  /\ handlers' \in {handlers, 0}
  /\ strayed' = (strayed \/ handlers' = 0)
  /\ UNCHANGED <<offers, offerList, client, toldOf, oldCopies>>
----------------------------------------------------------------------------
LoadClient(r) ==
  /\ \E kind \in {"edit", "tag"} : Idle(r, kind) /\ RecordOpGoes(r, kind, "loaded", OpNew.offer, client)
  /\ UNCHANGED <<offers, offerList, client, toldOf, handlers, recordPlot, oldCopies, strayed>>

\* The changes of ClientUpdatedEvent: the columns the request set to something else.
Announced(known, copy, edited) ==
  [email |-> IF edited.email # copy.email THEN edited.email ELSE known.email,
   tags  |-> IF edited.tags # copy.tags THEN edited.tags ELSE known.tags]

SaveClient(r, edited) ==
  /\ client' = edited
  /\ CopyIsOld("client", client, recordOp[r].copy)
  /\ After(r, "ended")
  /\ UNCHANGED <<offers, offerList, handlers, recordPlot, strayed>>

EditClient(r, edited) ==
  /\ Loaded(r, {"edit"})
  /\ SaveClient(r, edited)
  /\ toldOf' = [toldOf EXCEPT !.client = Announced(toldOf.client, recordOp[r].copy, edited)]

\* updateTags saves and tells nobody.
TagClient(r, tags) ==
  /\ Loaded(r, {"tag"})
  /\ SaveClient(r, [recordOp[r].copy EXCEPT !.tags = tags])
  /\ UNCHANGED toldOf

\* delete: the entity has no delete column, so that softRemove throws and the
\* transaction with the event is rolled back.
DeleteClient(r) ==
  /\ Idle(r, "delete")
  /\ RecordOpGoes(r, "delete", "ended", OpNew.offer, NoOffer)
  /\ UNCHANGED <<offers, offerList, client, toldOf, handlers, recordPlot, oldCopies, strayed>>

RecordNext ==
  \/ ListExpires \/ HandlePriceChange
  \/ \E r \in RecordRequests :
       \/ ListPackages(r) \/ CacheList(r) \/ Activate(r) \/ RemovePackage(r) \/ ForgetList(r)
       \/ EndsUnforgotten(r) \/ LoadClient(r) \/ DeleteClient(r)
       \/ \E o \in Offers : LoadOffer(r, o) \/ \E price \in Prices : CreatePackage(r, o, price)
       \/ \E price \in Prices : Reprice(r, price)
       \/ \E email, tags \in 0..1 : EditClient(r, [email |-> email, tags |-> tags])
       \/ \E tags \in 0..1 : TagClient(r, tags)

RecordSpec == RecordInit /\ [][RecordNext]_recordVars
----------------------------------------------------------------------------
RecordTypeOK ==
  /\ offers \in [Offers -> [price : Prices \cup {0}, active : BOOLEAN]]
  /\ client \in [email : 0..1, tags : 0..1]
  /\ \A r \in RecordRequests : recordOp[r].at \in {"new", "loaded", "forget", "ended"}
  /\ handlers \in 0..Cardinality(RecordRequests)
  /\ oldCopies \subseteq Offers \cup {"client"}

(* The cached list is the packages as they are, unless a change has yet to  *)
(* drop it, its reader missed a drop between its query and its write, or    *)
(* nothing was left to drop it: its request ended before it did, and no     *)
(* handler of a new price was under way.                                    *)
OffersListIsCurrent ==
  offerList.is /\ ~offerList.raced /\ ~strayed /\ handlers = 0
    /\ (\A r \in RecordRequests : recordOp[r].at # "forget")
      => offerList.rows = offers

(* Who applies the outbox events in order knows the last price named of a   *)
(* package and the client's e-mail address, and the tags too if nobody used *)
(* updateTags, unless a row was saved from an old copy.                     *)
EventsTellTheRows ==
  /\ \A o \in Offers \ oldCopies :
       Exists(o) /\ toldOf.prices[o] # 0 => toldOf.prices[o] = offers[o].price
  /\ "client" \notin oldCopies =>
       /\ toldOf.client.email = client.email
       /\ "tag" \notin recordPlot.kinds => toldOf.client.tags = client.tags
==============================================================================
