--------------------------- MODULE BackOfficeProofs ---------------------------
(***************************************************************************)
(* Theorems about the records of clients and packages and about the        *)
(* tenant, for every value of their constants.  At the end: what is proved *)
(* of ten of the eleven subsystems, here, in SubsystemProofs and in        *)
(* AuthSessionsProofs, holds where MCBackOffice puts them side by side.    *)
(***************************************************************************)
EXTENDS MCBackOffice, AuthSessionsProofs, SubsystemProofs
------------------------------------------------------------------------------
(* Packages and one client.  Whoever reads the packages to cache them has  *)
(* them as they are, unless a change has yet to drop the list; events tell *)
(* of a package what its row says; an id that was never given has neither  *)
(* a row nor events; and every handler under way has its own request.      *)
OfferRows == [price : Prices \cup {0}, active : BOOLEAN]
ClientRows == [email : 0..1, tags : 0..1]
RowKinds == {"reprice", "activate", "clone", "remove"}
Copies == OfferRows \cup [Offers -> OfferRows] \cup ClientRows
RecordKinds == {"none", "list", "reprice", "activate", "clone", "remove", "create", "edit", "tag", "delete"}
RecordOps ==
  [kind : RecordKinds, at : {"new", "loaded", "forget", "ended"}, offer : Offers, copy : Copies, raced : BOOLEAN]

RecordsTyped ==
  /\ offers \in [Offers -> OfferRows] /\ client \in ClientRows
  /\ toldOf \in [prices : [Offers -> Prices \cup {0}], client : ClientRows]
  /\ recordOp \in [RecordRequests -> RecordOps]
  /\ recordPlot \in [kinds : SUBSET STRING, offered : SUBSET Offers, booked : SUBSET Offers, faults : Nat]
  /\ oldCopies \subseteq Offers \cup {"client"} /\ strayed \in BOOLEAN

CopyFits(op) ==
  /\ op.at = "loaded" /\ op.kind \in RowKinds => op.copy \in OfferRows /\ op.copy.price # 0
  /\ op.at = "loaded" /\ op.kind \in {"edit", "tag"} => op.copy \in ClientRows
  /\ op.at = "loaded" /\ op.kind = "tag" => "tag" \in recordPlot.kinds
  /\ op.kind = "create" => op.at \in {"forget", "ended"}

CopiesFit ==
  \A r \in RecordRequests : CopyFits(recordOp[r]) /\ (Loaded(r, RowKinds) => ~NewId(recordOp[r].offer))

Repricers == {r \in RecordRequests : recordOp[r].kind = "reprice" /\ recordOp[r].at \in {"forget", "ended"}}
HandlersHaveRequests == handlers \in Nat /\ handlers <= Cardinality(Repricers)

NothingToDrop == ~strayed /\ handlers = 0 /\ \A r \in RecordRequests : recordOp[r].at # "forget"
ReadersAreCurrent ==
  NothingToDrop => \A r \in RecordRequests : Loaded(r, {"list"}) /\ ~recordOp[r].raced => recordOp[r].copy = offers

NewIdsAreUnknown == \A o \in Offers : NewId(o) => ~Exists(o) /\ toldOf.prices[o] = 0

RecordInv ==
  /\ RecordsTyped /\ CopiesFit /\ HandlersHaveRequests
  /\ ReadersAreCurrent /\ OffersListIsCurrent
  /\ NewIdsAreUnknown /\ EventsTellTheRows

LEMMA RecordInvSuffices == RecordInv => RecordTypeOK
<1> SUFFICES ASSUME RecordInv PROVE RecordTypeOK
  OBVIOUS
<1>1. Repricers \subseteq RecordRequests /\ IsFiniteSet(RecordRequests)
  BY RecordAssumption DEF Repricers
<1>2. Cardinality(Repricers) <= Cardinality(RecordRequests) /\ Cardinality(RecordRequests) \in Nat
        /\ Cardinality(Repricers) \in Nat
  BY <1>1, FS_Subset, FS_CardinalityType
<1>3. handlers \in 0..Cardinality(RecordRequests)
  BY <1>2 DEF RecordInv, HandlersHaveRequests
<1>4. \A r \in RecordRequests : recordOp[r].at \in {"new", "loaded", "forget", "ended"}
  BY DEF RecordInv, RecordsTyped, RecordOps
<1> QED BY <1>3, <1>4 DEF RecordTypeOK, RecordInv, RecordsTyped, OfferRows, ClientRows

\* What a request loads is a state of its own, typed like the rows.
LEMMA OpTyped ==
  ASSUME NEW kind \in RecordKinds, NEW at \in {"new", "loaded", "forget", "ended"}, NEW o \in Offers,
         NEW copy \in Copies, NEW raced \in BOOLEAN
  PROVE  [kind |-> kind, at |-> at, offer |-> o, copy |-> copy, raced |-> raced] \in RecordOps
BY DEF RecordOps

LEMMA OpNewTyped == OpNew \in RecordOps /\ NoOffer \in OfferRows /\ NewClient \in ClientRows
<1>1. (CHOOSE o \in Offers : TRUE) \in Offers
  BY RecordAssumption
<1>2. NoOffer \in OfferRows
  BY DEF NoOffer, OfferRows
<1>3. NewClient \in ClientRows
  BY DEF NewClient, ClientRows
<1>4. NoOffer \in Copies
  BY <1>2 DEF Copies
<1>5. OpNew \in RecordOps
  BY <1>1, <1>4, OpTyped DEF OpNew, RecordKinds
<1> QED BY <1>2, <1>3, <1>5

LEMMA RecordInitially == RecordInit => RecordInv
<1> SUFFICES ASSUME RecordInit PROVE RecordInv
  OBVIOUS
<1>1. PICK plot \in RecordPlots : 
        /\ recordPlot = plot
        /\ offers = [o \in Offers |-> IF o \in plot.offered THEN [price |-> FirstPrice, active |-> TRUE] ELSE NoOffer]
        /\ offerList = NoList
        /\ client = NewClient
        /\ toldOf = [prices |-> [o \in Offers |-> 0], client |-> NewClient]
        /\ recordOp = [r \in RecordRequests |-> OpNew]
        /\ handlers = 0
        /\ oldCopies = {}
        /\ strayed = FALSE
  BY DEF RecordInit
<1>2. [price |-> FirstPrice, active |-> TRUE] \in OfferRows
  BY RecordAssumption DEF OfferRows, FirstPrice
<1>3. RecordsTyped
  <2>1. offers \in [Offers -> OfferRows]
    BY <1>1, <1>2, OpNewTyped
  <2>2. toldOf \in [prices : [Offers -> Prices \cup {0}], client : ClientRows]
    BY <1>1, OpNewTyped
  <2>3. recordOp \in [RecordRequests -> RecordOps]
    BY <1>1, OpNewTyped
  <2> QED BY <1>1, <2>1, <2>2, <2>3, RecordAssumption, OpNewTyped DEF RecordsTyped
<1>4. \A r \in RecordRequests : recordOp[r].at = "new" /\ recordOp[r].kind = "none"
  BY <1>1 DEF OpNew
<1>5. CopiesFit
  BY <1>4 DEF CopiesFit, CopyFits, Loaded
<1>6. HandlersHaveRequests
  BY <1>1, FS_CardinalityType, FS_Subset, RecordAssumption DEF HandlersHaveRequests, Repricers
<1>7. ReadersAreCurrent
  BY <1>4 DEF ReadersAreCurrent, Loaded
<1>8. OffersListIsCurrent
  BY <1>1 DEF OffersListIsCurrent, NoList
<1>9. NewIdsAreUnknown
  BY <1>1 DEF NewIdsAreUnknown, NewId, Exists, NoOffer
<1>10. EventsTellTheRows
  BY <1>1 DEF EventsTellTheRows
<1> QED BY <1>3, <1>5, <1>6, <1>7, <1>8, <1>9, <1>10 DEF RecordInv
----------------------------------------------------------------------------
\* A request goes on: what it holds fits, and it keeps the id it was given.
LEMMA CopiesStayFit ==
  ASSUME RecordsTyped, CopiesFit, NEW r \in RecordRequests, NEW op \in RecordOps,
         recordOp' = [recordOp EXCEPT ![r] = op], recordPlot'.kinds = recordPlot.kinds,
         recordPlot'.offered = recordPlot.offered, CopyFits(op),
         op.at = "loaded" /\ op.kind \in RowKinds => ~NewId(op.offer),
         recordOp[r].kind = "create" => op.kind = "create" /\ op.offer = recordOp[r].offer
  PROVE  CopiesFit' /\ \A o : NewId(o)' => NewId(o)
<1>1. \A q \in RecordRequests : recordOp'[q] = IF q = r THEN op ELSE recordOp[q]
  BY DEF RecordsTyped
<1>2. ASSUME NEW o, NewId(o)' PROVE NewId(o)
  BY <1>1, <1>2 DEF NewId
<1>3. CopiesFit'
  BY <1>1, <1>2 DEF CopiesFit, CopyFits, Loaded
<1> QED BY <1>2, <1>3

LEMMA HandlersKeepRequests ==
  ASSUME HandlersHaveRequests, handlers' \in Nat, handlers' <= handlers, Repricers \subseteq Repricers'
  PROVE  HandlersHaveRequests'
<1>1. Repricers \subseteq RecordRequests /\ Repricers' \subseteq RecordRequests /\ IsFiniteSet(RecordRequests)
  BY RecordAssumption DEF Repricers
<1>2. IsFiniteSet(Repricers')
  BY <1>1, FS_Subset
<1>3. /\ Cardinality(Repricers) <= Cardinality(Repricers')
      /\ Cardinality(Repricers) \in Nat /\ Cardinality(Repricers') \in Nat
  BY <1>1, <1>2, FS_Subset, FS_CardinalityType
<1> QED BY <1>3 DEF HandlersHaveRequests

\* A request that changes nothing but what it is doing, and changed nothing before.
LEMMA OnlyTheRequest ==
  ASSUME RecordInv, NEW r \in RecordRequests, NEW op \in RecordOps,
         recordOp' = [recordOp EXCEPT ![r] = op], recordOp[r].at \in {"new", "loaded"},
         UNCHANGED <<offers, offerList, client, toldOf, handlers, recordPlot, oldCopies, strayed>>,
         CopyFits(op), op.at = "loaded" /\ op.kind \in RowKinds => ~NewId(op.offer),
         op.at \in {"loaded", "ended"}, op.at = "loaded" /\ op.kind = "list" => op.copy = offers
  PROVE  RecordInv'
<1> USE DEF RecordInv
<1>1. \A q \in RecordRequests : recordOp'[q] = IF q = r THEN op ELSE recordOp[q]
  BY DEF RecordsTyped
<1>2. recordOp[r].kind # "create"
  BY DEF CopiesFit, CopyFits
<1>3. CopiesFit' /\ \A o : NewId(o)' => NewId(o)
  BY <1>2, CopiesStayFit
<1>4. RecordsTyped'
  BY DEF RecordsTyped
<1>5. HandlersHaveRequests'
  <2>1. Repricers \subseteq Repricers'
    BY <1>1 DEF Repricers
  <2>2. handlers' \in Nat /\ handlers' <= handlers
    BY DEF HandlersHaveRequests
  <2> QED BY <2>1, <2>2, HandlersKeepRequests
<1>6. NothingToDrop' => NothingToDrop
  BY <1>1 DEF NothingToDrop
<1>7. ReadersAreCurrent'
  BY <1>1, <1>6 DEF ReadersAreCurrent, Loaded
<1>8. OffersListIsCurrent'
  BY <1>6 DEF OffersListIsCurrent, NothingToDrop
<1>9. NewIdsAreUnknown'
  BY <1>3 DEF NewIdsAreUnknown, Exists
<1>10. EventsTellTheRows'
  BY DEF EventsTellTheRows, Exists
<1> QED BY <1>3, <1>4, <1>5, <1>7, <1>8, <1>9, <1>10

LEMMA ListPackagesStep == ASSUME RecordInv, NEW r \in RecordRequests, ListPackages(r) PROVE RecordInv'
<1> DEFINE at == IF offerList.is THEN "ended" ELSE "loaded"
           op == [kind |-> "list", at |-> at, offer |-> OpNew.offer, copy |-> offers, raced |-> FALSE]
<1>1. OpNew.offer \in Offers /\ offers \in Copies
  BY OpNewTyped DEF RecordOps, RecordInv, RecordsTyped, Copies
<1>2. op \in RecordOps
  BY <1>1, OpTyped DEF RecordKinds
<1>3. recordOp' = [recordOp EXCEPT ![r] = op] /\ recordOp[r].at = "new"
  BY DEF ListPackages, RecordOpGoes, Idle
<1>4. UNCHANGED <<offers, offerList, client, toldOf, handlers, recordPlot, oldCopies, strayed>>
  BY DEF ListPackages
<1>5. op.kind = "list" /\ op.copy = offers /\ op.at \in {"loaded", "ended"}
  OBVIOUS
<1>6. PICK new \in RecordOps : new = op
  BY <1>2
<1> HIDE DEF op
<1> QED BY <1>3, <1>4, <1>5, <1>6, OnlyTheRequest DEF CopyFits, RowKinds

LEMMA LoadOfferStep ==
  ASSUME RecordInv, NEW r \in RecordRequests, NEW o \in Offers, LoadOffer(r, o) PROVE RecordInv'
<1>1. PICK kind \in RowKinds : Idle(r, kind) /\ RecordOpGoes(r, kind, "loaded", o, offers[o])
  BY DEF LoadOffer, RowKinds
<1> DEFINE op == [kind |-> kind, at |-> "loaded", offer |-> o, copy |-> offers[o], raced |-> FALSE]
<1>2. offers[o] \in OfferRows /\ offers[o].price # 0 /\ ~NewId(o)
  BY DEF RecordInv, RecordsTyped, LoadOffer, Exists, NewIdsAreUnknown
<1>3. op \in RecordOps
  <2>1. offers[o] \in Copies /\ kind \in RecordKinds
    BY <1>2 DEF Copies, RowKinds, RecordKinds
  <2> QED BY <2>1, OpTyped
<1>4. recordOp' = [recordOp EXCEPT ![r] = op] /\ recordOp[r].at = "new"
  BY <1>1 DEF RecordOpGoes, Idle
<1>5. UNCHANGED <<offers, offerList, client, toldOf, handlers, recordPlot, oldCopies, strayed>>
  BY DEF LoadOffer
<1>6. CopyFits(op) /\ ~NewId(op.offer) /\ op.at = "loaded" /\ op.kind # "list"
  BY <1>2 DEF CopyFits, RowKinds
<1>7. PICK new \in RecordOps : new = op
  BY <1>3
<1> HIDE DEF op
<1> QED BY <1>4, <1>5, <1>6, <1>7, OnlyTheRequest

LEMMA LoadClientStep == ASSUME RecordInv, NEW r \in RecordRequests, LoadClient(r) PROVE RecordInv'
<1>1. PICK kind \in {"edit", "tag"} : Idle(r, kind) /\ RecordOpGoes(r, kind, "loaded", OpNew.offer, client)
  BY DEF LoadClient
<1> DEFINE op == [kind |-> kind, at |-> "loaded", offer |-> OpNew.offer, copy |-> client, raced |-> FALSE]
<1>2. OpNew.offer \in Offers /\ client \in ClientRows /\ kind \in recordPlot.kinds
  BY <1>1, OpNewTyped DEF RecordOps, RecordInv, RecordsTyped, Idle
<1>3. op \in RecordOps
  <2>1. client \in Copies /\ kind \in RecordKinds
    BY <1>2 DEF Copies, RecordKinds
  <2> QED BY <1>2, <2>1, OpTyped
<1>4. recordOp' = [recordOp EXCEPT ![r] = op] /\ recordOp[r].at = "new"
  BY <1>1 DEF RecordOpGoes, Idle
<1>5. UNCHANGED <<offers, offerList, client, toldOf, handlers, recordPlot, oldCopies, strayed>>
  BY DEF LoadClient
<1>6. CopyFits(op) /\ op.kind \notin RowKinds /\ op.at = "loaded" /\ op.kind # "list"
  BY <1>2 DEF CopyFits, RowKinds
<1>7. PICK new \in RecordOps : new = op
  BY <1>3
<1> HIDE DEF op
<1> QED BY <1>4, <1>5, <1>6, <1>7, OnlyTheRequest

LEMMA DeleteClientStep == ASSUME RecordInv, NEW r \in RecordRequests, DeleteClient(r) PROVE RecordInv'
<1> DEFINE op == [kind |-> "delete", at |-> "ended", offer |-> OpNew.offer, copy |-> NoOffer, raced |-> FALSE]
<1>1. OpNew.offer \in Offers /\ NoOffer \in Copies
  BY OpNewTyped DEF RecordOps, Copies
<1>2. op \in RecordOps
  BY <1>1, OpTyped DEF RecordKinds
<1>3. recordOp' = [recordOp EXCEPT ![r] = op] /\ recordOp[r].at = "new"
  BY DEF DeleteClient, RecordOpGoes, Idle
<1>4. UNCHANGED <<offers, offerList, client, toldOf, handlers, recordPlot, oldCopies, strayed>>
  BY DEF DeleteClient
<1>5. CopyFits(op) /\ op.at = "ended"
  BY DEF CopyFits
<1>6. PICK new \in RecordOps : new = op
  BY <1>2
<1> HIDE DEF op
<1> QED BY <1>3, <1>4, <1>5, <1>6, OnlyTheRequest

\* A request that goes on with what it holds.
LEMMA AfterGoes ==
  ASSUME RecordsTyped, NEW r \in RecordRequests, NEW at \in {"new", "loaded", "forget", "ended"}, After(r, at)
  PROVE  \E op \in RecordOps :
           /\ recordOp' = [recordOp EXCEPT ![r] = op]
           /\ op.at = at /\ op.kind = recordOp[r].kind /\ op.offer = recordOp[r].offer
           /\ op.copy = recordOp[r].copy /\ op.raced = recordOp[r].raced
<1>1. recordOp[r] \in RecordOps
  BY DEF RecordsTyped
<1> DEFINE op == [recordOp[r] EXCEPT !.at = at]
<1>2. op \in RecordOps
  BY <1>1 DEF RecordOps
<1>3. /\ op.at = at /\ op.kind = recordOp[r].kind /\ op.offer = recordOp[r].offer
      /\ op.copy = recordOp[r].copy /\ op.raced = recordOp[r].raced
  BY <1>1 DEF RecordOps
<1>4. recordOp' = [recordOp EXCEPT ![r] = op]
  BY DEF After
<1> HIDE DEF op
<1> QED BY <1>2, <1>3, <1>4

LEMMA CacheListStep == ASSUME RecordInv, NEW r \in RecordRequests, CacheList(r) PROVE RecordInv'
<1> USE DEF RecordInv
<1>1. /\ offerList' = [is |-> TRUE, rows |-> recordOp[r].copy, raced |-> recordOp[r].raced]
      /\ Loaded(r, {"list"})
      /\ UNCHANGED <<offers, client, toldOf, handlers, recordPlot, oldCopies, strayed>>
  BY DEF CacheList
<1>2. PICK op \in RecordOps :
        /\ recordOp' = [recordOp EXCEPT ![r] = op]
        /\ op.at = "ended" /\ op.kind = recordOp[r].kind /\ op.offer = recordOp[r].offer
        /\ op.copy = recordOp[r].copy /\ op.raced = recordOp[r].raced
  BY AfterGoes DEF CacheList
<1>3. \A q \in RecordRequests : recordOp'[q] = IF q = r THEN op ELSE recordOp[q]
  BY <1>2 DEF RecordsTyped
<1>4. op.kind = "list"
  BY <1>1, <1>2 DEF Loaded
<1>5. CopiesFit' /\ \A o : NewId(o)' => NewId(o)
  BY <1>1, <1>2, <1>4, CopiesStayFit DEF CopyFits, RowKinds, Loaded
<1>6. RecordsTyped'
  BY <1>1, <1>2 DEF RecordsTyped
<1>7. HandlersHaveRequests'
  <2>1. Repricers \subseteq Repricers'
    BY <1>1, <1>3 DEF Repricers, Loaded
  <2>2. handlers' \in Nat /\ handlers' <= handlers
    BY <1>1 DEF HandlersHaveRequests
  <2> QED BY <2>1, <2>2, HandlersKeepRequests
<1>8. NothingToDrop' => NothingToDrop
  BY <1>1, <1>3 DEF NothingToDrop, Loaded
<1>9. ReadersAreCurrent'
  BY <1>1, <1>2, <1>3, <1>8 DEF ReadersAreCurrent, Loaded
<1>10. OffersListIsCurrent'
  BY <1>1, <1>8 DEF OffersListIsCurrent, NothingToDrop, ReadersAreCurrent
<1>11. NewIdsAreUnknown'
  BY <1>1, <1>5 DEF NewIdsAreUnknown, Exists
<1>12. EventsTellTheRows'
  BY <1>1 DEF EventsTellTheRows, Exists
<1> QED BY <1>5, <1>6, <1>7, <1>9, <1>10, <1>11, <1>12

LEMMA ListExpiresStep == ASSUME RecordInv, ListExpires PROVE RecordInv'
<1> USE DEF RecordInv, ListExpires
<1>1. RecordsTyped' /\ CopiesFit' /\ HandlersHaveRequests'
  BY DEF RecordsTyped, CopiesFit, CopyFits, Loaded, NewId, HandlersHaveRequests, Repricers
<1>2. ReadersAreCurrent' /\ OffersListIsCurrent'
  BY DEF ReadersAreCurrent, Loaded, NothingToDrop, OffersListIsCurrent, NoList
<1>3. NewIdsAreUnknown' /\ EventsTellTheRows'
  BY DEF NewIdsAreUnknown, NewId, Exists, EventsTellTheRows
<1> QED BY <1>1, <1>2, <1>3

(* A change of the packages: its request has yet to drop the list, so that *)
(* nothing is claimed of the list meanwhile.                               *)
LEMMA ChangeIsPending ==
  ASSUME RecordInv, NEW r \in RecordRequests, NEW op \in RecordOps,
         recordOp' = [recordOp EXCEPT ![r] = op], op.at = "forget", op.kind # "tag",
         recordOp[r].at \in {"new", "loaded"},
         UNCHANGED <<client, recordPlot>>, offers' \in [Offers -> OfferRows],
         toldOf' \in [prices : [Offers -> Prices \cup {0}], client : ClientRows],
         oldCopies' \subseteq Offers \cup {"client"}, strayed' = strayed,
         HandlersHaveRequests', NewIdsAreUnknown', EventsTellTheRows'
  PROVE  RecordInv'
<1> USE DEF RecordInv
<1>1. recordOp'[r] = op
  BY DEF RecordsTyped
<1>2. recordOp[r].kind # "create"
  BY DEF CopiesFit, CopyFits
<1>3. CopiesFit'
  BY <1>2, CopiesStayFit DEF CopyFits
<1>4. RecordsTyped'
  BY DEF RecordsTyped
<1>5. ~NothingToDrop'
  BY <1>1 DEF NothingToDrop
<1>6. ReadersAreCurrent'
  BY <1>5 DEF ReadersAreCurrent
<1>7. OffersListIsCurrent'
  BY <1>1 DEF OffersListIsCurrent
<1> QED BY <1>3, <1>4, <1>6, <1>7

\* A row saved from a copy is what it was, but for what the request changes, unless the copy was old.
LEMMA RepriceStep ==
  ASSUME RecordInv, NEW r \in RecordRequests, NEW price \in Prices, Reprice(r, price) PROVE RecordInv'
<1> USE DEF RecordInv
<1> DEFINE o == recordOp[r].offer
           copy == recordOp[r].copy
<1>1. /\ recordOp[r].at = "loaded" /\ recordOp[r].kind = "reprice"
      /\ offers' = [offers EXCEPT ![o] = [copy EXCEPT !.price = price]]
      /\ toldOf' = [toldOf EXCEPT !.prices[o] = price]
      /\ oldCopies' = IF offers[o] = copy THEN oldCopies ELSE oldCopies \cup {o}
      /\ handlers' = IF price = copy.price THEN handlers ELSE handlers + 1
      /\ UNCHANGED <<offerList, client, recordPlot, strayed>>
  BY DEF Reprice, Loaded, CopyIsOld
<1>2. PICK op \in RecordOps :
        /\ recordOp' = [recordOp EXCEPT ![r] = op]
        /\ op.at = "forget" /\ op.kind = recordOp[r].kind /\ op.offer = recordOp[r].offer
        /\ op.copy = recordOp[r].copy /\ op.raced = recordOp[r].raced
  BY AfterGoes DEF Reprice
<1>3. copy \in OfferRows /\ ~NewId(o) /\ o \in Offers
  BY <1>1 DEF CopiesFit, CopyFits, RowKinds, Loaded, RecordsTyped, RecordOps
<1>4. [copy EXCEPT !.price = price] \in OfferRows /\ [copy EXCEPT !.price = price].price = price /\ price # 0
  BY <1>3, RecordAssumption DEF OfferRows
<1>5. offers' \in [Offers -> OfferRows]
  BY <1>1, <1>4 DEF RecordsTyped
<1>6. /\ toldOf' \in [prices : [Offers -> Prices \cup {0}], client : ClientRows]
      /\ toldOf'.client = toldOf.client
      /\ \A p \in Offers : toldOf'.prices[p] = IF p = o THEN price ELSE toldOf.prices[p]
  BY <1>1, <1>3 DEF RecordsTyped
<1>7. \A p \in Offers : offers'[p] = IF p = o THEN [copy EXCEPT !.price = price] ELSE offers[p]
  BY <1>1 DEF RecordsTyped
<1> HIDE DEF o, copy
<1>8. oldCopies \subseteq oldCopies' /\ oldCopies' \subseteq Offers \cup {"client"}
  BY <1>1, <1>3 DEF RecordsTyped
<1>9. HandlersHaveRequests'
  <2>1. Repricers' = Repricers \cup {r} /\ r \notin Repricers
    BY <1>1, <1>2 DEF Repricers, RecordsTyped
  <2>2. Repricers \subseteq RecordRequests
    BY DEF Repricers
  <2>3. IsFiniteSet(Repricers)
    BY <2>2, RecordAssumption, FS_Subset
  <2>4. Cardinality(Repricers') = Cardinality(Repricers) + 1 /\ Cardinality(Repricers) \in Nat
    BY <2>1, <2>3, FS_AddElement, FS_CardinalityType
  <2> QED BY <1>1, <2>4 DEF HandlersHaveRequests
<1>10. \A p : NewId(p)' => NewId(p)
  BY <1>1, <1>2, CopiesStayFit DEF CopyFits
<1>11. NewIdsAreUnknown'
  BY <1>3, <1>6, <1>7, <1>10 DEF NewIdsAreUnknown, Exists
<1>12. EventsTellTheRows'
  <2>1. \A p \in Offers \ oldCopies' : Exists(p)' /\ toldOf'.prices[p] # 0 => toldOf'.prices[p] = offers'[p].price
    BY <1>4, <1>6, <1>7, <1>8 DEF EventsTellTheRows, Exists
  <2>2. "client" \notin oldCopies' =>
          /\ toldOf'.client.email = client'.email
          /\ "tag" \notin recordPlot'.kinds => toldOf'.client.tags = client'.tags
    BY <1>1, <1>6, <1>8 DEF EventsTellTheRows
  <2> QED BY <2>1, <2>2 DEF EventsTellTheRows
<1> QED BY <1>1, <1>2, <1>5, <1>6, <1>8, <1>9, <1>11, <1>12, ChangeIsPending

LEMMA ActivateStep == ASSUME RecordInv, NEW r \in RecordRequests, Activate(r) PROVE RecordInv'
<1> USE DEF RecordInv
<1> DEFINE o == recordOp[r].offer
           copy == recordOp[r].copy
           row == [copy EXCEPT !.active = ~@]
<1>1. /\ recordOp[r].at = "loaded" /\ recordOp[r].kind = "activate"
      /\ offers' = [offers EXCEPT ![o] = row]
      /\ oldCopies' = IF offers[o] = copy THEN oldCopies ELSE oldCopies \cup {o}
      /\ UNCHANGED <<offerList, client, toldOf, handlers, recordPlot, strayed>>
  BY DEF Activate, Loaded, CopyIsOld
<1>2. PICK op \in RecordOps :
        /\ recordOp' = [recordOp EXCEPT ![r] = op]
        /\ op.at = "forget" /\ op.kind = recordOp[r].kind /\ op.offer = recordOp[r].offer
        /\ op.copy = recordOp[r].copy /\ op.raced = recordOp[r].raced
  BY AfterGoes DEF Activate
<1>3. copy \in OfferRows /\ ~NewId(o) /\ o \in Offers
  BY <1>1 DEF CopiesFit, CopyFits, RowKinds, Loaded, RecordsTyped, RecordOps
<1>4. row \in OfferRows /\ row.price = copy.price
  BY <1>3 DEF OfferRows
<1> HIDE DEF row
<1>5. offers' \in [Offers -> OfferRows]
  BY <1>1, <1>4 DEF RecordsTyped
<1>6. \A p \in Offers : offers'[p] = IF p = o THEN row ELSE offers[p]
  BY <1>1 DEF RecordsTyped
<1>7. recordOp[r].kind # "reprice"
  BY <1>1
<1> HIDE DEF o, copy
<1>8. oldCopies \subseteq oldCopies' /\ oldCopies' \subseteq Offers \cup {"client"}
  BY <1>1, <1>3 DEF RecordsTyped
<1>9. HandlersHaveRequests'
  <2>1. Repricers \subseteq Repricers'
    BY <1>1, <1>2 DEF Repricers, RecordsTyped
  <2> QED BY <1>1, <2>1, HandlersKeepRequests DEF HandlersHaveRequests
<1>10. \A p : NewId(p)' => NewId(p)
  BY <1>1, <1>2, CopiesStayFit DEF CopyFits
<1>11. NewIdsAreUnknown'
  BY <1>1, <1>3, <1>6, <1>10 DEF NewIdsAreUnknown, Exists
<1>12. EventsTellTheRows'
  <2>1. \A p \in Offers \ oldCopies' : Exists(p)' /\ toldOf'.prices[p] # 0 => toldOf'.prices[p] = offers'[p].price
    BY <1>1, <1>4, <1>6, <1>8 DEF EventsTellTheRows, Exists
  <2>2. "client" \notin oldCopies' =>
          /\ toldOf'.client.email = client'.email
          /\ "tag" \notin recordPlot'.kinds => toldOf'.client.tags = client'.tags
    BY <1>1, <1>8 DEF EventsTellTheRows
  <2> QED BY <2>1, <2>2 DEF EventsTellTheRows
<1> QED BY <1>1, <1>2, <1>5, <1>8, <1>9, <1>11, <1>12, ChangeIsPending DEF RecordsTyped

LEMMA CreatePackageStep ==
  ASSUME RecordInv, NEW r \in RecordRequests, NEW o \in Offers, NEW price \in Prices, CreatePackage(r, o, price)
  PROVE  RecordInv'
<1> USE DEF RecordInv
<1> DEFINE row == [price |-> price, active |-> TRUE]
           new == [kind |-> "create", at |-> "forget", offer |-> o, copy |-> NoOffer, raced |-> FALSE]
<1>1. /\ NewId(o) /\ recordOp[r].at \in {"new", "loaded"} /\ offers' = [offers EXCEPT ![o] = row]
      /\ recordOp' = [recordOp EXCEPT ![r] = new]
      /\ UNCHANGED <<offerList, client, toldOf, handlers, recordPlot, oldCopies, strayed>>
  BY DEF CreatePackage, RecordOpGoes, Idle, Loaded
<1>2. NoOffer \in Copies
  BY OpNewTyped DEF Copies
<1>3. PICK op \in RecordOps : op = new
  BY <1>2, OpTyped DEF RecordKinds
<1>4. op.kind = "create" /\ op.at = "forget" /\ op.offer = o
  BY <1>3
<1>5. recordOp' = [recordOp EXCEPT ![r] = op]
  BY <1>1, <1>3
<1>6. row \in OfferRows
  BY DEF OfferRows
<1> HIDE DEF row, new
<1>7. offers' \in [Offers -> OfferRows]
  BY <1>1, <1>6 DEF RecordsTyped
<1>8. \A p \in Offers : p # o => offers'[p] = offers[p]
  BY <1>1 DEF RecordsTyped
<1>9. HandlersHaveRequests'
  <2>1. Repricers \subseteq Repricers'
    BY <1>1, <1>5 DEF Repricers, RecordsTyped
  <2> QED BY <1>1, <2>1, HandlersKeepRequests DEF HandlersHaveRequests
<1>10. recordOp[r].kind # "create"
  BY <1>1 DEF CopiesFit, CopyFits
<1>11. (\A p : NewId(p)' => NewId(p)) /\ ~NewId(o)'
  <2>1. \A p : NewId(p)' => NewId(p)
    BY <1>1, <1>4, <1>5, <1>10, CopiesStayFit DEF CopyFits, RowKinds
  <2>2. ~NewId(o)'
    BY <1>4, <1>5 DEF NewId, RecordsTyped
  <2> QED BY <2>1, <2>2
<1>12. NewIdsAreUnknown'
  BY <1>1, <1>8, <1>11 DEF NewIdsAreUnknown, Exists
<1>13. EventsTellTheRows'
  <2>1. toldOf'.prices[o] = 0
    BY <1>1 DEF NewIdsAreUnknown
  <2> QED BY <1>1, <1>8, <2>1 DEF EventsTellTheRows, Exists
<1> QED BY <1>1, <1>4, <1>5, <1>7, <1>9, <1>12, <1>13, ChangeIsPending DEF RecordsTyped

LEMMA RemovePackageStep == ASSUME RecordInv, NEW r \in RecordRequests, RemovePackage(r) PROVE RecordInv'
<1> USE DEF RecordInv
<1> DEFINE o == recordOp[r].offer
<1>1. /\ recordOp[r].at = "loaded" /\ recordOp[r].kind = "remove"
      /\ UNCHANGED <<offerList, client, toldOf, handlers, recordPlot, oldCopies, strayed>>
  BY DEF RemovePackage, Loaded
<1>2. CASE After(r, "ended") /\ UNCHANGED offers
  <2>1. PICK op \in RecordOps :
          /\ recordOp' = [recordOp EXCEPT ![r] = op]
          /\ op.at = "ended" /\ op.kind = recordOp[r].kind /\ op.offer = recordOp[r].offer
          /\ op.copy = recordOp[r].copy /\ op.raced = recordOp[r].raced
    BY <1>2, AfterGoes
  <2> QED BY <1>1, <1>2, <2>1, OnlyTheRequest DEF CopyFits
<1>3. CASE After(r, "forget") /\ offers' = [offers EXCEPT ![o] = NoOffer]
  <2>1. PICK op \in RecordOps :
          /\ recordOp' = [recordOp EXCEPT ![r] = op]
          /\ op.at = "forget" /\ op.kind = recordOp[r].kind /\ op.offer = recordOp[r].offer
          /\ op.copy = recordOp[r].copy /\ op.raced = recordOp[r].raced
    BY <1>3, AfterGoes
  <2>2. offers' \in [Offers -> OfferRows]
    BY <1>3, OpNewTyped DEF RecordsTyped
  <2>3. \A p \in Offers : offers'[p].price = 0 \/ offers'[p] = offers[p]
    BY <1>3 DEF RecordsTyped, NoOffer
  <2>4. HandlersHaveRequests'
    <3>1. Repricers \subseteq Repricers'
      BY <1>1, <2>1 DEF Repricers, RecordsTyped
    <3> QED BY <1>1, <3>1, HandlersKeepRequests DEF HandlersHaveRequests
  <2>5. \A p : NewId(p)' => NewId(p)
    BY <1>1, <2>1, CopiesStayFit DEF CopyFits
  <2>6. NewIdsAreUnknown'
    BY <1>1, <2>3, <2>5 DEF NewIdsAreUnknown, Exists
  <2>7. EventsTellTheRows'
    BY <1>1, <2>3 DEF EventsTellTheRows, Exists
  <2> QED BY <1>1, <2>1, <2>2, <2>4, <2>6, <2>7, ChangeIsPending DEF RecordsTyped
<1> QED BY <1>2, <1>3 DEF RemovePackage, ForgetsAfterRemoval
----------------------------------------------------------------------------
\* The drop of the list: a reader that has not cached its rows yet is marked as one that missed it.
LEMMA DroppedStep ==
  ASSUME RecordInv, NEW ops \in [RecordRequests -> RecordOps], Dropped(ops),
         \A r \in RecordRequests :
           /\ ops[r].kind = recordOp[r].kind /\ ops[r].offer = recordOp[r].offer /\ ops[r].copy = recordOp[r].copy
           /\ ops[r].at = recordOp[r].at \/ (recordOp[r].at = "forget" /\ ops[r].at = "ended"),
         handlers' \in Nat, handlers' <= handlers,
         UNCHANGED <<offers, client, toldOf, recordPlot, oldCopies>>
  PROVE  RecordInv'
<1> USE DEF RecordInv
<1>1. ASSUME NEW r \in RecordRequests
      PROVE  /\ recordOp'[r] \in RecordOps
             /\ recordOp'[r].kind = ops[r].kind /\ recordOp'[r].at = ops[r].at
             /\ recordOp'[r].offer = ops[r].offer /\ recordOp'[r].copy = ops[r].copy
             /\ ops[r].kind = "list" /\ ops[r].at = "loaded" => recordOp'[r].raced
  <2>1. recordOp'[r] = IF ops[r].kind = "list" /\ ops[r].at = "loaded" THEN [ops[r] EXCEPT !.raced = TRUE] ELSE ops[r]
    BY DEF Dropped
  <2>2. ops[r] \in RecordOps
    OBVIOUS
  <2>3. [ops[r] EXCEPT !.raced = TRUE] \in RecordOps
    BY <2>2 DEF RecordOps
  <2>4. /\ [ops[r] EXCEPT !.raced = TRUE].kind = ops[r].kind /\ [ops[r] EXCEPT !.raced = TRUE].at = ops[r].at
        /\ [ops[r] EXCEPT !.raced = TRUE].offer = ops[r].offer /\ [ops[r] EXCEPT !.raced = TRUE].copy = ops[r].copy
        /\ [ops[r] EXCEPT !.raced = TRUE].raced
    BY <2>2 DEF RecordOps
  <2> QED BY <2>1, <2>2, <2>3, <2>4
<1>2. RecordsTyped'
  <2>1. recordOp' \in [RecordRequests -> RecordOps]
    BY <1>1 DEF Dropped
  <2> QED BY <2>1 DEF RecordsTyped, Dropped
<1>3. \A o : NewId(o)' = NewId(o)
  BY <1>1 DEF NewId
<1>4. CopiesFit'
  BY <1>1, <1>3 DEF CopiesFit, CopyFits, Loaded
<1>5. HandlersHaveRequests'
  <2>1. Repricers \subseteq Repricers'
    BY <1>1 DEF Repricers
  <2> QED BY <2>1, HandlersKeepRequests
<1>6. ReadersAreCurrent'
  BY <1>1 DEF ReadersAreCurrent, Loaded
<1>7. OffersListIsCurrent'
  BY DEF OffersListIsCurrent, Dropped, NoList
<1>8. NewIdsAreUnknown' /\ EventsTellTheRows'
  BY <1>3 DEF NewIdsAreUnknown, EventsTellTheRows, Exists
<1> QED BY <1>2, <1>4, <1>5, <1>6, <1>7, <1>8

LEMMA ForgetListStep == ASSUME RecordInv, NEW r \in RecordRequests, ForgetList(r) PROVE RecordInv'
<1> DEFINE ops == [recordOp EXCEPT ![r].at = "ended"]
<1>1. recordOp \in [RecordRequests -> RecordOps]
  BY DEF RecordInv, RecordsTyped
<1>2. ops \in [RecordRequests -> RecordOps]
  BY <1>1 DEF RecordOps
<1>3. \A q \in RecordRequests :
           /\ ops[q].kind = recordOp[q].kind /\ ops[q].offer = recordOp[q].offer /\ ops[q].copy = recordOp[q].copy
           /\ ops[q].at = recordOp[q].at \/ (recordOp[q].at = "forget" /\ ops[q].at = "ended")
  BY <1>1 DEF RecordOps, ForgetList
<1>4. Dropped(ops) /\ UNCHANGED <<offers, client, toldOf, recordPlot, oldCopies, handlers>>
  BY DEF ForgetList
<1>5. handlers \in Nat
  BY DEF RecordInv, HandlersHaveRequests
<1> HIDE DEF ops
<1> QED BY <1>2, <1>3, <1>4, <1>5, DroppedStep

LEMMA HandlePriceChangeStep == ASSUME RecordInv, HandlePriceChange PROVE RecordInv'
<1>1. recordOp \in [RecordRequests -> RecordOps]
  BY DEF RecordInv, RecordsTyped
<1>2. handlers' \in Nat /\ handlers' <= handlers
  BY DEF RecordInv, HandlersHaveRequests, HandlePriceChange
<1>3. Dropped(recordOp) /\ UNCHANGED <<offers, client, toldOf, recordPlot, oldCopies>>
  BY DEF HandlePriceChange
<1> QED BY <1>1, <1>2, <1>3, DroppedStep

LEMMA EndsUnforgottenStep == ASSUME RecordInv, NEW r \in RecordRequests, EndsUnforgotten(r) PROVE RecordInv'
<1> USE DEF RecordInv
<1>1. /\ recordOp[r].at = "forget" /\ handlers' \in {handlers, 0}
      /\ recordPlot' = [recordPlot EXCEPT !.faults = @ - 1] /\ recordPlot.faults > 0
      /\ strayed' = (strayed \/ handlers' = 0)
      /\ UNCHANGED <<offers, offerList, client, toldOf, oldCopies>>
  BY DEF EndsUnforgotten
<1>2. PICK op \in RecordOps :
        /\ recordOp' = [recordOp EXCEPT ![r] = op]
        /\ op.at = "ended" /\ op.kind = recordOp[r].kind /\ op.offer = recordOp[r].offer
        /\ op.copy = recordOp[r].copy /\ op.raced = recordOp[r].raced
  BY AfterGoes DEF EndsUnforgotten
<1>3. /\ recordPlot'.kinds = recordPlot.kinds /\ recordPlot'.offered = recordPlot.offered
      /\ recordPlot' \in [kinds : SUBSET STRING, offered : SUBSET Offers, booked : SUBSET Offers, faults : Nat]
  BY <1>1 DEF RecordsTyped
<1>4. CopiesFit' /\ \A o : NewId(o)' => NewId(o)
  BY <1>2, <1>3, CopiesStayFit DEF CopyFits
<1>5. RecordsTyped'
  BY <1>1, <1>2, <1>3 DEF RecordsTyped
<1>6. HandlersHaveRequests'
  <2>1. Repricers \subseteq Repricers'
    BY <1>1, <1>2 DEF Repricers, RecordsTyped
  <2> QED BY <1>1, <2>1, HandlersKeepRequests DEF HandlersHaveRequests
<1>7. ~NothingToDrop'
  BY <1>1 DEF NothingToDrop
<1>8. ReadersAreCurrent' /\ OffersListIsCurrent'
  BY <1>7 DEF ReadersAreCurrent, OffersListIsCurrent, NothingToDrop
<1>9. NewIdsAreUnknown' /\ EventsTellTheRows'
  BY <1>1, <1>3, <1>4 DEF NewIdsAreUnknown, EventsTellTheRows, Exists
<1> QED BY <1>4, <1>5, <1>6, <1>8, <1>9
----------------------------------------------------------------------------
\* A save of the client: what the events tell of it is checked by who saves.
LEMMA SaveClientStep ==
  ASSUME RecordInv, NEW r \in RecordRequests, NEW edited \in ClientRows, SaveClient(r, edited),
         Loaded(r, {"edit", "tag"}), toldOf' \in [prices : [Offers -> Prices \cup {0}], client : ClientRows],
         toldOf'.prices = toldOf.prices,
         client = recordOp[r].copy =>
           /\ toldOf.client.email = client.email => toldOf'.client.email = edited.email
           /\ "tag" \notin recordPlot.kinds /\ toldOf.client.tags = client.tags => toldOf'.client.tags = edited.tags
  PROVE  RecordInv'
<1> USE DEF RecordInv
<1>1. /\ client' = edited /\ UNCHANGED <<offers, offerList, handlers, recordPlot, strayed>>
      /\ oldCopies' = IF client = recordOp[r].copy THEN oldCopies ELSE oldCopies \cup {"client"}
  BY DEF SaveClient, CopyIsOld
<1>2. PICK op \in RecordOps :
        /\ recordOp' = [recordOp EXCEPT ![r] = op]
        /\ op.at = "ended" /\ op.kind = recordOp[r].kind /\ op.offer = recordOp[r].offer
        /\ op.copy = recordOp[r].copy /\ op.raced = recordOp[r].raced
  BY AfterGoes DEF SaveClient
<1>3. \A q \in RecordRequests : recordOp'[q] = IF q = r THEN op ELSE recordOp[q]
  BY <1>2 DEF RecordsTyped
<1>4. CopiesFit' /\ \A o : NewId(o)' => NewId(o)
  BY <1>1, <1>2, CopiesStayFit DEF CopyFits
<1>5. oldCopies \subseteq oldCopies' /\ oldCopies' \subseteq Offers \cup {"client"}
  BY <1>1 DEF RecordsTyped
<1>6. RecordsTyped'
  BY <1>1, <1>2, <1>5 DEF RecordsTyped
<1>7. HandlersHaveRequests'
  <2>1. Repricers \subseteq Repricers'
    BY <1>2, <1>3 DEF Repricers
  <2> QED BY <1>1, <2>1, HandlersKeepRequests DEF HandlersHaveRequests
<1>8. NothingToDrop' => NothingToDrop
  BY <1>1, <1>3 DEF NothingToDrop, Loaded
<1>9. ReadersAreCurrent'
  BY <1>1, <1>2, <1>3, <1>8 DEF ReadersAreCurrent, Loaded
<1>10. OffersListIsCurrent'
  BY <1>1, <1>8 DEF OffersListIsCurrent, NothingToDrop
<1>11. NewIdsAreUnknown'
  BY <1>1, <1>4 DEF NewIdsAreUnknown, Exists
<1>12. EventsTellTheRows'
  <2>1. \A p \in Offers \ oldCopies' : Exists(p)' /\ toldOf'.prices[p] # 0 => toldOf'.prices[p] = offers'[p].price
    BY <1>1, <1>5 DEF EventsTellTheRows, Exists
  <2>2. "client" \notin oldCopies' => client = recordOp[r].copy /\ "client" \notin oldCopies
    BY <1>1, <1>5
  <2>3. "client" \notin oldCopies' =>
          /\ toldOf'.client.email = client'.email
          /\ "tag" \notin recordPlot'.kinds => toldOf'.client.tags = client'.tags
    BY <1>1, <2>2 DEF EventsTellTheRows
  <2> QED BY <2>1, <2>3 DEF EventsTellTheRows
<1> QED BY <1>4, <1>6, <1>7, <1>9, <1>10, <1>11, <1>12

LEMMA EditClientStep ==
  ASSUME RecordInv, NEW r \in RecordRequests, NEW edited \in ClientRows, EditClient(r, edited) PROVE RecordInv'
<1> DEFINE told == Announced(toldOf.client, recordOp[r].copy, edited)
<1>1. toldOf' = [toldOf EXCEPT !.client = told] /\ SaveClient(r, edited) /\ Loaded(r, {"edit", "tag"})
  BY DEF EditClient, Loaded
<1>2. toldOf \in [prices : [Offers -> Prices \cup {0}], client : ClientRows]
  BY DEF RecordInv, RecordsTyped
<1>3. /\ told \in ClientRows
      /\ told.email = IF edited.email # recordOp[r].copy.email THEN edited.email ELSE toldOf.client.email
      /\ told.tags = IF edited.tags # recordOp[r].copy.tags THEN edited.tags ELSE toldOf.client.tags
  BY <1>2 DEF Announced, ClientRows
<1> HIDE DEF told
<1>4. /\ toldOf' \in [prices : [Offers -> Prices \cup {0}], client : ClientRows]
      /\ toldOf'.prices = toldOf.prices /\ toldOf'.client = told
  BY <1>1, <1>2, <1>3
<1> QED BY <1>1, <1>3, <1>4, SaveClientStep

LEMMA TagClientStep == ASSUME RecordInv, NEW r \in RecordRequests, NEW tags \in 0..1, TagClient(r, tags) PROVE RecordInv'
<1> DEFINE copy == recordOp[r].copy
           edited == [copy EXCEPT !.tags = tags]
<1>1. SaveClient(r, edited) /\ Loaded(r, {"edit", "tag"}) /\ toldOf' = toldOf
  BY DEF TagClient, Loaded
<1>2. toldOf \in [prices : [Offers -> Prices \cup {0}], client : ClientRows]
  BY DEF RecordInv, RecordsTyped
<1>3. copy \in ClientRows /\ "tag" \in recordPlot.kinds
  BY DEF TagClient, Loaded, RecordInv, CopiesFit, CopyFits
<1>4. edited \in ClientRows /\ edited.email = copy.email
  BY <1>3 DEF ClientRows
<1> HIDE DEF edited
<1> QED BY <1>1, <1>2, <1>3, <1>4, SaveClientStep

LEMMA RecordStep == RecordInv /\ [RecordNext]_recordVars => RecordInv'
<1> SUFFICES ASSUME RecordInv, [RecordNext]_recordVars PROVE RecordInv'
  OBVIOUS
<1>1. CASE UNCHANGED recordVars
  <2>1. RecordsTyped' /\ CopiesFit' /\ HandlersHaveRequests'
    BY <1>1 DEF recordVars, RecordInv, RecordsTyped, CopiesFit, CopyFits, Loaded, NewId, HandlersHaveRequests, Repricers
  <2>2. ReadersAreCurrent' /\ OffersListIsCurrent'
    BY <1>1 DEF recordVars, RecordInv, ReadersAreCurrent, Loaded, NothingToDrop, OffersListIsCurrent
  <2>3. NewIdsAreUnknown' /\ EventsTellTheRows'
    BY <1>1 DEF recordVars, RecordInv, NewIdsAreUnknown, NewId, Exists, EventsTellTheRows
  <2> QED BY <2>1, <2>2, <2>3 DEF RecordInv
<1>2. CASE ListExpires \/ HandlePriceChange
  BY <1>2, ListExpiresStep, HandlePriceChangeStep
<1>3. ASSUME NEW r \in RecordRequests, ListPackages(r) \/ CacheList(r) \/ Activate(r) \/ RemovePackage(r) PROVE RecordInv'
  BY <1>3, ListPackagesStep, CacheListStep, ActivateStep, RemovePackageStep
<1>4. ASSUME NEW r \in RecordRequests, ForgetList(r) \/ EndsUnforgotten(r) \/ LoadClient(r) \/ DeleteClient(r) PROVE RecordInv'
  BY <1>4, ForgetListStep, EndsUnforgottenStep, LoadClientStep, DeleteClientStep
<1>5. ASSUME NEW r \in RecordRequests, NEW o \in Offers,
             LoadOffer(r, o) \/ \E price \in Prices : CreatePackage(r, o, price)
      PROVE  RecordInv'
  BY <1>5, LoadOfferStep, CreatePackageStep
<1>6. ASSUME NEW r \in RecordRequests, NEW price \in Prices, Reprice(r, price) PROVE RecordInv'
  BY <1>6, RepriceStep
<1>7. ASSUME NEW r \in RecordRequests, NEW email \in 0..1, NEW tags \in 0..1,
             EditClient(r, [email |-> email, tags |-> tags]) \/ TagClient(r, tags)
      PROVE  RecordInv'
  <2>1. [email |-> email, tags |-> tags] \in ClientRows
    BY DEF ClientRows
  <2> QED BY <1>7, <2>1, EditClientStep, TagClientStep
<1> QED BY <1>1, <1>2, <1>3, <1>4, <1>5, <1>6, <1>7 DEF RecordNext

(* However the requests, the handlers and their ends interleave: the       *)
(* cached list is current unless its drop is pending or was missed, and    *)
(* the events tell the rows unless one was saved from an old copy.         *)
THEOREM RecordsAlwaysAgree == RecordSpec => [](RecordTypeOK /\ OffersListIsCurrent /\ EventsTellTheRows)
<1>1. RecordSpec => []RecordInv
  BY RecordInitially, RecordStep, PTL DEF RecordSpec
<1>2. RecordInv => OffersListIsCurrent /\ EventsTellTheRows
  BY DEF RecordInv
<1> QED BY <1>1, <1>2, RecordInvSuffices, PTL
------------------------------------------------------------------------------
(* One tenant and its operators.  Requests that are under way together     *)
(* overlapped, which is what every excuse of the properties is made of;    *)
(* what a request holds at each of its steps is what the row was when it   *)
(* was loaded, unless somebody overlapped; and whoever has changed the row *)
(* and not told of it is the only one.                                     *)
PlatformKinds == {"none"} \cup Decisions \cup Edits \cup OtherKinds
PlatformSteps ==
  {"idle", "load", "save", "forget", "record", "enter", "check", "revoke", "purge", "failed", "leave",
   "sessions", "look", "open", "end", "done", "crashed"}
Statuses == TenantStatuses \cup {"none"}
TenantRows == [status : Statuses, scheduled : {"no", "later", "due"}]
PlatformOps == [kind : PlatformKinds, at : PlatformSteps, row : TenantRows, was : TenantRows]
TrailRows == [by : PlatformRequests, from : TenantRows, to : TenantRows]
VisitorRows ==
  [at : {"idle", "fetch", "remember", "answer", "admitted", "refused"}, status : Statuses, raced : BOOLEAN]
Writes(o) == platformOp[o].kind \in Decisions \cup Edits
Deletes(o) == platformOp[o].kind \in {"cron", "deleteNow"}

TenantTyped ==
  /\ tenant \in TenantRows
  /\ stateCache \in [status : Statuses, raced : BOOLEAN]
  /\ platformOp \in [PlatformRequests -> PlatformOps]
  /\ visitor \in [Visitors -> VisitorRows]
  /\ trail \in Seq(TrailRows)
  /\ tenantSessions \in {"open", "revoked"}
  /\ decided \in PlatformRequests \cup {0}
  /\ beside \subseteq SUBSET PlatformRequests
  /\ tenantPlot.kinds \subseteq PlatformKinds \ {"none"}

\* What a request holds at each of its steps.
StepFits(op) ==
  /\ op.kind = "none" <=> op.at = "idle"
  /\ op.at \in {"load", "save"} => op.kind \in Decisions \cup Edits
  /\ op.at = "save" => op.row.status # "none"
  /\ op.at = "save" /\ op.kind \in Edits => op.row.status = op.was.status
  /\ op.at \in {"forget", "record"} => op.kind \in Decisions \cup {"update", "cron"}
  /\ op.at \in {"enter", "check", "revoke", "purge", "leave", "failed"} => op.kind \in {"cron", "deleteNow"}
  /\ op.at \in {"revoke", "purge"} => op.was.status = "PENDING_DELETION"
  /\ op.at = "record" /\ op.row.status = "none" => op.was.status = "PENDING_DELETION"
  /\ op.at = "sessions" => op.kind = "revokeAll"
  /\ op.kind \in {"none", "cron"} => op.row.status = "none"
  /\ op.at \in {"forget", "record"} /\ op.row.status = "none" => op.kind \in {"cron", "deleteNow"}

StepsFit == \A o \in PlatformRequests : StepFits(platformOp[o])

TogetherIsBeside ==
  \A o, p \in PlatformRequests : o # p /\ Busy(o) /\ Busy(p) => {o, p} \in beside

\* Nobody but the decision, or the purge it led to, has changed the status since.
Contested == \E o \in PlatformRequests : Writes(o) /\ {o, decided} \in beside
Standing ==
  LET status == platformOp[decided].row.status IN
  /\ tenant.status = status \/ (tenant.status = "none" /\ status = "PENDING_DELETION")
  /\ \A p \in PlatformRequests : OpAt(p, "save") /\ platformOp[p].kind \in Edits => platformOp[p].row.status = status

DecisionFits ==
  decided # 0 =>
    /\ platformOp[decided].kind \in Decisions
    /\ platformOp[decided].at \notin {"idle", "load", "save"}
    /\ Contested \/ Standing

\* What an edit will write back, and what a visitor will cache, is the status.
EditedBeside ==
  \E o, p \in PlatformRequests : platformOp[o].kind = "edit" /\ Writes(p) /\ {o, p} \in beside
EditsKeepStatus ==
  EditedBeside \/ \A o \in PlatformRequests : OpAt(o, "save") /\ platformOp[o].kind = "edit" =>
                    \/ platformOp[o].row.status = tenant.status
                    \/ tenant.status = "none"
VisitorsKnow ==
  \A v \in Visitors : visitor[v].at = "remember" /\ ~visitor[v].raced => visitor[v].status = tenant.status

\* A request whose change has no event yet knows where the trail has got to.
Unrecorded(op) == op.at = "record" \/ (op.at = "forget" /\ op.row.status # "none")
TrailExcused ==
  \/ \E o \in PlatformRequests : OpAt(o, "crashed")
  \/ \E pair \in beside : \E o \in pair : Writes(o)
EndsWith(status) == trail # <<>> => trail[Len(trail)].to.status = status
TrailKept ==
  /\ \A n \in 1..Len(trail) - 1 : trail[n + 1].from.status = trail[n].to.status
  /\ (\A o \in PlatformRequests : ~Unrecorded(platformOp[o])) => EndsWith(tenant.status)
  /\ \A o \in PlatformRequests : Unrecorded(platformOp[o]) =>
       platformOp[o].row.status = tenant.status /\ EndsWith(platformOp[o].was.status)
  /\ \A o, p \in PlatformRequests : Unrecorded(platformOp[o]) /\ Unrecorded(platformOp[p]) => o = p
  /\ \A o \in PlatformRequests : OpAt(o, "save") => platformOp[o].was.status = tenant.status
TrailFits == TrailExcused \/ TrailKept

\* A request records at most two events, the second of them that the tenant is gone.
NotYet(op) == op.at \in {"idle", "load", "save"} \/ (Unrecorded(op) /\ op.row.status # "none")
Parted(op) == op.row.status = "none" /\ op.at \in {"forget", "leave", "done", "crashed"}
SaysGone(n) == trail[n].to.status = "none"
RecordedOnce ==
  /\ \A m, n \in DOMAIN trail : m # n /\ trail[m].by = trail[n].by => SaysGone(m) # SaysGone(n)
  /\ \A n \in DOMAIN trail : IF SaysGone(n) THEN Parted(platformOp[trail[n].by]) ELSE ~NotYet(platformOp[trail[n].by])

\* A deletion that is due stays due, or its tenant is gone.
Asked(op) == op.kind = "revokeAll" \/ (op.kind \in {"suspend", "grace", "lock"} /\ op.at \notin {"load", "save"})
RevocationExcused ==
  \/ \E o \in PlatformRequests : Asked(platformOp[o])
  \/ \E pair \in beside : \E o \in pair : Deletes(o)
Doomed == DeletionDue(tenant) \/ tenant.status = "none"
StaysDoomed(op) == op.at = "save" => op.kind \in {"suspend", "grace", "lock"} \/ DeletionDue(op.row)
SessionsFit ==
  RevocationExcused \/
    /\ tenantSessions = "revoked" => Doomed /\ \A p \in PlatformRequests : StaysDoomed(platformOp[p])
    /\ \A o \in PlatformRequests : OpAt(o, "revoke") => Doomed

OneSession == impersonations \subseteq PlatformRequests /\ \A s, t \in impersonations : s = t

RequestsFit ==
  /\ StepsFit /\ TogetherIsBeside /\ DecisionFits /\ EditsKeepStatus
  /\ TrailFits /\ RecordedOnce /\ SessionsFit

TenantInv == TenantTyped /\ RequestsFit /\ VisitorsKnow /\ CacheFollowsTenant /\ OneSession /\ LockTypeOK
----------------------------------------------------------------------------
LEMMA TenantInitially == LockInit /\ TenantInit => TenantInv
<1> SUFFICES ASSUME LockInit, TenantInit PROVE TenantInv
  OBVIOUS
<1>1. PICK plot \in TenantPlots :
        /\ tenantPlot = plot
        /\ tenant = [status |-> "ACTIVE", scheduled |-> "no"]
        /\ stateCache = NoCache
        /\ platformOp = [o \in PlatformRequests |-> AtRest]
        /\ visitor = [v \in Visitors |-> [at |-> "idle", status |-> "none", raced |-> FALSE]]
        /\ trail = <<>>
        /\ tenantSessions = "open"
        /\ impersonations = {}
        /\ decided = 0
        /\ beside = {}
  BY DEF TenantInit
<1>2. Gone \in TenantRows
  BY DEF Gone, TenantRows, Statuses
<1>3. AtRest \in PlatformOps
  BY <1>2 DEF AtRest, PlatformOps, PlatformKinds, PlatformSteps
<1>4. TenantTyped
  <2>1. tenant \in TenantRows /\ stateCache \in [status : Statuses, raced : BOOLEAN]
    BY <1>1 DEF TenantRows, Statuses, TenantStatuses, NoCache
  <2>2. [at |-> "idle", status |-> "none", raced |-> FALSE] \in VisitorRows
    BY DEF VisitorRows, Statuses
  <2>3. visitor \in [Visitors -> VisitorRows]
    BY <1>1, <2>2
  <2>4. plot.kinds \subseteq Decisions \cup Edits \cup OtherKinds
    BY PlatformAssumption
  <2>5. tenantPlot.kinds \subseteq PlatformKinds \ {"none"}
    BY <1>1, <2>4 DEF PlatformKinds, Decisions, Edits, OtherKinds
  <2>6. trail \in Seq(TrailRows)
    BY <1>1
  <2> QED BY <1>1, <1>3, <2>1, <2>3, <2>5, <2>6 DEF TenantTyped
<1>5. \A o \in PlatformRequests : platformOp[o].kind = "none" /\ platformOp[o].at = "idle" /\ platformOp[o].row.status = "none"
  BY <1>1 DEF AtRest, Gone
<1>6. StepsFit /\ TogetherIsBeside /\ DecisionFits /\ EditsKeepStatus
  BY <1>1, <1>5 DEF StepsFit, StepFits, TogetherIsBeside, Busy, DecisionFits, EditsKeepStatus, OpAt
<1>7. TrailFits /\ RecordedOnce
  BY <1>1, <1>5 DEF TrailFits, TrailKept, Unrecorded, EndsWith, OpAt, RecordedOnce
<1>8. SessionsFit
  BY <1>1, <1>5 DEF SessionsFit, OpAt
<1>9. VisitorsKnow /\ CacheFollowsTenant /\ OneSession
  BY <1>1 DEF VisitorsKnow, CacheFollowsTenant, NoCache, OneSession
<1>10. LockTypeOK
  BY DEF LockInit, LockTypeOK
<1> QED BY <1>4, <1>6, <1>7, <1>8, <1>9, <1>10 DEF TenantInv, RequestsFit

LEMMA TrailIsShort == TenantTyped /\ RecordedOnce => Len(trail) <= 2 * Cardinality(PlatformRequests)
<1> SUFFICES ASSUME TenantTyped, RecordedOnce PROVE Len(trail) <= 2 * Cardinality(PlatformRequests)
  OBVIOUS
<1> DEFINE Kinds == {"gone", "there"}
           Said(n) == IF SaysGone(n) THEN "gone" ELSE "there"
           S == DOMAIN trail
           T == PlatformRequests \X Kinds
           f == [n \in S |-> <<trail[n].by, Said(n)>>]
<1>1. S = 1..Len(trail) /\ Len(trail) \in Nat /\ \A n \in S : trail[n].by \in PlatformRequests
  <2>1. trail \in Seq(TrailRows)
    BY DEF TenantTyped
  <2>2. \A n \in S : trail[n] \in TrailRows
    BY <2>1
  <2> QED BY <2>1, <2>2 DEF TrailRows
<1>2. IsFiniteSet(S) /\ Cardinality(S) = Len(trail)
  BY <1>1, FS_Interval
<1>3. IsFiniteSet(Kinds) /\ Cardinality(Kinds) = 2
  <2>1. IsFiniteSet({"gone"}) /\ Cardinality({"gone"}) = 1
    BY FS_Singleton
  <2>2. Kinds = {"gone"} \cup {"there"} /\ "there" \notin {"gone"}
    OBVIOUS
  <2> QED BY <2>1, <2>2, FS_AddElement
<1>4. IsFiniteSet(T) /\ Cardinality(T) = Cardinality(PlatformRequests) * 2
  BY <1>3, PlatformAssumption, FS_Product
<1>5. f \in [S -> T]
  BY <1>1
<1>6. ASSUME NEW m \in S, NEW n \in S, f[m] = f[n] PROVE m = n
  <2>1. trail[m].by = trail[n].by /\ Said(m) = Said(n)
    BY <1>6
  <2>2. SaysGone(m) = SaysGone(n)
    BY <2>1 DEF SaysGone
  <2> QED BY <2>1, <2>2 DEF RecordedOnce
<1>7. f \in Injection(S, T)
  BY <1>5, <1>6 DEF Injection, IsInjective
<1>8. Cardinality(S) <= Cardinality(T)
  <2> HIDE DEF S, T, f
  <2> QED BY <1>2, <1>4, <1>7, FS_Injection
<1>9. Cardinality(PlatformRequests) \in Nat
  BY PlatformAssumption, FS_CardinalityType
<1> QED BY <1>2, <1>4, <1>8, <1>9

LEMMA TenantInvSuffices == TenantInv => TenantTypeOK /\ TenantStateAgrees
<1> SUFFICES ASSUME TenantInv PROVE TenantTypeOK /\ TenantStateAgrees
  OBVIOUS
<1> USE DEF TenantInv, RequestsFit
<1>1. TenantTypeOK
  BY TrailIsShort DEF TenantTypeOK, TenantTyped, TenantRows, PlatformOps, VisitorRows, Statuses, OneSession
<1>2. DecisionStands
  BY DEF DecisionStands, DecisionFits, Contested, Standing, Writes, Apart
<1>3. TrailChains
  BY DEF TrailChains, TrailFits, TrailExcused, TrailKept, Writes
<1>4. RevokedForAReason
  BY DEF RevokedForAReason, SessionsFit, RevocationExcused, Asked, Doomed, Deletes
<1>5. OneImpersonation
  BY AtMostOne DEF OneImpersonation, OneSession
<1> QED BY <1>1, <1>2, <1>3, <1>4, <1>5 DEF TenantStateAgrees
----------------------------------------------------------------------------
(* A request goes on and leaves the tenant and the trail alone: what this  *)
(* asks of what it holds then.                                             *)
GoesOn(o, new) ==
  /\ platformOp' = [platformOp EXCEPT ![o] = new]
  /\ new.kind = platformOp[o].kind /\ platformOp[o].at \notin {"idle", "done", "crashed"} /\ new.at # "idle"
  /\ StepFits(new)
  /\ UNCHANGED beside

\* It has not recorded more, or less, than before.
RecordsAsBefore(o, new) ==
  /\ new.row = platformOp[o].row
  /\ new.at = "crashed" \/ (Unrecorded(new) <=> Unrecorded(platformOp[o]))
  /\ Unrecorded(new) => new.was = platformOp[o].was
  /\ new.at \notin {"load", "save"}
  /\ Parted(platformOp[o]) => Parted(new)

\* It has loaded the tenant and means to save it.
MeansToSave(o, new) ==
  /\ platformOp[o].at = "load" /\ new.at = "save"
  /\ new.was.status = tenant.status
  /\ new.kind \in Edits => new.row.status = tenant.status
  /\ Doomed => new.kind \in {"suspend", "grace", "lock"} \/ DeletionDue(new.row)

LEMMA OpsAfter ==
  ASSUME TenantTyped, NEW o \in PlatformRequests, NEW new, platformOp' = [platformOp EXCEPT ![o] = new]
  PROVE  \A p \in PlatformRequests : platformOp'[p] = IF p = o THEN new ELSE platformOp[p]
BY DEF TenantTyped

\* Requests that overlapped stay so, and so do the excuses made of them.
LEMMA OverlapsKept ==
  ASSUME TenantTyped, NEW o \in PlatformRequests, NEW new, GoesOn(o, new)
  PROVE  /\ \A p \in PlatformRequests : (Writes(p)' <=> Writes(p)) /\ (Deletes(p)' <=> Deletes(p))
         /\ TogetherIsBeside => TogetherIsBeside'
         /\ StepsFit => StepsFit'
         /\ TrailExcused => TrailExcused'
         /\ EditedBeside => EditedBeside'
         /\ new.at \notin {"load", "save"} \/ platformOp[o].at = "load" => (RevocationExcused => RevocationExcused')
<1> USE DEF GoesOn
<1>1. \A p \in PlatformRequests : platformOp'[p] = IF p = o THEN new ELSE platformOp[p]
  BY OpsAfter
<1>2. \A p \in PlatformRequests : platformOp'[p].kind = platformOp[p].kind
  BY <1>1
<1>3. \A p \in PlatformRequests : (Writes(p)' <=> Writes(p)) /\ (Deletes(p)' <=> Deletes(p))
  BY <1>2 DEF Writes, Deletes
<1>4. TogetherIsBeside => TogetherIsBeside'
  BY <1>1 DEF TogetherIsBeside, Busy
<1>5. StepsFit => StepsFit'
  BY <1>1 DEF StepsFit, StepFits
<1>6. ASSUME TrailExcused PROVE TrailExcused'
  <2>1. CASE \E p \in PlatformRequests : OpAt(p, "crashed")
    <3>1. PICK p \in PlatformRequests : platformOp[p].at = "crashed"
      BY <2>1 DEF OpAt
    <3>2. platformOp'[p].at = "crashed"
      BY <1>1, <3>1
    <3> QED BY <3>2 DEF TrailExcused, OpAt
  <2>2. CASE \E pair \in beside : \E p \in pair : Writes(p)
    BY <1>3, <2>2 DEF TrailExcused, TenantTyped
  <2> QED BY <1>6, <2>1, <2>2 DEF TrailExcused
<1>7. EditedBeside => EditedBeside'
  BY <1>2, <1>3 DEF EditedBeside
<1>8. ASSUME new.at \notin {"load", "save"} \/ platformOp[o].at = "load", RevocationExcused PROVE RevocationExcused'
  <2>1. CASE \E p \in PlatformRequests : Asked(platformOp[p])
    <3>1. PICK p \in PlatformRequests : Asked(platformOp[p])
      BY <2>1
    <3>2. Asked(platformOp'[p])
      BY <1>1, <1>8, <3>1 DEF Asked
    <3> QED BY <3>2 DEF RevocationExcused
  <2>2. CASE \E pair \in beside : \E p \in pair : Deletes(p)
    BY <1>3, <2>2 DEF RevocationExcused, TenantTyped
  <2> QED BY <1>8, <2>1, <2>2 DEF RevocationExcused
<1> QED BY <1>3, <1>4, <1>5, <1>6, <1>7, <1>8

\* What the requests' own records keep when one of them goes on.
LEMMA GoesOnKeeps ==
  ASSUME TenantInv, NEW o \in PlatformRequests, NEW new, GoesOn(o, new),
         RecordsAsBefore(o, new) \/ MeansToSave(o, new), UNCHANGED <<tenant, trail, decided>>
  PROVE  DecisionFits' /\ EditsKeepStatus' /\ TrailFits' /\ RecordedOnce'
<1> USE DEF TenantInv, RequestsFit
<1>1. \A p \in PlatformRequests : platformOp'[p] = IF p = o THEN new ELSE platformOp[p]
  BY OpsAfter DEF GoesOn
<1>2. \A p \in PlatformRequests : Writes(p)' <=> Writes(p)
  BY OverlapsKept
<1>3. new.kind = platformOp[o].kind /\ platformOp[o].at \notin {"idle", "done", "crashed"} /\ new.at # "idle"
  BY DEF GoesOn
<1>4. beside' = beside
  BY DEF GoesOn
<1>5. MeansToSave(o, new) =>
        /\ platformOp[o].kind \in Decisions \cup Edits
        /\ new.row.status # "none"
        /\ ~Unrecorded(platformOp[o]) /\ ~Unrecorded(new)
        /\ ~Parted(platformOp[o])
        /\ NotYet(platformOp[o])
  BY DEF MeansToSave, StepsFit, StepFits, GoesOn, Unrecorded, Parted, NotYet
<1>6. DecisionFits'
  <2> SUFFICES ASSUME decided # 0 PROVE DecisionFits'
    BY DEF DecisionFits
  <2>1. decided \in PlatformRequests
    BY DEF TenantTyped
  <2>2. /\ platformOp'[decided].kind \in Decisions
        /\ platformOp'[decided].at \notin {"idle", "load", "save"}
        /\ platformOp'[decided].row = platformOp[decided].row
    BY <1>1, <1>3, <2>1 DEF DecisionFits, RecordsAsBefore, MeansToSave
  <2>3. CASE Contested
    BY <1>2, <1>4, <2>2, <2>3 DEF DecisionFits, Contested
  <2>4. CASE Standing
    <3>1. ASSUME NEW p \in PlatformRequests, platformOp'[p].at = "save", platformOp'[p].kind \in Edits
          PROVE  platformOp'[p].row.status = platformOp[decided].row.status
      <4>1. CASE p = o
        BY <1>1, <1>5, <2>4, <3>1, <4>1 DEF RecordsAsBefore, MeansToSave, Standing
      <4>2. CASE p # o
        BY <1>1, <2>4, <3>1, <4>2 DEF Standing, OpAt
      <4> QED BY <4>1, <4>2
    <3>2. Standing'
      BY <2>2, <2>4, <3>1 DEF Standing, OpAt
    <3> QED BY <2>2, <3>2 DEF DecisionFits
  <2> QED BY <2>3, <2>4 DEF DecisionFits
<1>7. EditsKeepStatus'
  <2>1. CASE EditedBeside
    BY <2>1, OverlapsKept DEF EditsKeepStatus
  <2>2. CASE ~EditedBeside
    <3>1. ASSUME NEW p \in PlatformRequests, platformOp'[p].at = "save", platformOp'[p].kind = "edit"
          PROVE  platformOp'[p].row.status = tenant.status \/ tenant.status = "none"
      <4>1. CASE p = o
        BY <1>1, <3>1, <4>1 DEF RecordsAsBefore, MeansToSave, Edits
      <4>2. CASE p # o
        BY <1>1, <2>2, <3>1, <4>2 DEF EditsKeepStatus, OpAt
      <4> QED BY <4>1, <4>2
    <3> QED BY <3>1 DEF EditsKeepStatus, OpAt
  <2> QED BY <2>1, <2>2
<1>8. TrailFits'
  <2>1. CASE TrailExcused
    BY <2>1, OverlapsKept DEF TrailFits
  <2>2. CASE new.at = "crashed"
    BY <1>1, <2>2 DEF TrailFits, TrailExcused, OpAt
  <2>3. CASE TrailKept /\ new.at # "crashed"
    <3>1. \A p \in PlatformRequests :
            /\ Unrecorded(platformOp'[p]) <=> Unrecorded(platformOp[p])
            /\ Unrecorded(platformOp[p]) =>
                 platformOp'[p].row = platformOp[p].row /\ platformOp'[p].was = platformOp[p].was
      BY <1>1, <1>5, <2>3 DEF RecordsAsBefore
    <3>2. ASSUME NEW p \in PlatformRequests, platformOp'[p].at = "save"
          PROVE  platformOp'[p].was.status = tenant.status
      <4>1. CASE p = o
        BY <1>1, <3>2, <4>1 DEF RecordsAsBefore, MeansToSave
      <4>2. CASE p # o
        BY <1>1, <2>3, <3>2, <4>2 DEF TrailKept, OpAt
      <4> QED BY <4>1, <4>2
    <3>3. \A n \in 1..Len(trail) - 1 : trail'[n + 1].from.status = trail'[n].to.status
      BY <2>3 DEF TrailKept
    <3>4. (\A p \in PlatformRequests : ~Unrecorded(platformOp'[p])) => EndsWith(tenant.status)
      BY <2>3, <3>1 DEF TrailKept
    <3>5. \A p \in PlatformRequests : Unrecorded(platformOp'[p]) =>
            platformOp'[p].row.status = tenant.status /\ EndsWith(platformOp'[p].was.status)
      BY <2>3, <3>1 DEF TrailKept
    <3>6. \A p, q \in PlatformRequests : Unrecorded(platformOp'[p]) /\ Unrecorded(platformOp'[q]) => p = q
      BY <2>3, <3>1 DEF TrailKept
    <3>7. TrailKept'
      BY <3>2, <3>3, <3>4, <3>5, <3>6 DEF TrailKept, EndsWith, OpAt
    <3> QED BY <3>7 DEF TrailFits
  <2> QED BY <2>1, <2>2, <2>3 DEF TrailFits
<1>9. RecordedOnce'
  <2>1. ASSUME NEW n \in DOMAIN trail
        PROVE  IF SaysGone(n) THEN Parted(platformOp'[trail[n].by]) ELSE ~NotYet(platformOp'[trail[n].by])
    <3>1. trail[n].by \in PlatformRequests
      <4>1. trail \in Seq(TrailRows)
        BY DEF TenantTyped
      <4>2. trail[n] \in TrailRows
        BY <4>1
      <4> QED BY <4>2 DEF TrailRows
    <3>2. IF SaysGone(n) THEN Parted(platformOp[trail[n].by]) ELSE ~NotYet(platformOp[trail[n].by])
      BY DEF RecordedOnce
    <3>3. Parted(platformOp[o]) => Parted(new)
      BY <1>5 DEF RecordsAsBefore
    <3>4. ~NotYet(platformOp[o]) => ~NotYet(new)
      BY <1>3, <1>5 DEF RecordsAsBefore, NotYet, Unrecorded
    <3> QED BY <1>1, <3>1, <3>2, <3>3, <3>4
  <2>2. \A m, n \in DOMAIN trail : m # n /\ trail[m].by = trail[n].by => SaysGone(m) # SaysGone(n)
    BY DEF RecordedOnce
  <2>3. \A n : SaysGone(n)' <=> SaysGone(n)
    BY DEF SaysGone
  <2> QED BY <2>1, <2>2, <2>3 DEF RecordedOnce
<1> QED BY <1>6, <1>7, <1>8, <1>9

\* The sessions of the users, when a request goes on beside them or revokes them.
LEMMA SessionsStayFit ==
  ASSUME TenantInv, NEW o \in PlatformRequests, NEW new, GoesOn(o, new),
         RecordsAsBefore(o, new) \/ MeansToSave(o, new), UNCHANGED tenant,
         tenantSessions' = tenantSessions \/ platformOp[o].at \in {"revoke", "sessions"},
         new.at = "revoke" => Doomed
  PROVE  SessionsFit'
<1> USE DEF TenantInv, RequestsFit
<1>1. \A p \in PlatformRequests : platformOp'[p] = IF p = o THEN new ELSE platformOp[p]
  BY OpsAfter DEF GoesOn
<1>2. RevocationExcused => RevocationExcused'
  BY OverlapsKept DEF RecordsAsBefore, MeansToSave
<1>3. CASE RevocationExcused
  BY <1>2, <1>3 DEF SessionsFit
<1>4. CASE platformOp[o].at = "sessions"
  <2>1. platformOp[o].kind = "revokeAll"
    BY <1>4 DEF StepsFit, StepFits
  <2> QED BY <1>3, <2>1 DEF RevocationExcused, Asked
<1>5. CASE ~RevocationExcused /\ platformOp[o].at # "sessions"
  <2>1. /\ tenantSessions = "revoked" => Doomed /\ \A p \in PlatformRequests : StaysDoomed(platformOp[p])
        /\ \A p \in PlatformRequests : OpAt(p, "revoke") => Doomed
    BY <1>5 DEF SessionsFit
  <2>2. ASSUME platformOp[o].at = "revoke"
        PROVE  Doomed /\ \A p \in PlatformRequests : StaysDoomed(platformOp[p])
    <3>1. Doomed
      BY <2>1, <2>2 DEF OpAt
    <3>2. ASSUME NEW p \in PlatformRequests, platformOp[p].at = "save" PROVE FALSE
      <4>1. {o, p} \in beside
        BY <2>2, <3>2 DEF TogetherIsBeside, Busy
      <4>2. Deletes(o)
        BY <2>2 DEF StepsFit, StepFits, Deletes
      <4> QED BY <1>5, <4>1, <4>2 DEF RevocationExcused
    <3> QED BY <3>1, <3>2 DEF StaysDoomed
  <2>3. tenantSessions' = "revoked" => Doomed /\ \A p \in PlatformRequests : StaysDoomed(platformOp[p])
    BY <1>5, <2>1, <2>2
  <2>4. Doomed => StaysDoomed(new)
    BY DEF RecordsAsBefore, MeansToSave, StaysDoomed
  <2>5. tenantSessions' = "revoked" => Doomed /\ \A p \in PlatformRequests : StaysDoomed(platformOp'[p])
    BY <1>1, <2>3, <2>4
  <2>6. \A p \in PlatformRequests : platformOp'[p].at = "revoke" => Doomed
    BY <1>1, <2>1 DEF OpAt
  <2>7. Doomed' <=> Doomed
    BY DEF Doomed
  <2> QED BY <2>5, <2>6, <2>7 DEF SessionsFit, OpAt
<1> QED BY <1>3, <1>4, <1>5

\* A request goes on; the cached status is dropped, or nobody drops it later than before.
LEMMA GoesOnStep ==
  ASSUME TenantInv, NEW o \in PlatformRequests, NEW new \in PlatformOps, GoesOn(o, new),
         RecordsAsBefore(o, new) \/ MeansToSave(o, new), UNCHANGED <<tenant, trail, decided, visitor>>,
         tenantSessions' = tenantSessions
           \/ (tenantSessions' = "revoked" /\ platformOp[o].at \in {"revoke", "sessions"}),
         new.at = "revoke" => Doomed,
         stateCache' = NoCache \/ (stateCache' = stateCache /\ (BeforeForgetting(o) => new.at = "crashed")),
         tenantPlot'.kinds = tenantPlot.kinds, OneSession', LockTypeOK'
  PROVE  TenantInv'
<1> USE DEF TenantInv, RequestsFit
<1>1. \A p \in PlatformRequests : platformOp'[p] = IF p = o THEN new ELSE platformOp[p]
  BY OpsAfter DEF GoesOn
<1>2. TenantTyped'
  <2>1. platformOp' \in [PlatformRequests -> PlatformOps]
    BY DEF TenantTyped, GoesOn
  <2>2. NoCache \in [status : Statuses, raced : BOOLEAN]
    BY DEF NoCache, Statuses
  <2>3. stateCache' \in [status : Statuses, raced : BOOLEAN]
    BY <2>2 DEF TenantTyped
  <2> QED BY <2>1, <2>3 DEF TenantTyped, GoesOn
<1>3. StepsFit' /\ TogetherIsBeside'
  BY OverlapsKept
<1>4. DecisionFits' /\ EditsKeepStatus' /\ TrailFits' /\ RecordedOnce'
  BY GoesOnKeeps
<1>5. SessionsFit'
  BY SessionsStayFit
<1>6. VisitorsKnow'
  BY DEF VisitorsKnow
<1>7. CacheFollowsTenant'
  <2>1. CASE stateCache' = NoCache
    BY <2>1 DEF CacheFollowsTenant, NoCache
  <2>2. CASE stateCache' = stateCache /\ (BeforeForgetting(o) => new.at = "crashed")
    <3>1. CASE stateCache.status \in {"none", tenant.status} \/ stateCache.raced
      BY <2>2, <3>1 DEF CacheFollowsTenant
    <3>2. CASE \E p \in PlatformRequests : BeforeForgetting(p)
      <4>1. PICK p \in PlatformRequests : BeforeForgetting(p)
        BY <3>2
      <4>2. BeforeForgetting(p)'
        BY <1>1, <2>2, <4>1 DEF BeforeForgetting, OpAt
      <4> QED BY <4>2 DEF CacheFollowsTenant
    <3>3. CASE EditedBeside
      <4>1. EditedBeside'
        BY <3>3, OverlapsKept
      <4> QED BY <4>1 DEF CacheFollowsTenant, EditedBeside, Writes, Apart
    <3> QED BY <3>1, <3>2, <3>3 DEF CacheFollowsTenant, EditedBeside, Writes, Apart
  <2> QED BY <2>1, <2>2
<1> QED BY <1>2, <1>3, <1>4, <1>5, <1>6, <1>7

LEMMA HeldTyped ==
  ASSUME TenantTyped, NEW o \in PlatformRequests
  PROVE  /\ platformOp[o].kind \in PlatformKinds /\ platformOp[o].at \in PlatformSteps
         /\ platformOp[o].row \in TenantRows /\ platformOp[o].was \in TenantRows
         /\ platformOp[o] \in PlatformOps
<1>1. platformOp[o] \in PlatformOps
  BY DEF TenantTyped
<1> QED BY <1>1 DEF PlatformOps

\* A request that only takes its next step.
LEMMA StepTyped ==
  ASSUME TenantTyped, NEW o \in PlatformRequests, NEW step \in PlatformSteps, OpGoes(o, step)
  PROVE  \E new \in PlatformOps :
           /\ platformOp' = [platformOp EXCEPT ![o] = new]
           /\ new.kind = platformOp[o].kind /\ new.at = step
           /\ new.row = platformOp[o].row /\ new.was = platformOp[o].was
<1>1. platformOp[o] \in PlatformOps
  BY HeldTyped
<1> DEFINE new == [platformOp[o] EXCEPT !.at = step]
<1>2. new \in PlatformOps /\ new.kind = platformOp[o].kind /\ new.at = step
        /\ new.row = platformOp[o].row /\ new.was = platformOp[o].was
  BY <1>1 DEF PlatformOps
<1>3. platformOp' = [platformOp EXCEPT ![o] = new]
  BY DEF OpGoes, TenantTyped
<1> QED BY <1>2, <1>3

LEMMA LoadTenantStep == ASSUME TenantInv, NEW o \in PlatformRequests, LoadTenant(o), UNCHANGED lockVars PROVE TenantInv'
<1> USE DEF TenantInv, RequestsFit
<1> DEFINE op == platformOp[o]
<1>1. op.at = "load" /\ op.kind \in Decisions \cup Edits
  BY DEF LoadTenant, OpAt, StepsFit, StepFits
<1>2. op.kind \in PlatformKinds /\ op.row \in TenantRows /\ op.was \in TenantRows /\ tenant \in TenantRows
  BY HeldTyped DEF TenantTyped
<1>3. OneSession' /\ LockTypeOK'
  BY DEF LoadTenant, OneSession, lockVars, LockTypeOK
<1>4. CASE Refused(op.kind, tenant)
  <2> DEFINE step == "done"
  <2>0. OpGoes(o, step) /\ step \in PlatformSteps
    BY <1>4 DEF LoadTenant, OpGoes, PlatformSteps
  <2>1. PICK new \in PlatformOps :
          /\ platformOp' = [platformOp EXCEPT ![o] = new]
          /\ new.kind = platformOp[o].kind /\ new.at = step
          /\ new.row = platformOp[o].row /\ new.was = platformOp[o].was
    BY <2>0, StepTyped
  <2>2. GoesOn(o, new)
    BY <1>1, <2>1 DEF LoadTenant, GoesOn, StepsFit, StepFits
  <2>3. RecordsAsBefore(o, new)
    BY <1>1, <2>1 DEF RecordsAsBefore, Unrecorded, Parted
  <2> QED BY <1>1, <1>3, <2>1, <2>2, <2>3, GoesOnStep DEF LoadTenant, BeforeForgetting, OpAt
<1>5. CASE ~Refused(op.kind, tenant)
  <2>1. PICK row : row = Decide(op.kind, tenant)
    OBVIOUS
  <2>2. tenant.status # "none" /\ ~(op.kind = "reactivate" /\ tenant.status = "PENDING_DELETION" /\ tenant.scheduled = "due")
          /\ ~(op.kind \in {"delete", "deleteNow"} /\ tenant.status = "PENDING_DELETION")
          /\ ~(op.kind = "cancel" /\ tenant.scheduled # "later")
    BY <1>5 DEF Refused
  <2>3. row \in TenantRows
    BY <1>1, <1>2, <2>1 DEF Decide, TenantRows, Statuses, TenantStatuses
  <2>4. row.status # "none" /\ (op.kind \in Edits => row = tenant)
    BY <1>1, <1>2, <2>1, <2>2 DEF Decide, TenantRows, Decisions, Edits
  <2>5. Doomed => op.kind \in {"suspend", "grace", "lock"} \/ DeletionDue(row)
    BY <1>1, <1>2, <2>1, <2>2 DEF Decide, TenantRows, Doomed, DeletionDue, Decisions, Edits
  <2>6. PICK new : new = [kind |-> op.kind, at |-> "save", was |-> tenant, row |-> row]
    OBVIOUS
  <2>7. platformOp' = [platformOp EXCEPT ![o] = new]
    BY <1>5, <2>1, <2>6 DEF LoadTenant
  <2>8. new \in PlatformOps
    BY <1>2, <2>3, <2>6 DEF PlatformOps, PlatformSteps
  <2>9. GoesOn(o, new)
    BY <1>1, <2>4, <2>6, <2>7 DEF LoadTenant, GoesOn, StepFits, Decisions, Edits
  <2>10. MeansToSave(o, new)
    BY <1>1, <2>4, <2>5, <2>6 DEF MeansToSave
  <2>11. new.at = "save"
    BY <2>6
  <2> QED BY <1>1, <1>3, <2>8, <2>9, <2>10, <2>11, GoesOnStep DEF LoadTenant, BeforeForgetting, OpAt
<1> QED BY <1>4, <1>5

LEMMA LockKept == ASSUME LockTypeOK, UNCHANGED lockVars PROVE LockTypeOK'
BY DEF lockVars, LockTypeOK

LEMMA ForgetStateStep == ASSUME TenantInv, NEW o \in PlatformRequests, ForgetState(o), UNCHANGED lockVars PROVE TenantInv'
<1> USE DEF TenantInv, RequestsFit
<1> DEFINE op == platformOp[o]
           step == IF op.row.status = "none" THEN "leave" ELSE "record"
<1>1. OpGoes(o, step) /\ step \in PlatformSteps
  BY DEF ForgetState, PlatformSteps
<1>2. PICK new \in PlatformOps :
        /\ platformOp' = [platformOp EXCEPT ![o] = new]
        /\ new.kind = platformOp[o].kind /\ new.at = step
        /\ new.row = platformOp[o].row /\ new.was = platformOp[o].was
  BY <1>1, StepTyped
<1>3. op.at = "forget" /\ StepFits(op)
  BY DEF ForgetState, OpAt, StepsFit
<1>4. GoesOn(o, new)
  BY <1>2, <1>3 DEF ForgetState, GoesOn, StepFits
<1>5. RecordsAsBefore(o, new)
  BY <1>2, <1>3 DEF RecordsAsBefore, Unrecorded, Parted
<1>6. OneSession' /\ LockTypeOK'
  BY LockKept DEF ForgetState, OneSession
<1> QED BY <1>2, <1>4, <1>5, <1>6, GoesOnStep DEF ForgetState

LEMMA EnterDeletionStep == ASSUME TenantInv, NEW o \in PlatformRequests, EnterDeletion(o) PROVE TenantInv'
<1> USE DEF TenantInv, RequestsFit
<1>1. PICK step \in {"check", "done"} : OpGoes(o, step)
  BY DEF EnterDeletion
<1>2. step \in PlatformSteps
  BY DEF PlatformSteps
<1>3. PICK new \in PlatformOps :
        /\ platformOp' = [platformOp EXCEPT ![o] = new]
        /\ new.kind = platformOp[o].kind /\ new.at = step
        /\ new.row = platformOp[o].row /\ new.was = platformOp[o].was
  BY <1>1, <1>2, StepTyped
<1>4. platformOp[o].at = "enter" /\ StepFits(platformOp[o])
  BY DEF EnterDeletion, OpAt, StepsFit
<1>5. GoesOn(o, new)
  BY <1>3, <1>4 DEF EnterDeletion, GoesOn, StepFits
<1>6. RecordsAsBefore(o, new)
  BY <1>3, <1>4 DEF RecordsAsBefore, Unrecorded, Parted
<1>7. LockTypeOK'
  <2>1. CASE UNCHANGED lockVars
    BY <2>1, LockKept
  <2>2. CASE Acquire(o, DeletionLock)
    BY <2>2, PlatformAssumption DEF Acquire, LockTypeOK
  <2> QED BY <2>1, <2>2 DEF EnterDeletion
<1>8. OneSession' /\ ~BeforeForgetting(o) /\ new.at # "revoke"
  BY <1>3, <1>4 DEF EnterDeletion, OneSession, BeforeForgetting, OpAt
<1> QED BY <1>3, <1>5, <1>6, <1>7, <1>8, GoesOnStep DEF EnterDeletion

LEMMA CheckDeletionStep ==
  ASSUME TenantInv, NEW o \in PlatformRequests, CheckDeletion(o), UNCHANGED lockVars PROVE TenantInv'
<1> USE DEF TenantInv, RequestsFit
<1> DEFINE op == platformOp[o]
           step == IF DeletionDue(tenant) THEN "revoke" ELSE "leave"
<1>1. op \in PlatformOps /\ op.kind \in PlatformKinds /\ op.row \in TenantRows /\ tenant \in TenantRows
  BY HeldTyped DEF TenantTyped
<1>2. PICK new : new = [op EXCEPT !.at = step, !.was = tenant]
  OBVIOUS
<1>3. new.kind = op.kind /\ new.at = step /\ new.row = op.row /\ new.was = tenant
  BY <1>1, <1>2 DEF PlatformOps
<1>4. new \in PlatformOps
  BY <1>1, <1>2 DEF PlatformOps, PlatformSteps
<1>5. platformOp' = [platformOp EXCEPT ![o] = new]
  BY <1>2 DEF CheckDeletion, TenantTyped
<1>6. op.at = "check" /\ StepFits(op)
  BY DEF CheckDeletion, OpAt, StepsFit
<1>7. GoesOn(o, new)
  BY <1>3, <1>5, <1>6 DEF CheckDeletion, GoesOn, StepFits, DeletionDue
<1>8. RecordsAsBefore(o, new)
  BY <1>3, <1>6 DEF RecordsAsBefore, Unrecorded, Parted
<1>9. OneSession' /\ LockTypeOK' /\ ~BeforeForgetting(o) /\ (new.at = "revoke" => Doomed)
  BY <1>3, <1>6, LockKept DEF CheckDeletion, OneSession, BeforeForgetting, OpAt, Doomed
<1> QED BY <1>4, <1>7, <1>8, <1>9, GoesOnStep DEF CheckDeletion

LEMMA RevokeTenantSessionsStep ==
  ASSUME TenantInv, NEW o \in PlatformRequests, RevokeTenantSessions(o), UNCHANGED lockVars PROVE TenantInv'
<1> USE DEF TenantInv, RequestsFit
<1> DEFINE op == platformOp[o]
           step == IF OpAt(o, "revoke") THEN "purge" ELSE "done"
<1>1. OpGoes(o, step) /\ step \in PlatformSteps
  BY DEF RevokeTenantSessions, PlatformSteps
<1>2. PICK new \in PlatformOps :
        /\ platformOp' = [platformOp EXCEPT ![o] = new]
        /\ new.kind = platformOp[o].kind /\ new.at = step
        /\ new.row = platformOp[o].row /\ new.was = platformOp[o].was
  BY <1>1, StepTyped
<1>3. op.at \in {"revoke", "sessions"} /\ StepFits(op)
  BY DEF RevokeTenantSessions, OpAt, StepsFit
<1>4. GoesOn(o, new)
  BY <1>2, <1>3 DEF RevokeTenantSessions, GoesOn, StepFits, OpAt
<1>5. RecordsAsBefore(o, new)
  BY <1>2, <1>3 DEF RecordsAsBefore, Unrecorded, Parted
<1>6. OneSession' /\ LockTypeOK' /\ ~BeforeForgetting(o) /\ new.at # "revoke"
  BY <1>2, <1>3, LockKept DEF RevokeTenantSessions, OneSession, BeforeForgetting, OpAt
<1> QED BY <1>2, <1>3, <1>4, <1>5, <1>6, GoesOnStep DEF RevokeTenantSessions

LEMMA LeaveDeletionStep == ASSUME TenantInv, NEW o \in PlatformRequests, LeaveDeletion(o) PROVE TenantInv'
<1> USE DEF TenantInv, RequestsFit
<1> DEFINE op == platformOp[o]
           step == "done"
<1>1. OpGoes(o, step) /\ step \in PlatformSteps
  BY DEF LeaveDeletion, PlatformSteps
<1>2. PICK new \in PlatformOps :
        /\ platformOp' = [platformOp EXCEPT ![o] = new]
        /\ new.kind = platformOp[o].kind /\ new.at = step
        /\ new.row = platformOp[o].row /\ new.was = platformOp[o].was
  BY <1>1, StepTyped
<1>3. op.at \in {"leave", "failed"} /\ StepFits(op)
  BY DEF LeaveDeletion, OpAt, StepsFit
<1>4. GoesOn(o, new)
  BY <1>2, <1>3 DEF LeaveDeletion, GoesOn, StepFits
<1>5. RecordsAsBefore(o, new)
  BY <1>2, <1>3 DEF RecordsAsBefore, Unrecorded, Parted
<1>6. LockTypeOK'
  <2>1. holding[o] \in Resources
    BY PlatformAssumption DEF LeaveDeletion, Release, LockTypeOK
  <2> QED BY <2>1 DEF LeaveDeletion, Release, Released, LockTypeOK
<1>7. OneSession' /\ ~BeforeForgetting(o) /\ new.at # "revoke"
  BY <1>2, <1>3 DEF LeaveDeletion, OneSession, BeforeForgetting, OpAt
<1> QED BY <1>2, <1>4, <1>5, <1>6, <1>7, GoesOnStep DEF LeaveDeletion

LEMMA CrashOpStep == ASSUME TenantInv, NEW o \in PlatformRequests, CrashOp(o) PROVE TenantInv'
<1> USE DEF TenantInv, RequestsFit
<1> DEFINE op == platformOp[o]
           step == "crashed"
<1>1. OpGoes(o, step) /\ step \in PlatformSteps
  BY DEF CrashOp, PlatformSteps
<1>2. PICK new \in PlatformOps :
        /\ platformOp' = [platformOp EXCEPT ![o] = new]
        /\ new.kind = platformOp[o].kind /\ new.at = step
        /\ new.row = platformOp[o].row /\ new.was = platformOp[o].was
  BY <1>1, StepTyped
<1>3. op.at \notin {"idle", "done", "crashed"} /\ StepFits(op)
  BY DEF CrashOp, Busy, OpAt, StepsFit
<1>4. GoesOn(o, new)
  BY <1>2, <1>3 DEF CrashOp, GoesOn, StepFits
<1>5. RecordsAsBefore(o, new)
  BY <1>2, <1>3 DEF RecordsAsBefore, Unrecorded, Parted
<1>6. LockTypeOK'
  BY DEF CrashOp, Abandon, LockTypeOK
<1>7. OneSession' /\ tenantPlot'.kinds = tenantPlot.kinds
  BY DEF CrashOp, OneSession
<1> QED BY <1>2, <1>4, <1>5, <1>6, <1>7, GoesOnStep DEF CrashOp

LEMMA LookForSessionStep ==
  ASSUME TenantInv, NEW o \in PlatformRequests, LookForSession(o), UNCHANGED lockVars PROVE TenantInv'
<1> USE DEF TenantInv, RequestsFit
<1> DEFINE op == platformOp[o]
           step == IF impersonations = {} THEN "open" ELSE "done"
<1>1. OpGoes(o, step) /\ step \in PlatformSteps
  BY DEF LookForSession, PlatformSteps
<1>2. PICK new \in PlatformOps :
        /\ platformOp' = [platformOp EXCEPT ![o] = new]
        /\ new.kind = platformOp[o].kind /\ new.at = step
        /\ new.row = platformOp[o].row /\ new.was = platformOp[o].was
  BY <1>1, StepTyped
<1>3. op.at = "look" /\ StepFits(op)
  BY DEF LookForSession, OpAt, StepsFit
<1>4. GoesOn(o, new)
  BY <1>2, <1>3 DEF LookForSession, GoesOn, StepFits
<1>5. RecordsAsBefore(o, new)
  BY <1>2, <1>3 DEF RecordsAsBefore, Unrecorded, Parted
<1>6. OneSession' /\ LockTypeOK' /\ ~BeforeForgetting(o) /\ new.at # "revoke"
  BY <1>2, <1>3, LockKept DEF LookForSession, OneSession, BeforeForgetting, OpAt
<1> QED BY <1>2, <1>4, <1>5, <1>6, GoesOnStep DEF LookForSession

LEMMA ImpersonationStep ==
  ASSUME TenantInv, NEW o \in PlatformRequests, OpenImpersonation(o) \/ EndImpersonation(o), UNCHANGED lockVars
  PROVE  TenantInv'
<1> USE DEF TenantInv, RequestsFit
<1> DEFINE op == platformOp[o]
           step == "done"
<1>1. OpGoes(o, step) /\ step \in PlatformSteps
  BY DEF OpenImpersonation, EndImpersonation, PlatformSteps
<1>2. PICK new \in PlatformOps :
        /\ platformOp' = [platformOp EXCEPT ![o] = new]
        /\ new.kind = platformOp[o].kind /\ new.at = step
        /\ new.row = platformOp[o].row /\ new.was = platformOp[o].was
  BY <1>1, StepTyped
<1>3. op.at \in {"open", "end"} /\ StepFits(op)
  BY DEF OpenImpersonation, EndImpersonation, OpAt, StepsFit
<1>4. GoesOn(o, new)
  BY <1>2, <1>3 DEF OpenImpersonation, EndImpersonation, GoesOn, StepFits
<1>5. RecordsAsBefore(o, new)
  BY <1>2, <1>3 DEF RecordsAsBefore, Unrecorded, Parted
<1>6. LockTypeOK' /\ ~BeforeForgetting(o) /\ new.at # "revoke"
  BY <1>2, <1>3, LockKept DEF BeforeForgetting, OpAt
<1>7. OneSession'
  BY DEF OneSession, OpenImpersonation, EndImpersonation, MayInsertSession
<1> QED BY <1>2, <1>4, <1>5, <1>6, <1>7, GoesOnStep DEF OpenImpersonation, EndImpersonation

LEMMA BeginOpStep == ASSUME TenantInv, NEW o \in PlatformRequests, BeginOp(o), UNCHANGED lockVars PROVE TenantInv'
<1> USE DEF TenantInv, RequestsFit
<1> DEFINE op == platformOp[o]
<1>1. op \in PlatformOps /\ op.kind = "none" /\ op.at = "idle" /\ op.row.status = "none"
        /\ op.row \in TenantRows /\ op.was \in TenantRows
  BY HeldTyped DEF BeginOp, OpAt, StepsFit, StepFits
<1>2. PICK kind \in tenantPlot.kinds :
        platformOp' = [platformOp EXCEPT ![o].kind = kind, ![o].at = FirstStepOf(kind)]
  BY DEF BeginOp
<1>3. kind \in PlatformKinds /\ kind # "none"
  BY DEF TenantTyped
<1>4. PICK step : step = FirstStepOf(kind)
  OBVIOUS
<1>5. \/ kind \in Decisions \cup Edits /\ step = "load"
      \/ kind = "cron" /\ step = "enter"
      \/ kind = "revokeAll" /\ step = "sessions"
      \/ kind = "impersonate" /\ step = "look"
      \/ kind = "endImpersonation" /\ step = "end"
  BY <1>3, <1>4 DEF FirstStepOf, PlatformKinds, Decisions, Edits, OtherKinds
<1>6. PICK new : new = [op EXCEPT !.kind = kind, !.at = step]
  OBVIOUS
<1>7. new \in PlatformOps /\ new.kind = kind /\ new.at = step /\ new.row = op.row /\ new.was = op.was
  BY <1>1, <1>3, <1>5, <1>6 DEF PlatformOps, PlatformSteps
<1>8. platformOp' = [platformOp EXCEPT ![o] = new]
  BY <1>2, <1>4, <1>6 DEF TenantTyped
<1>9. \A p \in PlatformRequests : platformOp'[p] = IF p = o THEN new ELSE platformOp[p]
  BY <1>8, OpsAfter
<1>10. beside \subseteq beside' /\ beside' \subseteq SUBSET PlatformRequests
  BY DEF BeginOp, TenantTyped
<1>11. ~Unrecorded(op) /\ ~Unrecorded(new) /\ ~Parted(op) /\ NotYet(op) /\ new.at \notin {"idle", "done"}
  BY <1>1, <1>5, <1>7 DEF Unrecorded, Parted, NotYet
<1>12. \A p \in PlatformRequests :
         (Writes(p) => Writes(p)') /\ (Deletes(p) => Deletes(p)') /\ (platformOp[p].kind = "edit" => platformOp'[p].kind = "edit")
  BY <1>1, <1>9 DEF Writes, Deletes, Decisions, Edits
<1>13. \A p \in PlatformRequests : platformOp'[p].at = "save" => p # o
  BY <1>5, <1>7, <1>9
<1>14. TenantTyped'
  <2>1. platformOp' \in [PlatformRequests -> PlatformOps]
    BY <1>7, <1>8 DEF TenantTyped
  <2> QED BY <1>10, <2>1 DEF BeginOp, TenantTyped
<1>15. StepsFit'
  <2>1. StepFits(new)
    BY <1>1, <1>3, <1>5, <1>7 DEF StepFits, Decisions, Edits
  <2> QED BY <1>9, <2>1 DEF StepsFit, StepFits
<1>16. TogetherIsBeside'
  <2> SUFFICES ASSUME NEW p \in PlatformRequests, NEW q \in PlatformRequests, p # q, Busy(p)', Busy(q)'
               PROVE  {p, q} \in beside'
    BY DEF TogetherIsBeside
  <2>1. \A x \in PlatformRequests : Busy(x) => {o, x} \in beside'
    BY DEF BeginOp
  <2>2. CASE p = o
    BY <1>9, <2>1, <2>2 DEF Busy
  <2>3. CASE q = o
    <3>1. {o, p} \in beside' /\ {o, p} = {p, o}
      BY <1>9, <2>1, <2>3 DEF Busy
    <3> QED BY <2>3, <3>1
  <2>4. CASE p # o /\ q # o
    BY <1>9, <1>10, <2>4 DEF Busy, TogetherIsBeside
  <2> QED BY <2>2, <2>3, <2>4
<1>17. DecisionFits'
  <2> SUFFICES ASSUME decided # 0 PROVE DecisionFits'
    BY DEF DecisionFits, BeginOp
  <2>1. decided \in PlatformRequests /\ decided # o /\ decided' = decided /\ tenant' = tenant
    BY <1>1 DEF TenantTyped, DecisionFits, BeginOp
  <2>2. Contested => Contested'
    BY <1>10, <1>12, <2>1 DEF Contested
  <2>3. Standing => Standing'
    BY <1>9, <1>13, <2>1 DEF Standing, OpAt
  <2> QED BY <1>9, <2>1, <2>2, <2>3 DEF DecisionFits
<1>18. EditedBeside => EditedBeside'
  BY <1>10, <1>12 DEF EditedBeside
<1>19. EditsKeepStatus'
  BY <1>9, <1>13, <1>18 DEF EditsKeepStatus, OpAt, BeginOp
<1>20. TrailFits'
  <2>1. CASE TrailExcused
    <3>1. \A p \in PlatformRequests : OpAt(p, "crashed") => OpAt(p, "crashed")'
      BY <1>1, <1>9 DEF OpAt
    <3> QED BY <1>10, <1>12, <2>1, <3>1 DEF TrailFits, TrailExcused, TenantTyped
  <2>2. CASE TrailKept
    <3>1. \A p \in PlatformRequests :
            /\ Unrecorded(platformOp'[p]) <=> Unrecorded(platformOp[p])
            /\ platformOp'[p].row = platformOp[p].row /\ platformOp'[p].was = platformOp[p].was
            /\ platformOp'[p].at = "save" => platformOp[p].at = "save"
      BY <1>7, <1>9, <1>11, <1>13
    <3>2. trail' = trail /\ tenant' = tenant
      BY DEF BeginOp
    <3> QED BY <2>2, <3>1, <3>2 DEF TrailFits, TrailKept, EndsWith, OpAt
  <2> QED BY <2>1, <2>2 DEF TrailFits
<1>21. RecordedOnce'
  <2>1. trail \in Seq(TrailRows) /\ trail' = trail
    BY DEF TenantTyped, BeginOp
  <2>2. \A n \in DOMAIN trail : trail[n].by \in PlatformRequests /\ trail[n].by # o
    <3>1. \A n \in DOMAIN trail : trail[n] \in TrailRows
      BY <2>1
    <3> QED BY <1>11, <3>1 DEF TrailRows, RecordedOnce
  <2>3. \A n : SaysGone(n)' <=> SaysGone(n)
    BY <2>1 DEF SaysGone
  <2> QED BY <1>9, <2>1, <2>2, <2>3 DEF RecordedOnce
<1>22. SessionsFit'
  <2>1. RevocationExcused => RevocationExcused'
    <3>1. \A p \in PlatformRequests : Asked(platformOp[p]) => Asked(platformOp'[p])
      BY <1>1, <1>9 DEF Asked
    <3>2. (\E p \in PlatformRequests : Asked(platformOp[p])) => \E p \in PlatformRequests : Asked(platformOp'[p])
      BY <3>1
    <3>3. (\E pair \in beside : \E p \in pair : Deletes(p)) => \E pair \in beside' : \E p \in pair : Deletes(p)'
      BY <1>10, <1>12 DEF TenantTyped
    <3> QED BY <3>2, <3>3 DEF RevocationExcused
  <2>2. \A p \in PlatformRequests : StaysDoomed(platformOp[p]) => StaysDoomed(platformOp'[p])
    BY <1>9, <1>13 DEF StaysDoomed
  <2>3. \A p \in PlatformRequests : OpAt(p, "revoke")' => OpAt(p, "revoke")
    BY <1>5, <1>7, <1>9 DEF OpAt
  <2>4. tenantSessions' = tenantSessions /\ (Doomed' <=> Doomed)
    BY DEF BeginOp, Doomed
  <2> QED BY <2>1, <2>2, <2>3, <2>4 DEF SessionsFit
<1>23. VisitorsKnow' /\ OneSession' /\ LockTypeOK'
  BY LockKept DEF BeginOp, VisitorsKnow, OneSession
<1>24. CacheFollowsTenant'
  <2>1. \A p \in PlatformRequests : BeforeForgetting(p) => BeforeForgetting(p)'
    BY <1>1, <1>9 DEF BeforeForgetting, OpAt
  <2>2. stateCache' = stateCache /\ tenant' = tenant
    BY DEF BeginOp
  <2>3. (\E p \in PlatformRequests : BeforeForgetting(p)) => \E p \in PlatformRequests : BeforeForgetting(p)'
    BY <2>1
  <2> QED BY <1>18, <2>2, <2>3 DEF CacheFollowsTenant, EditedBeside, Writes, Apart
<1> QED BY <1>14, <1>15, <1>16, <1>17, <1>19, <1>20, <1>21, <1>22, <1>23, <1>24

\* Visitors that miss a change stay typed, and know that they missed it.
LEMMA VisitorsMiss ==
  ASSUME TenantTyped, visitor' = MissedByVisitors
  PROVE  visitor' \in [Visitors -> VisitorRows] /\ VisitorsKnow'
<1>1. \A v \in Visitors : visitor[v] \in VisitorRows
  BY DEF TenantTyped
<1>2. \A v \in Visitors :
        /\ visitor[v].at \in {"idle", "fetch", "remember", "answer", "admitted", "refused"}
        /\ visitor[v].status \in Statuses /\ visitor[v].raced \in BOOLEAN
  BY <1>1 DEF VisitorRows
<1>3. ASSUME NEW v \in Visitors
      PROVE  /\ visitor'[v] \in VisitorRows
             /\ visitor'[v].at = "remember" => visitor'[v].raced
  <2>1. PICK raced \in BOOLEAN : raced <=> visitor[v].raced \/ visitor[v].at = "remember"
    OBVIOUS
  <2>2. visitor'[v] = [visitor[v] EXCEPT !.raced = (visitor[v].raced \/ visitor[v].at = "remember")]
    BY DEF MissedByVisitors
  <2>3. (visitor[v].raced \/ visitor[v].at = "remember") \in BOOLEAN
    OBVIOUS
  <2>4. visitor'[v] \in VisitorRows
    BY <1>1, <2>2, <2>3 DEF VisitorRows
  <2>5. visitor'[v].at = "remember" => visitor'[v].raced
    BY <1>1, <2>2 DEF VisitorRows
  <2> QED BY <2>4, <2>5
<1>4. visitor' \in [Visitors -> VisitorRows]
  BY <1>3 DEF MissedByVisitors
<1> QED BY <1>3, <1>4 DEF VisitorsKnow

LEMMA SaveTenantStep == ASSUME TenantInv, NEW o \in PlatformRequests, SaveTenant(o), UNCHANGED lockVars PROVE TenantInv'
<1> USE DEF TenantInv, RequestsFit
<1> DEFINE op == platformOp[o]
           step == AfterSave(op.kind)
<1>1. /\ op.at = "save" /\ StepFits(op) /\ tenant' = op.row
      /\ op.kind \in Decisions \cup Edits /\ op.row.status # "none" /\ op.row \in TenantRows
      /\ ~Unrecorded(op) /\ ~Parted(op) /\ NotYet(op) /\ op.was \in TenantRows
  BY HeldTyped DEF SaveTenant, OpAt, StepsFit, StepFits, Unrecorded, Parted, NotYet
<1>2. OpGoes(o, step) /\ step \in PlatformSteps
  BY DEF SaveTenant, AfterSave, PlatformSteps
<1>3. PICK new \in PlatformOps :
        /\ platformOp' = [platformOp EXCEPT ![o] = new]
        /\ new.kind = platformOp[o].kind /\ new.at = step
        /\ new.row = platformOp[o].row /\ new.was = platformOp[o].was
  BY <1>2, StepTyped
<1>4. \A p \in PlatformRequests : platformOp'[p] = IF p = o THEN new ELSE platformOp[p]
  BY <1>3, OpsAfter
<1>5. IF op.kind = "edit" THEN new.at = "done" ELSE new.at = "forget"
  BY <1>3 DEF AfterSave
<1>6. GoesOn(o, new)
  BY <1>1, <1>3, <1>5 DEF SaveTenant, GoesOn, StepFits, Decisions, Edits
<1>7. \A p \in PlatformRequests : (Writes(p)' <=> Writes(p)) /\ (Deletes(p)' <=> Deletes(p))
  BY <1>6, OverlapsKept
<1>8. beside' = beside /\ Writes(o)
  BY <1>1 DEF SaveTenant, Writes
<1>9. \A p \in PlatformRequests : p # o /\ Busy(p) => {p, o} \in beside
  BY <1>1 DEF TogetherIsBeside, Busy
<1>10. TenantTyped'
  <2>1. platformOp' \in [PlatformRequests -> PlatformOps]
    BY <1>3 DEF TenantTyped
  <2>2. visitor' \in [Visitors -> VisitorRows]
    BY VisitorsMiss DEF SaveTenant
  <2> QED BY <1>1, <2>1, <2>2 DEF SaveTenant, TenantTyped
<1>11. StepsFit' /\ TogetherIsBeside'
  BY <1>6, OverlapsKept
<1>12. DecisionFits'
  <2>1. CASE op.kind \in Decisions
    <3>1. decided' = o
      BY <2>1 DEF SaveTenant
    <3>2. platformOp'[o].kind \in Decisions /\ platformOp'[o].at \notin {"idle", "load", "save"}
            /\ tenant'.status = platformOp'[o].row.status
      BY <1>1, <1>3, <1>4, <1>5, <2>1 DEF Decisions
    <3>3. CASE \E p \in PlatformRequests : p # o /\ Busy(p) /\ Writes(p)
      <4>1. PICK p \in PlatformRequests : {p, o} \in beside /\ Writes(p)
        BY <1>9, <3>3
      <4>2. Contested'
        BY <1>7, <1>8, <3>1, <4>1 DEF Contested
      <4> QED BY <3>1, <3>2, <4>2 DEF DecisionFits
    <3>4. CASE ~\E p \in PlatformRequests : p # o /\ Busy(p) /\ Writes(p)
      <4>1. \A p \in PlatformRequests : platformOp'[p].at = "save" => platformOp'[p].kind \notin Edits
        BY <1>4, <1>5, <3>4 DEF Busy, Writes
      <4>2. Standing'
        BY <3>1, <3>2, <4>1 DEF Standing, OpAt
      <4> QED BY <3>1, <3>2, <4>2 DEF DecisionFits
    <3> QED BY <3>3, <3>4
  <2>2. CASE op.kind \in Edits /\ decided # 0
    <3>1. decided' = decided /\ decided \in PlatformRequests /\ decided # o
      BY <1>1, <2>2 DEF SaveTenant, Decisions, Edits, DecisionFits, TenantTyped
    <3>2. Contested => Contested'
      BY <1>7, <1>8, <3>1 DEF Contested
    <3>3. ASSUME Standing PROVE Standing'
      <4>1. op.row.status = platformOp[decided].row.status
        BY <1>1, <2>2, <3>3 DEF Standing, OpAt
      <4>2. \A p \in PlatformRequests : platformOp'[p].at = "save" => p # o
        BY <1>4, <1>5
      <4> QED BY <1>1, <1>4, <3>1, <3>3, <4>1, <4>2 DEF Standing, OpAt
    <3> QED BY <1>4, <2>2, <3>1, <3>2, <3>3 DEF DecisionFits
  <2>3. CASE op.kind \in Edits /\ decided = 0
    BY <2>3 DEF SaveTenant, Decisions, Edits, DecisionFits
  <2> QED BY <1>1, <2>1, <2>2, <2>3
<1>13. EditsKeepStatus'
  <2>1. CASE \E p \in PlatformRequests : platformOp'[p].at = "save" /\ platformOp'[p].kind = "edit"
    <3>1. PICK p \in PlatformRequests : platformOp'[p].at = "save" /\ platformOp'[p].kind = "edit"
      BY <2>1
    <3>2. p # o /\ Busy(p)
      BY <1>4, <1>5, <3>1 DEF Busy
    <3>3. EditedBeside
      BY <1>4, <1>8, <1>9, <3>1, <3>2 DEF EditedBeside
    <3> QED BY <1>6, <3>3, OverlapsKept DEF EditsKeepStatus
  <2>2. CASE ~\E p \in PlatformRequests : platformOp'[p].at = "save" /\ platformOp'[p].kind = "edit"
    BY <2>2 DEF EditsKeepStatus, OpAt
  <2> QED BY <2>1, <2>2
<1>14. TrailFits'
  <2>1. CASE TrailExcused
    BY <1>6, <2>1, OverlapsKept DEF TrailFits
  <2>2. CASE ~TrailExcused
    <3>1. TrailKept
      BY <2>2 DEF TrailFits
    <3>2. \A p \in PlatformRequests : p # o => ~Busy(p) /\ ~Unrecorded(platformOp[p]) /\ platformOp[p].at # "save"
      BY <1>8, <1>9, <2>2 DEF TrailExcused, Busy, Unrecorded
    <3>3. op.was.status = tenant.status
      BY <1>1, <3>1 DEF TrailKept, OpAt
    <3>4. EndsWith(tenant.status)
      BY <1>1, <3>1, <3>2 DEF TrailKept
    <3>5. trail' = trail
      BY DEF SaveTenant
    <3>6. \A p \in PlatformRequests : platformOp'[p].at # "save"
      BY <1>4, <1>5, <3>2
    <3>7. \A p \in PlatformRequests : Unrecorded(platformOp'[p]) => p = o
      BY <1>4, <3>2
    <3>8. IF op.kind = "edit" THEN ~Unrecorded(new) /\ tenant'.status = tenant.status ELSE Unrecorded(new)
      BY <1>1, <1>3, <1>5, <3>3 DEF Unrecorded, StepFits, Edits
    <3>9. platformOp'[o] = new
      BY <1>4
    <3>10. TrailKept'
      BY <1>1, <1>3, <3>1, <3>3, <3>4, <3>5, <3>6, <3>7, <3>8, <3>9 DEF TrailKept, EndsWith, OpAt
    <3> QED BY <3>10 DEF TrailFits
  <2> QED BY <2>1, <2>2
<1>15. RecordedOnce'
  <2>1. trail \in Seq(TrailRows) /\ trail' = trail
    BY DEF TenantTyped, SaveTenant
  <2>2. \A n \in DOMAIN trail : trail[n].by \in PlatformRequests /\ trail[n].by # o
    <3>1. \A n \in DOMAIN trail : trail[n] \in TrailRows
      BY <2>1
    <3> QED BY <1>1, <3>1 DEF TrailRows, RecordedOnce
  <2>3. \A n : SaysGone(n)' <=> SaysGone(n)
    BY <2>1 DEF SaysGone
  <2> QED BY <1>4, <2>1, <2>2, <2>3 DEF RecordedOnce
<1>16. SessionsFit'
  <2>1. RevocationExcused => RevocationExcused'
    <3>1. \A p \in PlatformRequests : Asked(platformOp[p]) => Asked(platformOp'[p])
      BY <1>1, <1>3, <1>4 DEF Asked
    <3>2. (\E p \in PlatformRequests : Asked(platformOp[p])) => \E p \in PlatformRequests : Asked(platformOp'[p])
      BY <3>1
    <3>3. (\E pair \in beside : \E p \in pair : Deletes(p)) => \E pair \in beside' : \E p \in pair : Deletes(p)'
      BY <1>7, <1>8 DEF TenantTyped
    <3> QED BY <3>2, <3>3 DEF RevocationExcused
  <2>2. CASE RevocationExcused
    BY <2>1, <2>2 DEF SessionsFit
  <2>3. CASE op.kind \in {"suspend", "grace", "lock"}
    <3>1. Asked(platformOp'[o])
      BY <1>3, <1>4, <1>5, <2>3 DEF Asked
    <3> QED BY <3>1 DEF SessionsFit, RevocationExcused
  <2>4. CASE ~RevocationExcused /\ op.kind \notin {"suspend", "grace", "lock"}
    <3>1. /\ tenantSessions = "revoked" => Doomed /\ \A p \in PlatformRequests : StaysDoomed(platformOp[p])
          /\ tenantSessions' = tenantSessions
      BY <2>4 DEF SessionsFit, SaveTenant
    <3>2. tenantSessions = "revoked" => Doomed'
      BY <1>1, <2>4, <3>1 DEF StaysDoomed, Doomed
    <3>3. \A p \in PlatformRequests : StaysDoomed(platformOp[p]) => StaysDoomed(platformOp'[p])
      BY <1>4, <1>5 DEF StaysDoomed
    <3>4. ASSUME NEW p \in PlatformRequests, platformOp'[p].at = "revoke" PROVE FALSE
      <4>1. p # o /\ platformOp[p].at = "revoke"
        BY <1>4, <1>5, <3>4
      <4>2. {p, o} \in beside /\ Deletes(p)
        BY <1>9, <4>1 DEF Busy, Deletes, StepsFit, StepFits
      <4> QED BY <2>4, <4>2 DEF RevocationExcused
    <3> QED BY <3>1, <3>2, <3>3, <3>4 DEF SessionsFit, OpAt
  <2> QED BY <2>2, <2>3, <2>4
<1>17. VisitorsKnow'
  BY VisitorsMiss DEF SaveTenant
<1>18. OneSession' /\ LockTypeOK'
  BY LockKept DEF SaveTenant, OneSession
<1>19. CacheFollowsTenant'
  <2>1. CASE op.kind # "edit"
    <3>1. BeforeForgetting(o)'
      BY <1>4, <1>5, <2>1 DEF BeforeForgetting, OpAt
    <3> QED BY <3>1 DEF CacheFollowsTenant
  <2>2. CASE EditedBeside
    <3>1. EditedBeside'
      BY <1>6, <2>2, OverlapsKept
    <3> QED BY <3>1 DEF CacheFollowsTenant, EditedBeside, Writes, Apart
  <2>3. CASE op.kind = "edit" /\ ~EditedBeside
    <3>1. op.row.status = tenant.status \/ tenant.status = "none"
      BY <1>1, <2>3 DEF EditsKeepStatus, OpAt
    <3>2. stateCache' = stateCache
      BY DEF SaveTenant
    <3>3. \A p \in PlatformRequests : BeforeForgetting(p) => BeforeForgetting(p)'
      BY <1>1, <1>4 DEF BeforeForgetting, OpAt
    <3>4. \/ stateCache.status \in {"none", tenant.status} \/ stateCache.raced
          \/ \E p \in PlatformRequests : BeforeForgetting(p)
      BY <2>3 DEF CacheFollowsTenant, EditedBeside, Writes, Apart
    <3> QED BY <1>1, <3>1, <3>2, <3>3, <3>4 DEF CacheFollowsTenant
  <2> QED BY <2>1, <2>2, <2>3
<1> QED BY <1>10, <1>11, <1>12, <1>13, <1>14, <1>15, <1>16, <1>17, <1>18, <1>19

LEMMA RecordEventStep == ASSUME TenantInv, NEW o \in PlatformRequests, RecordEvent(o), UNCHANGED lockVars PROVE TenantInv'
<1> USE DEF TenantInv, RequestsFit
<1> DEFINE op == platformOp[o]
           step == IF op.row.status = "none" THEN "forget" ELSE IF op.kind = "deleteNow" THEN "enter" ELSE "done"
<1>1. /\ op.at = "record" /\ StepFits(op) /\ Unrecorded(op) /\ ~Parted(op)
      /\ op.row \in TenantRows /\ op.was \in TenantRows
  BY HeldTyped DEF RecordEvent, OpAt, StepsFit, Unrecorded, Parted
<1>2. OpGoes(o, step) /\ step \in PlatformSteps
  BY DEF RecordEvent, PlatformSteps
<1>3. PICK new \in PlatformOps :
        /\ platformOp' = [platformOp EXCEPT ![o] = new]
        /\ new.kind = platformOp[o].kind /\ new.at = step
        /\ new.row = platformOp[o].row /\ new.was = platformOp[o].was
  BY <1>2, StepTyped
<1>4. \A p \in PlatformRequests : platformOp'[p] = IF p = o THEN new ELSE platformOp[p]
  BY <1>3, OpsAfter
<1>5. /\ op.row.status = "none" => new.at = "forget"
      /\ op.row.status # "none" => new.at \in {"enter", "done"} /\ (new.at = "enter" => op.kind = "deleteNow")
      /\ ~Unrecorded(new) /\ ~NotYet(new)
  <2>1. CASE op.row.status = "none"
    <3>1. new.at = "forget"
      BY <1>3, <2>1
    <3> QED BY <1>3, <2>1, <3>1 DEF Unrecorded, NotYet
  <2>2. CASE op.row.status # "none"
    <3>1. new.at \in {"enter", "done"} /\ (new.at = "enter" => op.kind = "deleteNow")
      BY <1>3, <2>2
    <3> QED BY <2>2, <3>1 DEF Unrecorded, NotYet
  <2> QED BY <2>1, <2>2
<1>6. GoesOn(o, new)
  <2>1. StepFits(new)
    BY <1>1, <1>3, <1>5 DEF StepFits, Decisions, Edits
  <2> QED BY <1>1, <1>3, <1>5, <2>1 DEF RecordEvent, GoesOn
<1>7. PICK event : event = [by |-> o, from |-> op.was, to |-> op.row]
  OBVIOUS
<1>8. event \in TrailRows /\ event.by = o /\ event.from = op.was /\ event.to = op.row
  BY <1>1, <1>7 DEF TrailRows
<1>9. trail \in Seq(TrailRows) /\ trail' = Append(trail, event)
  BY <1>7 DEF RecordEvent, TenantTyped
<1>23. PICK last : last = Len(trail) + 1
  OBVIOUS
<1>10. /\ Len(trail) \in Nat /\ Len(trail') = last /\ DOMAIN trail' = DOMAIN trail \cup {last}
       /\ DOMAIN trail = 1..Len(trail) /\ last \notin DOMAIN trail
       /\ trail'[last] = event /\ \A n \in DOMAIN trail : trail'[n] = trail[n]
       /\ trail' \in Seq(TrailRows)
  BY <1>8, <1>9, <1>23
<1>11. TenantTyped'
  <2>1. platformOp' \in [PlatformRequests -> PlatformOps]
    BY <1>3 DEF TenantTyped
  <2> QED BY <1>10, <2>1 DEF RecordEvent, TenantTyped
<1>12. StepsFit' /\ TogetherIsBeside'
  BY <1>6, OverlapsKept
<1>13. \A p \in PlatformRequests : platformOp'[p].kind = platformOp[p].kind /\ platformOp'[p].row = platformOp[p].row
  BY <1>3, <1>4
<1>14. \A p \in PlatformRequests : platformOp'[p].at = "save" => p # o
  BY <1>4, <1>5
<1>15. \A p \in PlatformRequests : Writes(p)' <=> Writes(p)
  BY <1>6, OverlapsKept
<1>16. DecisionFits'
  <2> SUFFICES ASSUME decided # 0 PROVE DecisionFits'
    BY DEF DecisionFits, RecordEvent
  <2>1. decided \in PlatformRequests /\ decided' = decided /\ tenant' = tenant /\ beside' = beside
    BY DEF TenantTyped, RecordEvent
  <2>2. Contested => Contested'
    BY <1>15, <2>1 DEF Contested
  <2>3. Standing => Standing'
    BY <1>4, <1>13, <1>14, <2>1 DEF Standing, OpAt
  <2>4. platformOp'[decided].at \notin {"idle", "load", "save"}
    BY <1>4, <1>5, <2>1 DEF DecisionFits
  <2> QED BY <1>13, <2>1, <2>2, <2>3, <2>4 DEF DecisionFits
<1>17. EditsKeepStatus'
  <2>1. EditedBeside => EditedBeside'
    BY <1>6, OverlapsKept
  <2> QED BY <1>4, <1>14, <2>1 DEF EditsKeepStatus, OpAt, RecordEvent
<1>18. TrailFits'
  <2>1. CASE TrailExcused
    BY <1>6, <2>1, OverlapsKept DEF TrailFits
  <2>2. CASE TrailKept
    <3>1. op.row.status = tenant.status /\ EndsWith(op.was.status)
      BY <1>1, <2>2 DEF TrailKept
    <3>2. \A p \in PlatformRequests : ~Unrecorded(platformOp'[p])
      BY <1>1, <1>4, <1>5, <2>2 DEF TrailKept
    <3>3. ASSUME NEW n \in 1..Len(trail') - 1 PROVE trail'[n + 1].from.status = trail'[n].to.status
      <4>1. n \in 1..Len(trail) /\ n \in DOMAIN trail
        BY <1>10
      <4>2. CASE n = Len(trail)
        <5>1. trail'[n + 1] = event /\ trail'[n] = trail[n] /\ trail # <<>>
          BY <1>10, <4>1, <4>2
        <5> QED BY <1>8, <3>1, <4>2, <5>1 DEF EndsWith
      <4>3. CASE n # Len(trail)
        <5>1. n \in 1..Len(trail) - 1 /\ n + 1 \in DOMAIN trail
          BY <1>10, <4>1, <4>3
        <5> QED BY <1>10, <2>2, <4>1, <5>1 DEF TrailKept
      <4> QED BY <4>2, <4>3
    <3>4. trail'[Len(trail')].to.status = tenant'.status
      BY <1>8, <1>10, <3>1 DEF RecordEvent
    <3>5. \A p \in PlatformRequests : platformOp'[p].at = "save" => platformOp'[p].was.status = tenant'.status
      BY <1>4, <1>14, <2>2 DEF TrailKept, OpAt, RecordEvent
    <3>6. TrailKept'
      BY <3>2, <3>3, <3>4, <3>5 DEF TrailKept, EndsWith, OpAt
    <3> QED BY <3>6 DEF TrailFits
  <2> QED BY <2>1, <2>2 DEF TrailFits
<1>19. RecordedOnce'
  <2>1. \A n \in DOMAIN trail : trail[n].by \in PlatformRequests
    <3>1. \A n \in DOMAIN trail : trail[n] \in TrailRows
      BY <1>9
    <3> QED BY <3>1 DEF TrailRows
  <2>2. \A n \in DOMAIN trail : trail[n].by = o => ~SaysGone(n) /\ op.row.status = "none"
    BY <1>1 DEF RecordedOnce, NotYet
  <2>3. \A n \in DOMAIN trail : SaysGone(n)' <=> SaysGone(n)
    BY <1>10 DEF SaysGone
  <2>4. SaysGone(last)' <=> op.row.status = "none"
    BY <1>8, <1>10 DEF SaysGone
  <2>5. op.row.status = "none" => Parted(new)
    BY <1>3, <1>5 DEF Parted
  <2>6. ASSUME NEW n \in DOMAIN trail'
        PROVE  IF SaysGone(n)' THEN Parted(platformOp'[trail'[n].by]) ELSE ~NotYet(platformOp'[trail'[n].by])
    <3>1. CASE n = last
      BY <1>4, <1>5, <1>8, <1>10, <2>4, <2>5, <3>1
    <3>2. CASE n \in DOMAIN trail /\ trail[n].by = o
      BY <1>4, <1>5, <1>10, <2>2, <2>3, <3>2
    <3>3. CASE n \in DOMAIN trail /\ trail[n].by # o
      BY <1>4, <1>10, <2>1, <2>3, <3>3 DEF RecordedOnce
    <3> QED BY <1>10, <3>1, <3>2, <3>3
  <2>7. ASSUME NEW m \in DOMAIN trail', NEW n \in DOMAIN trail', m # n, trail'[m].by = trail'[n].by
        PROVE  SaysGone(m)' # SaysGone(n)'
    <3>1. CASE m = last /\ n \in DOMAIN trail
      BY <1>8, <1>10, <2>2, <2>3, <2>4, <2>7, <3>1
    <3>2. CASE n = last /\ m \in DOMAIN trail
      BY <1>8, <1>10, <2>2, <2>3, <2>4, <2>7, <3>2
    <3>3. CASE m \in DOMAIN trail /\ n \in DOMAIN trail
      <4>1. SaysGone(m) # SaysGone(n)
        BY <1>10, <2>7, <3>3 DEF RecordedOnce
      <4> QED BY <1>10, <3>3, <4>1 DEF SaysGone
    <3> QED BY <1>10, <2>7, <3>1, <3>2, <3>3
  <2> QED BY <2>6, <2>7 DEF RecordedOnce
<1>20. SessionsFit'
  <2>1. RevocationExcused => RevocationExcused'
    BY <1>5, <1>6, OverlapsKept DEF NotYet
  <2>2. \A p \in PlatformRequests : StaysDoomed(platformOp[p]) => StaysDoomed(platformOp'[p])
    BY <1>4, <1>14 DEF StaysDoomed
  <2>3. \A p \in PlatformRequests : OpAt(p, "revoke")' => OpAt(p, "revoke")
    BY <1>4, <1>5 DEF OpAt
  <2>4. tenantSessions' = tenantSessions /\ (Doomed' <=> Doomed)
    BY DEF RecordEvent, Doomed
  <2> QED BY <2>1, <2>2, <2>3, <2>4 DEF SessionsFit
<1>21. VisitorsKnow' /\ OneSession' /\ LockTypeOK'
  BY LockKept DEF RecordEvent, VisitorsKnow, OneSession
<1>22. CacheFollowsTenant'
  <2>1. \A p \in PlatformRequests : BeforeForgetting(p) => BeforeForgetting(p)'
    BY <1>1, <1>4, <1>5 DEF BeforeForgetting, OpAt
  <2>2. stateCache' = stateCache /\ tenant' = tenant
    BY DEF RecordEvent
  <2>3. (\E p \in PlatformRequests : BeforeForgetting(p)) => \E p \in PlatformRequests : BeforeForgetting(p)'
    BY <2>1
  <2>4. EditedBeside => EditedBeside'
    BY <1>6, OverlapsKept
  <2> QED BY <2>2, <2>3, <2>4 DEF CacheFollowsTenant, EditedBeside, Writes, Apart
<1> QED BY <1>11, <1>12, <1>16, <1>17, <1>18, <1>19, <1>20, <1>21, <1>22

LEMMA PurgeTenantStep == ASSUME TenantInv, NEW o \in PlatformRequests, PurgeTenant(o), UNCHANGED lockVars PROVE TenantInv'
<1> USE DEF TenantInv, RequestsFit
<1> DEFINE op == platformOp[o]
<1>1. PICK purged \in BOOLEAN : purged <=> DeletionDue(tenant) /\ PurgeSucceeds
  OBVIOUS
<1>2. /\ op.at = "purge" /\ StepFits(op) /\ ~Unrecorded(op) /\ ~Parted(op)
      /\ op.kind \in {"cron", "deleteNow"} /\ op.was.status = "PENDING_DELETION"
      /\ op \in PlatformOps /\ op.row \in TenantRows /\ op.was \in TenantRows /\ op.kind \in PlatformKinds
  BY HeldTyped DEF PurgeTenant, OpAt, StepsFit, StepFits, Unrecorded, Parted
<1>3. PICK step : step = IF purged THEN "record" ELSE IF DeletionDue(tenant) THEN "failed" ELSE "leave"
  OBVIOUS
<1>4. PICK row : row = IF purged THEN Gone ELSE op.row
  OBVIOUS
<1>5. row \in TenantRows /\ step \in PlatformSteps
  BY <1>2, <1>3, <1>4 DEF Gone, TenantRows, Statuses, PlatformSteps
<1>6. PICK new : new = [op EXCEPT !.at = step, !.row = row]
  OBVIOUS
<1>7. new \in PlatformOps /\ new.kind = op.kind /\ new.at = step /\ new.row = row /\ new.was = op.was
  BY <1>2, <1>5, <1>6 DEF PlatformOps
<1>8. platformOp' = [platformOp EXCEPT ![o] = new]
  <2>1. CASE purged
    BY <1>1, <1>3, <1>4, <1>6, <2>1 DEF PurgeTenant, TenantTyped
  <2>2. CASE ~purged
    BY <1>1, <1>3, <1>4, <1>6, <2>2 DEF PurgeTenant, TenantTyped
  <2> QED BY <2>1, <2>2
<1>9. \A p \in PlatformRequests : platformOp'[p] = IF p = o THEN new ELSE platformOp[p]
  BY <1>8, OpsAfter
<1>10. GoesOn(o, new)
  <2>1. StepFits(new)
    BY <1>2, <1>3, <1>4, <1>7 DEF StepFits, Gone, Decisions, Edits
  <2> QED BY <1>2, <1>3, <1>7, <1>8, <2>1 DEF PurgeTenant, GoesOn
<1>11. CASE ~purged
  <2>1. RecordsAsBefore(o, new)
    BY <1>2, <1>3, <1>4, <1>7, <1>11 DEF RecordsAsBefore, Unrecorded, Parted
  <2>2. OneSession' /\ LockTypeOK' /\ ~BeforeForgetting(o) /\ new.at # "revoke"
    BY <1>2, <1>3, <1>7, LockKept DEF PurgeTenant, OneSession, BeforeForgetting, OpAt
  <2>3. UNCHANGED <<tenant, visitor>>
    BY <1>1, <1>11 DEF PurgeTenant
  <2> QED BY <1>7, <1>10, <2>1, <2>2, <2>3, GoesOnStep DEF PurgeTenant
<1>12. CASE purged
  <2>1. /\ tenant' = Gone /\ visitor' = MissedByVisitors /\ DeletionDue(tenant)
        /\ UNCHANGED <<stateCache, trail, tenantSessions, impersonations, decided, beside, tenantPlot>>
    BY <1>1, <1>12 DEF PurgeTenant
  <2>2. new.at = "record" /\ new.row.status = "none" /\ tenant'.status = "none" /\ tenant.status = "PENDING_DELETION"
    BY <1>3, <1>4, <1>7, <1>12, <2>1 DEF Gone, DeletionDue
  <2>3. \A p \in PlatformRequests : (Writes(p)' <=> Writes(p)) /\ platformOp'[p].kind = platformOp[p].kind
    BY <1>7, <1>9, <1>10, OverlapsKept
  <2>4. \A p \in PlatformRequests : p # o /\ Busy(p) => {o, p} \in beside
    BY <1>2 DEF TogetherIsBeside, Busy
  <2>5. TenantTyped'
    <3>1. platformOp' \in [PlatformRequests -> PlatformOps]
      BY <1>7, <1>8 DEF TenantTyped
    <3>2. visitor' \in [Visitors -> VisitorRows]
      BY <2>1, VisitorsMiss
    <3>3. Gone \in TenantRows
      BY DEF Gone, TenantRows, Statuses
    <3> QED BY <2>1, <3>1, <3>2, <3>3 DEF TenantTyped
  <2>6. StepsFit' /\ TogetherIsBeside'
    BY <1>10, OverlapsKept
  <2>7. DecisionFits'
    <3> SUFFICES ASSUME decided # 0 PROVE DecisionFits'
      BY <2>1 DEF DecisionFits
    <3>1. decided \in PlatformRequests /\ decided' = decided
      BY <2>1 DEF TenantTyped
    <3>2. platformOp'[decided].kind \in Decisions /\ platformOp'[decided].at \notin {"idle", "load", "save"}
      BY <1>9, <2>2, <2>3, <3>1 DEF DecisionFits
    <3>3. CASE Contested
      <4>1. Contested'
        BY <2>1, <2>3, <3>3 DEF Contested
      <4> QED BY <3>1, <3>2, <4>1 DEF DecisionFits
    <3>4. CASE ~Contested
      <4>1. Standing
        BY <3>4 DEF DecisionFits
      <4>2. platformOp[decided].row.status = "PENDING_DELETION"
        BY <2>2, <4>1 DEF Standing
      <4>3. CASE decided = o
        <5>1. ASSUME NEW p \in PlatformRequests, platformOp'[p].at = "save", platformOp'[p].kind \in Edits PROVE FALSE
          <6>1. p # o /\ platformOp[p].at = "save" /\ platformOp[p].kind \in Edits
            BY <1>9, <2>2, <5>1
          <6>2. {p, decided} \in beside /\ {o, p} = {p, o}
            BY <2>4, <4>3, <6>1 DEF Busy
          <6> QED BY <3>4, <6>1, <6>2 DEF Contested, Writes
        <5>2. Standing'
          BY <1>9, <2>2, <3>1, <4>3, <5>1 DEF Standing, OpAt
        <5> QED BY <3>1, <3>2, <5>2 DEF DecisionFits
      <4>4. CASE decided # o
        <5>1. \A p \in PlatformRequests : platformOp'[p].at = "save" => p # o
          BY <1>9, <2>2
        <5>2. Standing'
          BY <1>9, <2>2, <3>1, <4>1, <4>2, <4>4, <5>1 DEF Standing, OpAt
        <5> QED BY <3>1, <3>2, <5>2 DEF DecisionFits
      <4> QED BY <4>3, <4>4
    <3> QED BY <3>3, <3>4
  <2>8. EditsKeepStatus'
    BY <2>2 DEF EditsKeepStatus
  <2>9. TrailFits'
    <3>1. CASE TrailExcused
      BY <1>10, <3>1, OverlapsKept DEF TrailFits
    <3>2. CASE ~TrailExcused
      <4>1. TrailKept
        BY <3>2 DEF TrailFits
      <4>2. \A p \in PlatformRequests : p # o /\ Busy(p) => ~Writes(p)
        BY <2>4, <3>2 DEF TrailExcused
      <4>3. ASSUME NEW p \in PlatformRequests, p # o PROVE ~Unrecorded(platformOp[p]) /\ platformOp[p].at # "save"
        <5>1. StepFits(platformOp[p])
          BY DEF StepsFit
        <5>2. CASE platformOp[p].at \in {"forget", "record", "save"}
          <6>1. platformOp[p].kind = "cron"
            BY <4>2, <4>3, <5>1, <5>2 DEF Busy, Writes, StepFits, Edits
          <6>2. platformOp[p].row.status = "none" /\ platformOp[p].at # "save"
            BY <5>1, <6>1 DEF StepFits, Decisions, Edits
          <6>3. ~Unrecorded(platformOp[p])
            BY <2>2, <4>1, <6>2 DEF TrailKept
          <6> QED BY <6>2, <6>3
        <5>3. CASE platformOp[p].at \notin {"forget", "record", "save"}
          BY <5>3 DEF Unrecorded
        <5> QED BY <5>2, <5>3
      <4>4. EndsWith("PENDING_DELETION")
        BY <1>2, <2>2, <4>1, <4>3 DEF TrailKept
      <4>5. /\ \A p \in PlatformRequests : platformOp'[p].at # "save" /\ (Unrecorded(platformOp'[p]) => p = o)
            /\ platformOp'[o] = new /\ Unrecorded(new)
        BY <1>9, <2>2, <4>3 DEF Unrecorded
      <4>6. TrailKept'
        BY <1>2, <1>7, <2>1, <2>2, <4>1, <4>4, <4>5 DEF TrailKept, EndsWith, OpAt
      <4> QED BY <4>6 DEF TrailFits
    <3> QED BY <3>1, <3>2
  <2>10. RecordedOnce'
    <3>1. \A n \in DOMAIN trail : trail[n].by \in PlatformRequests
      <4>1. trail \in Seq(TrailRows)
        BY DEF TenantTyped
      <4>2. \A n \in DOMAIN trail : trail[n] \in TrailRows
        BY <4>1
      <4> QED BY <4>2 DEF TrailRows
    <3>2. ~NotYet(new)
      BY <2>2 DEF NotYet
    <3>3. \A n : SaysGone(n)' <=> SaysGone(n)
      BY <2>1 DEF SaysGone
    <3> QED BY <1>2, <1>9, <2>1, <3>1, <3>2, <3>3 DEF RecordedOnce
  <2>11. SessionsFit'
    <3>1. RevocationExcused => RevocationExcused'
      BY <1>10, <2>2, OverlapsKept
    <3>2. Doomed'
      BY <2>2 DEF Doomed
    <3>3. \A p \in PlatformRequests : StaysDoomed(platformOp[p]) => StaysDoomed(platformOp'[p])
      BY <1>9, <2>2 DEF StaysDoomed
    <3> QED BY <2>1, <3>1, <3>2, <3>3 DEF SessionsFit
  <2>12. VisitorsKnow'
    BY <2>1, VisitorsMiss
  <2>13. OneSession' /\ LockTypeOK'
    BY <2>1, LockKept DEF OneSession
  <2>14. CacheFollowsTenant'
    <3>1. BeforeForgetting(o)'
      BY <1>9, <2>2 DEF BeforeForgetting, OpAt
    <3> QED BY <3>1 DEF CacheFollowsTenant
  <2> QED BY <2>5, <2>6, <2>7, <2>8, <2>9, <2>10, <2>11, <2>12, <2>13, <2>14
<1> QED BY <1>11, <1>12

\* The day comes: of every row in sight only the second column changes.
LEMMA DeletionFallsDueStep == ASSUME TenantInv, DeletionFallsDue, UNCHANGED lockVars PROVE TenantInv'
<1> USE DEF TenantInv, RequestsFit
<1>1. /\ tenant' = [tenant EXCEPT !.scheduled = "due"]
      /\ UNCHANGED <<stateCache, visitor, trail, tenantSessions, impersonations, decided, beside, tenantPlot>>
  BY DEF DeletionFallsDue
<1>2. tenant' \in TenantRows /\ tenant'.status = tenant.status /\ tenant'.scheduled = "due"
  BY <1>1 DEF TenantTyped, TenantRows
<1>3. ASSUME NEW p \in PlatformRequests
      PROVE  /\ platformOp'[p] \in PlatformOps
             /\ platformOp'[p].kind = platformOp[p].kind /\ platformOp'[p].at = platformOp[p].at
             /\ platformOp'[p].was = platformOp[p].was /\ platformOp'[p].row.status = platformOp[p].row.status
             /\ DeletionDue(platformOp[p].row) => DeletionDue(platformOp'[p].row)
  <2> DEFINE op == platformOp[p]
  <2>1. op \in PlatformOps /\ op.row \in TenantRows /\ op.was \in TenantRows /\ op.at \in PlatformSteps
          /\ op.kind \in PlatformKinds
    BY HeldTyped
  <2>2. PICK row : row = IF op.row.scheduled = "later" THEN [op.row EXCEPT !.scheduled = "due"] ELSE op.row
    OBVIOUS
  <2>3. row \in TenantRows /\ row.status = op.row.status /\ (DeletionDue(op.row) => DeletionDue(row))
    BY <2>1, <2>2 DEF TenantRows, DeletionDue
  <2>4. platformOp'[p] = [op EXCEPT !.row = row]
    BY <2>2 DEF DeletionFallsDue
  <2> QED BY <2>1, <2>3, <2>4 DEF PlatformOps
<1>4. TenantTyped'
  <2>1. platformOp' = [p \in PlatformRequests |-> platformOp'[p]]
    BY DEF DeletionFallsDue
  <2>2. platformOp' \in [PlatformRequests -> PlatformOps]
    BY <1>3, <2>1
  <2> QED BY <1>1, <1>2, <2>2 DEF TenantTyped
<1>5. \A p \in PlatformRequests : (Writes(p)' <=> Writes(p)) /\ (Deletes(p)' <=> Deletes(p)) /\ (Busy(p)' <=> Busy(p))
  BY <1>3 DEF Writes, Deletes, Busy
<1>6. StepsFit' /\ TogetherIsBeside'
  <2>1. StepsFit'
    BY <1>3 DEF StepsFit, StepFits
  <2> QED BY <1>1, <1>5, <2>1 DEF TogetherIsBeside
<1>7. DecisionFits'
  <2> SUFFICES ASSUME decided # 0 PROVE DecisionFits'
    BY <1>1 DEF DecisionFits
  <2>1. decided \in PlatformRequests /\ decided' = decided
    BY <1>1 DEF TenantTyped
  <2>2. Contested => Contested'
    BY <1>1, <1>5 DEF Contested
  <2>3. Standing => Standing'
    BY <1>2, <1>3, <2>1 DEF Standing, OpAt
  <2> QED BY <1>3, <2>1, <2>2, <2>3 DEF DecisionFits
<1>8. EditedBeside => EditedBeside'
  BY <1>1, <1>3, <1>5 DEF EditedBeside
<1>9. EditsKeepStatus'
  BY <1>2, <1>3, <1>8 DEF EditsKeepStatus, OpAt
<1>10. TrailFits'
  <2>1. TrailExcused => TrailExcused'
    <3>1. \A p \in PlatformRequests : OpAt(p, "crashed") => OpAt(p, "crashed")'
      BY <1>3 DEF OpAt
    <3>2. (\E pair \in beside : \E p \in pair : Writes(p)) => \E pair \in beside' : \E p \in pair : Writes(p)'
      BY <1>1, <1>5 DEF TenantTyped
    <3> QED BY <3>1, <3>2 DEF TrailExcused
  <2>2. \A p \in PlatformRequests : Unrecorded(platformOp'[p]) <=> Unrecorded(platformOp[p])
    BY <1>3 DEF Unrecorded
  <2>3. TrailKept => TrailKept'
    BY <1>1, <1>2, <1>3, <2>2 DEF TrailKept, EndsWith, OpAt
  <2> QED BY <2>1, <2>3 DEF TrailFits
<1>11. RecordedOnce'
  <2>1. \A n \in DOMAIN trail : trail[n].by \in PlatformRequests
    <3>1. trail \in Seq(TrailRows)
      BY DEF TenantTyped
    <3>2. \A n \in DOMAIN trail : trail[n] \in TrailRows
      BY <3>1
    <3> QED BY <3>2 DEF TrailRows
  <2>2. \A p \in PlatformRequests :
          (Parted(platformOp[p]) => Parted(platformOp'[p])) /\ (NotYet(platformOp'[p]) => NotYet(platformOp[p]))
    BY <1>3 DEF Parted, NotYet, Unrecorded
  <2>3. \A n : SaysGone(n)' <=> SaysGone(n)
    BY <1>1 DEF SaysGone
  <2> QED BY <1>1, <2>1, <2>2, <2>3 DEF RecordedOnce
<1>12. SessionsFit'
  <2>1. RevocationExcused => RevocationExcused'
    <3>1. \A p \in PlatformRequests : Asked(platformOp[p]) => Asked(platformOp'[p])
      BY <1>3 DEF Asked
    <3>2. (\E p \in PlatformRequests : Asked(platformOp[p])) => \E p \in PlatformRequests : Asked(platformOp'[p])
      BY <3>1
    <3>3. (\E pair \in beside : \E p \in pair : Deletes(p)) => \E pair \in beside' : \E p \in pair : Deletes(p)'
      BY <1>1, <1>5 DEF TenantTyped
    <3> QED BY <3>2, <3>3 DEF RevocationExcused
  <2>2. Doomed => Doomed'
    BY <1>2 DEF Doomed, DeletionDue
  <2>3. \A p \in PlatformRequests :
          (StaysDoomed(platformOp[p]) => StaysDoomed(platformOp'[p])) /\ (OpAt(p, "revoke")' => OpAt(p, "revoke"))
    BY <1>3 DEF StaysDoomed, OpAt
  <2> QED BY <1>1, <2>1, <2>2, <2>3 DEF SessionsFit
<1>13. VisitorsKnow' /\ OneSession' /\ LockTypeOK'
  BY <1>1, <1>2, LockKept DEF VisitorsKnow, OneSession
<1>14. CacheFollowsTenant'
  <2>1. \A p \in PlatformRequests : BeforeForgetting(p) => BeforeForgetting(p)'
    BY <1>3 DEF BeforeForgetting, OpAt
  <2>2. (\E p \in PlatformRequests : BeforeForgetting(p)) => \E p \in PlatformRequests : BeforeForgetting(p)'
    BY <2>1
  <2> QED BY <1>1, <1>2, <1>8, <2>2 DEF CacheFollowsTenant, EditedBeside, Writes, Apart
<1> QED BY <1>4, <1>6, <1>7, <1>9, <1>10, <1>11, <1>12, <1>13, <1>14

\* What the requests hold while only the visitors, the cache or the lock move.
LEMMA RequestsRest ==
  ASSUME TenantInv, UNCHANGED <<tenant, platformOp, trail, decided, beside>>,
         tenantSessions' \in {tenantSessions, "open"}
  PROVE  RequestsFit'
<1> USE DEF TenantInv, RequestsFit
<1>1. \A p \in PlatformRequests : (Busy(p)' <=> Busy(p)) /\ (Writes(p)' <=> Writes(p)) /\ (Deletes(p)' <=> Deletes(p))
  BY DEF Busy, Writes, Deletes
<1>2. StepsFit' /\ TogetherIsBeside'
  BY <1>1 DEF StepsFit, TogetherIsBeside
<1>3. DecisionFits'
  <2>1. (Contested' <=> Contested) /\ (Standing' <=> Standing)
    BY <1>1 DEF Contested, Standing, OpAt
  <2> QED BY <2>1 DEF DecisionFits
<1>4. EditsKeepStatus'
  <2>1. EditedBeside' <=> EditedBeside
    BY <1>1 DEF EditedBeside
  <2> QED BY <2>1 DEF EditsKeepStatus, OpAt
<1>5. TrailFits'
  <2>1. TrailExcused => TrailExcused'
    BY <1>1 DEF TrailExcused, OpAt, TenantTyped
  <2>2. TrailKept => TrailKept'
    BY DEF TrailKept, EndsWith, OpAt
  <2> QED BY <2>1, <2>2 DEF TrailFits
<1>6. RecordedOnce'
  BY DEF RecordedOnce, SaysGone
<1>7. SessionsFit'
  <2>1. RevocationExcused => RevocationExcused'
    BY <1>1 DEF RevocationExcused, TenantTyped
  <2>2. Doomed' <=> Doomed
    BY DEF Doomed
  <2> QED BY <2>1, <2>2 DEF SessionsFit, OpAt
<1> QED BY <1>2, <1>3, <1>4, <1>5, <1>6, <1>7

LEMMA CacheRests ==
  ASSUME TenantTyped, UNCHANGED <<tenant, platformOp, beside>>, CacheFollowsTenant,
         stateCache' = stateCache \/ stateCache'.status \in {"none", tenant.status} \/ stateCache'.raced
  PROVE  CacheFollowsTenant'
<1>1. CASE stateCache' = stateCache
  BY <1>1 DEF CacheFollowsTenant, BeforeForgetting, OpAt, Apart
<1>2. CASE stateCache'.status \in {"none", tenant.status} \/ stateCache'.raced
  BY <1>2 DEF CacheFollowsTenant
<1> QED BY <1>1, <1>2

\* A visitor moves.
LEMMA VisitorStep ==
  ASSUME TenantInv, NEW v \in Visitors, UNCHANGED lockVars,
         ReadState(v) \/ FetchState(v) \/ RememberState(v) \/ AnswerVisitor(v)
  PROVE  TenantInv'
<1> USE DEF TenantInv
<1>1. UNCHANGED <<tenant, platformOp, trail, tenantSessions, impersonations, decided, beside, tenantPlot>>
  BY DEF ReadState, FetchState, RememberState, AnswerVisitor
<1>2. visitor[v] \in VisitorRows /\ stateCache.status \in Statuses /\ stateCache.raced \in BOOLEAN /\ tenant.status \in Statuses
  BY DEF TenantTyped, TenantRows
<1>3. visitor[v].status \in Statuses /\ visitor[v].raced \in BOOLEAN
  BY <1>2 DEF VisitorRows
<1>4. PICK new \in VisitorRows :
        /\ visitor' = [visitor EXCEPT ![v] = new]
        /\ new.at = "remember" => new.status = tenant.status
  <2>1. ASSUME NEW at \in {"idle", "fetch", "remember", "answer", "admitted", "refused"},
               NEW status \in Statuses, NEW raced \in BOOLEAN,
               VisitorGoes(v, at, status, raced), at = "remember" => status = tenant.status
        PROVE  \E new \in VisitorRows :
                 /\ visitor' = [visitor EXCEPT ![v] = new]
                 /\ new.at = "remember" => new.status = tenant.status
    <3> DEFINE new == [at |-> at, status |-> status, raced |-> raced]
    <3>1. new \in VisitorRows /\ (new.at = "remember" => new.status = tenant.status)
      BY <2>1 DEF VisitorRows
    <3>2. visitor' = [visitor EXCEPT ![v] = new]
      BY <2>1 DEF VisitorGoes
    <3> QED BY <3>1, <3>2
  <2>2. CASE ReadState(v) /\ stateCache.status # "none"
    <3>1. VisitorGoes(v, "answer", stateCache.status, stateCache.raced)
      BY <2>2 DEF ReadState
    <3> QED BY <1>2, <2>1, <3>1
  <2>3. CASE ReadState(v) /\ stateCache.status = "none"
    <3>1. VisitorGoes(v, "fetch", "none", FALSE)
      BY <2>3 DEF ReadState
    <3>2. "none" \in Statuses /\ FALSE \in BOOLEAN
      BY DEF Statuses
    <3> QED BY <2>1, <3>1, <3>2
  <2>4. CASE FetchState(v)
    <3>1. PICK at \in {"refused", "remember"} : VisitorGoes(v, at, tenant.status, FALSE)
      BY <2>4 DEF FetchState
    <3>2. at \in {"idle", "fetch", "remember", "answer", "admitted", "refused"} /\ FALSE \in BOOLEAN
      BY <3>1
    <3> QED BY <1>2, <2>1, <3>1, <3>2
  <2>5. CASE RememberState(v)
    <3>1. VisitorGoes(v, "answer", visitor[v].status, visitor[v].raced)
      BY <2>5 DEF RememberState
    <3> QED BY <1>3, <2>1, <3>1
  <2>6. CASE AnswerVisitor(v)
    <3>1. PICK at \in {"refused", "admitted"} : VisitorGoes(v, at, visitor[v].status, visitor[v].raced)
      BY <2>6 DEF AnswerVisitor
    <3>2. at \in {"idle", "fetch", "remember", "answer", "admitted", "refused"} /\ at # "remember"
      BY <3>1
    <3> QED BY <1>3, <2>1, <3>1, <3>2
  <2> QED BY <2>2, <2>3, <2>4, <2>5, <2>6
<1>5. \A w \in Visitors : visitor'[w] = IF w = v THEN new ELSE visitor[w]
  BY <1>4 DEF TenantTyped
<1>6. \/ stateCache' = stateCache
      \/ /\ stateCache' = [status |-> visitor[v].status, raced |-> visitor[v].raced]
         /\ visitor[v].at = "remember"
  BY DEF ReadState, FetchState, RememberState, AnswerVisitor
<1>7. TenantTyped'
  <2>1. visitor' \in [Visitors -> VisitorRows]
    BY <1>4 DEF TenantTyped
  <2>2. [status |-> visitor[v].status, raced |-> visitor[v].raced] \in [status : Statuses, raced : BOOLEAN]
    BY <1>3
  <2>3. stateCache' \in [status : Statuses, raced : BOOLEAN]
    BY <1>6, <2>2 DEF TenantTyped
  <2> QED BY <1>1, <2>1, <2>3 DEF TenantTyped
<1>8. RequestsFit'
  BY <1>1, RequestsRest
<1>9. VisitorsKnow'
  BY <1>1, <1>4, <1>5 DEF VisitorsKnow
<1>10. stateCache' = stateCache \/ stateCache'.status \in {"none", tenant.status} \/ stateCache'.raced
  BY <1>6 DEF VisitorsKnow
<1>11. CacheFollowsTenant'
  BY <1>1, <1>10, CacheRests
<1>12. OneSession' /\ LockTypeOK'
  BY <1>1, LockKept DEF OneSession
<1> QED BY <1>7, <1>8, <1>9, <1>11, <1>12

\* A user signs in; the cached status expires; the lock expires.
LEMMA TenantEventStep ==
  ASSUME TenantInv,
         \/ UserSignsIn /\ UNCHANGED lockVars
         \/ StateExpires /\ UNCHANGED lockVars
         \/ Expire(DeletionLock) /\ UNCHANGED tenantVars
  PROVE  TenantInv'
<1> USE DEF TenantInv
<1>1. /\ UNCHANGED <<tenant, platformOp, visitor, trail, impersonations, decided, beside, tenantPlot>>
      /\ tenantSessions' \in {tenantSessions, "open"}
      /\ stateCache' \in {stateCache, NoCache}
  BY DEF UserSignsIn, StateExpires, tenantVars
<1>2. NoCache \in [status : Statuses, raced : BOOLEAN]
  BY DEF NoCache, Statuses
<1>3. TenantTyped'
  BY <1>1, <1>2 DEF TenantTyped
<1>4. RequestsFit'
  BY <1>1, RequestsRest
<1>5. CacheFollowsTenant'
  BY <1>1, CacheRests DEF NoCache
<1>6. VisitorsKnow' /\ OneSession'
  BY <1>1 DEF VisitorsKnow, OneSession
<1>7. LockTypeOK'
  <2>1. CASE UNCHANGED lockVars
    BY <2>1, LockKept
  <2>2. CASE Expire(DeletionLock)
    BY <2>2, PlatformAssumption DEF Expire, Holders, LockTypeOK
  <2> QED BY <2>1, <2>2
<1> QED BY <1>3, <1>4, <1>5, <1>6, <1>7

LEMMA TenantStep == TenantInv /\ [TenantNext]_<<lockVars, tenantVars>> => TenantInv'
<1> SUFFICES ASSUME TenantInv, [TenantNext]_<<lockVars, tenantVars>> PROVE TenantInv'
  OBVIOUS
<1>1. CASE UNCHANGED <<lockVars, tenantVars>>
  <2>1. UNCHANGED lockVars
    BY <1>1
  <2>2. UNCHANGED tenantVars
    BY <1>1
  <2>3. TenantTyped'
    BY <2>2 DEF TenantInv, TenantTyped, tenantVars
  <2>4. RequestsFit'
    BY <2>2, RequestsRest DEF tenantVars
  <2>5. CacheFollowsTenant'
    BY <2>2, CacheRests DEF TenantInv, tenantVars
  <2>6. VisitorsKnow' /\ OneSession' /\ LockTypeOK'
    BY <2>1, <2>2, LockKept DEF TenantInv, VisitorsKnow, OneSession, tenantVars
  <2> QED BY <2>3, <2>4, <2>5, <2>6 DEF TenantInv
<1>2. ASSUME NEW o \in PlatformRequests, UNCHANGED lockVars,
             \/ BeginOp(o) \/ LoadTenant(o) \/ SaveTenant(o) \/ ForgetState(o) \/ RecordEvent(o)
             \/ CheckDeletion(o) \/ RevokeTenantSessions(o) \/ PurgeTenant(o)
             \/ LookForSession(o) \/ OpenImpersonation(o) \/ EndImpersonation(o)
      PROVE  TenantInv'
  BY <1>2, BeginOpStep, LoadTenantStep, SaveTenantStep, ForgetStateStep, RecordEventStep, CheckDeletionStep,
     RevokeTenantSessionsStep, PurgeTenantStep, LookForSessionStep, ImpersonationStep
<1>3. ASSUME NEW v \in Visitors, UNCHANGED lockVars,
             ReadState(v) \/ FetchState(v) \/ RememberState(v) \/ AnswerVisitor(v)
      PROVE  TenantInv'
  BY <1>3, VisitorStep
<1>4. CASE DeletionFallsDue /\ UNCHANGED lockVars
  BY <1>4, DeletionFallsDueStep
<1>5. ASSUME NEW o \in PlatformRequests, EnterDeletion(o) \/ LeaveDeletion(o) \/ CrashOp(o) PROVE TenantInv'
  BY <1>5, EnterDeletionStep, LeaveDeletionStep, CrashOpStep
<1> QED BY <1>1, <1>2, <1>3, <1>4, <1>5, TenantEventStep DEF TenantNext

(* Whatever operators, the deletion job and visitors do beside one another *)
(* in whatever number, the tenant's status, its cached copy, its trail,    *)
(* the revoked sessions and the impersonations agree, or for one of the    *)
(* reasons they name do not.                                               *)
THEOREM TenantsAlwaysAgree == TenantSpec => [](TenantTypeOK /\ TenantStateAgrees)
<1>1. LockInit /\ TenantInit => TenantInv
  BY TenantInitially
<1>2. TenantInv /\ [TenantNext]_<<lockVars, tenantVars>> => TenantInv'
  BY TenantStep
<1>3. TenantInv => TenantTypeOK /\ TenantStateAgrees
  BY TenantInvSuffices
<1> QED BY <1>1, <1>2, <1>3, PTL DEF TenantSpec
------------------------------------------------------------------------------
(* Of the run's eleven subsystems one moves and the others rest, so each   *)
(* of them behaves as it does alone.                                       *)
LEMMA AuditKeeps == PartSpec => AuditSpec
<1>1. PartInit => AuditInit
  BY DEF PartInit
<1>2. [PartNext]_backVars => [AuditNext]_auditVars
  BY DEF PartNext, OthersRest, backVars
<1> QED BY <1>1, <1>2, PTL DEF PartSpec, AuditSpec

LEMMA KeysKeep == PartSpec => KeySpec
<1>1. PartInit => KeyInit
  BY DEF PartInit
<1>2. [PartNext]_backVars => [KeyNext]_keyVars
  BY DEF PartNext, OthersRest, backVars
<1> QED BY <1>1, <1>2, PTL DEF PartSpec, KeySpec

LEMMA StaffKeeps == PartSpec => StaffRecordsSpec
<1>1. PartInit => StaffRecordsInit
  BY DEF PartInit
<1>2. [PartNext]_backVars => [StaffRecordsNext]_staffRecordVars
  BY DEF PartNext, OthersRest, backVars
<1> QED BY <1>1, <1>2, PTL DEF PartSpec, StaffRecordsSpec

LEMMA TimersKeep == PartSpec => TimeSpec
<1>1. PartInit => TimeInit
  BY DEF PartInit
<1>2. [PartNext]_backVars => [TimeNext]_timeVars
  BY DEF PartNext, OthersRest, backVars
<1> QED BY <1>1, <1>2, PTL DEF PartSpec, TimeSpec

LEMMA RecordsKeep == PartSpec => RecordSpec
<1>1. PartInit => RecordInit
  BY DEF PartInit
<1>2. [PartNext]_backVars => [RecordNext]_recordVars
  BY DEF PartNext, OthersRest, backVars
<1> QED BY <1>1, <1>2, PTL DEF PartSpec, RecordSpec

LEMMA TenantsKeep == PartSpec => TenantSpec
<1>1. PartInit => LockInit /\ TenantInit
  BY DEF PartInit
<1>2. [PartNext]_backVars => [TenantNext]_<<lockVars, tenantVars>>
  BY DEF PartNext, OthersRest, backVars
<1> QED BY <1>1, <1>2, PTL DEF PartSpec, TenantSpec

LEMMA HooksKeep == PartSpec => HookSpec
<1>1. PartInit => HookInit
  BY DEF PartInit
<1>2. [PartNext]_backVars => [HookNext]_hookVars
  BY DEF PartNext, OthersRest, backVars
<1> QED BY <1>1, <1>2, PTL DEF PartSpec, HookSpec

LEMMA MessagesKeep == PartSpec => MessageSpec
<1>1. PartInit => MessageInit
  BY DEF PartInit
<1>2. [PartNext]_backVars => [MessageNext]_messageVars
  BY DEF PartNext, OthersRest, backVars
<1> QED BY <1>1, <1>2, PTL DEF PartSpec, MessageSpec

LEMMA ScheduleKeeps == PartSpec => ScheduleSpec
<1>1. PartInit => ScheduleInit
  BY DEF PartInit
<1>2. [PartNext]_backVars => [ScheduleNext]_scheduleVars
  BY DEF PartNext, OthersRest, backVars
<1> QED BY <1>1, <1>2, PTL DEF PartSpec, ScheduleSpec

LEMMA AccountKeeps == PartSpec => AuthSpec
<1>1. PartInit => AuthInit
  BY DEF PartInit
<1>2. [PartNext]_backVars => [AuthNext]_authVars
  BY DEF PartNext, OthersRest, backVars
<1> QED BY <1>1, <1>2, PTL DEF PartSpec, AuthSpec

(* Timers, the catalogue, the clients and the staff records hold together  *)
(* in the composed specification, whatever the plots of the run.           *)
THEOREM RecordsAlwaysHold == PartSpec => []RecordsHoldTogether
<1>1. TimesAddUp /\ OffersListIsCurrent /\ EventsTellTheRows /\ ProfilesFollowUsers => RecordsHoldTogether
  BY DEF RecordsHoldTogether
<1> QED BY <1>1, StaffKeeps, TimersKeep, RecordsKeep, ProfilesAlwaysFollow, TimersAlwaysAddUp,
           RecordsAlwaysAgree, PTL

(* What is proved of the audit chain, of requests with a key and of the    *)
(* tenant holds in the composed specification, too.                        *)
THEOREM BackOfficeAgrees == PartSpec => [](AuditChainHolds /\ HandledOnce /\ TenantStateAgrees)
BY AuditKeeps, KeysKeep, TenantsKeep, ChainAlwaysHolds, KeysHandledOnce, TenantsAlwaysAgree, PTL

(* Webhooks, mails, notifications and audit entries reach whom they should *)
(* on some path, and twice only for a reason.                              *)
THEOREM EverybodyAlwaysReached == PartSpec => []EverybodyIsReached
<1>1. WebhooksDelivered /\ MessagesArrive /\ TrailHolds => EverybodyIsReached
  BY DEF EverybodyIsReached
<1> QED BY <1>1, HooksKeep, MessagesKeep, AuditKeeps, WebhooksAlwaysDelivered, MessagesAlwaysArrive,
           TrailAlwaysHolds, PTL

(* The verdicts on conflicts say what the schedule says, slots of one      *)
(* employee overlap only when their requests did, and the time of a        *)
(* confirmed booking and a started task stand, but for a move and for      *)
(* requests that read them before.                                         *)
THEOREM BackOfficeScheduleSound == PartSpec => []ScheduleIsSound /\ CommitmentsStand
<1>1. VerdictsAreRight /\ SlotsDisjoint => ScheduleIsSound
  BY DEF ScheduleIsSound
<1> QED BY <1>1, ScheduleKeeps, ScheduleAlwaysSound, CommitmentsAlwaysStand, PTL

(* A token, a code and a link are used once but for the overlaps they      *)
(* name, a used verification link verifies, failed logins are counted, and *)
(* sessions end with the password and the account.                         *)
THEOREM BackOfficeSignInsRight == PartSpec => [](SignInsAreRight /\ SessionsEndWithTheAccount)
<1>1. CredentialsAreSpentOnce /\ LatestLinkOnly /\ UsedLinkVerifies /\ LockoutCounts => SignInsAreRight
  BY DEF SignInsAreRight
<1> QED BY <1>1, AccountKeeps, SignInsAlwaysRight, SessionsAlwaysEnd, PTL

(* The subsystems other than the schema have the types they should.        *)
THEOREM BackOfficeTypesCorrect == PartSpec => [](part # "schema" => BackOfficeTypeOK)
<1>1. /\ AuthTypeOK /\ TenantTypeOK /\ HookTypeOK /\ ScheduleTypeOK /\ MessageTypeOK /\ AuditTypeOK
      /\ KeyTypeOK /\ TimeTypeOK /\ RecordTypeOK /\ StaffRecordsTypeOK
      => (part # "schema" => BackOfficeTypeOK)
  BY DEF BackOfficeTypeOK
<1> QED BY <1>1, AccountKeeps, TenantsKeep, HooksKeep, ScheduleKeeps, MessagesKeep, AuditKeeps, KeysKeep, TimersKeep,
           RecordsKeep, StaffKeeps, SignInsAlwaysRight, TenantsAlwaysAgree, WebhooksAlwaysDelivered,
           ScheduleAlwaysSound, MessagesAlwaysArrive, AuditTypeCorrect, KeysTyped, TimersAlwaysAddUp,
           RecordsAlwaysAgree, ProfilesAlwaysFollow, PTL
==============================================================================
