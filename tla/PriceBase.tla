------------------------------ MODULE PriceBase ------------------------------
(***************************************************************************)
(* Price bases, what a booking costs, and the recalculation of open        *)
(* bookings (store/pricing.go, items.go, fuel_adjustments.go,              *)
(* price_terms.go, base_import.go, gespanne.go, recalc.go and their        *)
(* handlers in server/).                                                   *)
(*                                                                         *)
(* A booking is priced by the handler and stored later; a recalculation is *)
(* priced by a preview and stored later, under the locks of the year and   *)
(* its accounts, while the catalog stays editable.                         *)
(*                                                                         *)
(* items_updated_at is kept as a number that tells one change of a basis   *)
(* from another: a recalculation asks whether it is still the same.  It is *)
(* the start of the changing transaction, which says nothing of the order  *)
(* the changes were committed in, so the comparison of times the badge     *)
(* makes with priced_at (CountPotentiallyStale) is left out.               *)
(***************************************************************************)
EXTENDS Integers, FiniteSets, Functions, FiniteSetsExt

CONSTANTS
  Base,        \* rows of price_bases, absent ones included
  Tractor, Load, Machine,   \* names of catalog items
  Rig,         \* names of fixed combinations
  Neighbor,    \* all of them take part in the year
  Entry,       \* bookings of the year, those not yet made included
  NeighborOf,  \* [Entry -> Neighbor]
  Opening,     \* the catalog the year starts with
  Day,         \* effective dates of additions and terms
  Worked,      \* dates of bookings
  Hours,       \* measured hours of a booking
  Price,       \* rates typed into the catalog forms
  Pct,         \* discounts and uplifts in percent
  Rule,        \* <<increment, minimum>> typed into the billing rule form
  Selection,   \* equipment chosen on a booking form: [tractor, load, machines]
  Null,        \* NULL
  MaxChanges,  \* bound: catalog changes
  MaxEvents    \* bound: what else operators do

VARIABLES
  bases,       \* partial function from Base to its catalog
  terms,       \* standing discounts of the neighbors
  year,        \* [base, status] of the billing year
  entries,     \* partial function from Entry to the stored booking
  clock,       \* changes of the catalog so far
  form,        \* the basis a year is about to change to, or Null
  draft,       \* a booking priced but not stored, or Null
  list,        \* a rate list in the operator's browser, or Null
  recalc,      \* a recalculation under way, or Null
  events       \* other operator steps so far

requests == <<form, draft, list, recalc>>
priceVars == <<bases, terms, year, entries, clock, form, draft, list, recalc, events>>

Nothing == <<>>
PricesInit ==
  /\ bases \in Opening
  /\ terms = {} /\ entries = Nothing
  /\ year \in [base : DOMAIN bases, status : {"open"}]
  /\ clock = 0 /\ events = 0
  /\ form = Null /\ draft = Null /\ list = Null /\ recalc = Null

Event == events < MaxEvents /\ events' = events + 1

-----------------------------------------------------------------------------
(* What an hour costs *)

SumOver(f) == FoldFunction(+, 0, f)
TractorRate(t, l) == t.ps * l
MachineRate(m) == m.width * m.cost

\* Tractor and load price each other; neither contributes alone.
NewAdjustedRateBreakdown(cat, sel, adjustment) ==
  (IF sel.tractor # Null /\ sel.load # Null
   THEN TractorRate(cat.tractors[sel.tractor], cat.loads[sel.load]) ELSE 0)
  + SumOver([m \in sel.machines \cap DOMAIN cat.machines |-> MachineRate(cat.machines[m])])
  + adjustment

\* The latest version in force on the day; zero switches the addition off.
EffectiveFuelAdjustment(cat, day) ==
  LET inForce == {d \in DOMAIN cat.fuel : d <= day}
  IN IF inForce = {} THEN 0 ELSE cat.fuel[Max(inForce)]

Covers(term, day) == term.from <= day /\ (term.to = Null \/ day <= term.to)

\* The latest start among those covering the day, the newest on a tie.
EffectivePriceTerm(granted, n, day) ==
  LET covering == {t \in granted : t.neighbor = n /\ Covers(t, day)}
      latest == {t \in covering : \A u \in covering : u.from <= t.from}
  IN IF covering = {} THEN Null
     ELSE CHOOSE t \in latest : \A u \in latest : u.id <= t.id

Discounted(rate, pct) == (rate * (100 - pct) + 50) \div 100

BilledHours(cat, hours) ==
  LET stepped == IF cat.increment > 0
                 THEN ((hours + cat.increment - 1) \div cat.increment) * cat.increment
                 ELSE hours
  IN IF stepped < cat.minimum THEN cat.minimum ELSE stepped

Cost(hours, rate) == hours * rate

\* What a booking of the selection is worth under a catalog and the terms granted.
Priced(cat, granted, n, sel, day, hours) ==
  LET fuel == EffectiveFuelAdjustment(cat, day)
      term == EffectivePriceTerm(granted, n, day)
      full == NewAdjustedRateBreakdown(cat, sel, fuel)
      rate == IF term = Null THEN full ELSE Discounted(full, term.pct)
      billed == BilledHours(cat, hours)
  IN [rate |-> rate, hours |-> billed, cost |-> Cost(billed, rate), fuel |-> fuel,
      pct |-> IF term = Null THEN 0 ELSE term.pct]

-----------------------------------------------------------------------------
(* The catalog *)

Catalog == bases[year.base]
Extend(f, x, v) == [y \in DOMAIN f \cup {x} |-> IF y = x THEN v ELSE f[y]]
Drop(f, x) == Restrict(f, DOMAIN f \ {x})

Tick == clock < MaxChanges /\ clock' = clock + 1

\* treckrr_touch_price_base: every write to an item gives a revision no other had.
Touched(cat) == [cat EXCEPT !.rev = clock + 1]

\* lockedRedirect reads the lock of the basis and the write, which names the item
\* alone, may come at any time later: a basis locked meanwhile is still written.
Editing(b) == b \in DOMAIN bases /\ Tick /\ UNCHANGED <<terms, year, requests, events>>

\* A form in flight never names an item made after it was filled in.
Unnamed(x) ==
  draft # Null => x \notin {draft.sel.tractor, draft.sel.load} \cup draft.sel.machines

Write(b, cat) == bases' = [bases EXCEPT ![b] = Touched(cat)] /\ UNCHANGED entries

SaveLoadLevel(b, l, cost) ==
  LET cat == bases[b] IN
  /\ Editing(b)
  /\ l \notin DOMAIN cat.loads => Unnamed(l)
  /\ Write(b, [cat EXCEPT !.loads = Extend(@, l, cost)])

SaveTractor(b, t, ps) ==
  LET cat == bases[b]
      active == t \in DOMAIN cat.tractors => cat.tractors[t].active
  IN /\ Editing(b) /\ ps > 0
     /\ t \notin DOMAIN cat.tractors => Unnamed(t)
     /\ Write(b, [cat EXCEPT !.tractors = Extend(@, t, [ps |-> ps, active |-> active])])

SaveMachine(b, m, width, cost, self) ==
  LET cat == bases[b]
      active == m \in DOMAIN cat.machines => cat.machines[m].active
  IN /\ Editing(b) /\ width > 0
     /\ m \notin DOMAIN cat.machines => Unnamed(m)
     /\ Write(b, [cat EXCEPT !.machines = Extend(@, m,
                    [width |-> width, cost |-> cost, self |-> self, active |-> active])])

ToggleTractor(b, t) ==
  /\ Editing(b) /\ t \in DOMAIN bases[b].tractors
  /\ Write(b, [bases[b] EXCEPT !.tractors[t].active = ~@])

ToggleMachine(b, m) ==
  /\ Editing(b) /\ m \in DOMAIN bases[b].machines
  /\ Write(b, [bases[b] EXCEPT !.machines[m].active = ~@])

\* The proposal becomes the self cost only when the operator asks for it.
UpdateMachineCostModel(b, m, proposal, apply) ==
  /\ Editing(b) /\ m \in DOMAIN bases[b].machines
  /\ Write(b, [bases[b] EXCEPT !.machines[m].self = IF apply THEN proposal ELSE @])

SaveFuelAdjustment(b, d, amount) ==
  /\ Editing(b) /\ Write(b, [bases[b] EXCEPT !.fuel = Extend(@, d, amount)])

DeleteFuelAdjustment(b, d) ==
  /\ Editing(b) /\ d \in DOMAIN bases[b].fuel
  /\ Write(b, [bases[b] EXCEPT !.fuel = Drop(@, d)])

\* ON DELETE SET NULL on the bookings and the rigs that name the row.
Nulled(f, field, x) == [y \in DOMAIN f |-> IF f[y][field] = x
                                            THEN [f[y] EXCEPT ![field] = Null] ELSE f[y]]

DeleteTractor(b, t) ==
  LET cat == [bases[b] EXCEPT !.tractors = Drop(@, t), !.rigs = Nulled(@, "tractor", t)] IN
  /\ Editing(b) /\ t \in DOMAIN bases[b].tractors
  /\ bases' = [bases EXCEPT ![b] = Touched(cat)]
  /\ entries' = [e \in DOMAIN entries |->
       IF entries[e].base = b /\ entries[e].tractor = t
       THEN [entries[e] EXCEPT !.tractor = Null] ELSE entries[e]]

DeleteLoadLevel(b, l) ==
  LET cat == [bases[b] EXCEPT !.loads = Drop(@, l), !.rigs = Nulled(@, "load", l)] IN
  /\ Editing(b) /\ l \in DOMAIN bases[b].loads
  /\ bases' = [bases EXCEPT ![b] = Touched(cat)]
  /\ entries' = [e \in DOMAIN entries |->
       IF entries[e].base = b /\ entries[e].load = l
       THEN [entries[e] EXCEPT !.load = Null] ELSE entries[e]]

\* The link of a booking to a machine cannot be nulled: the delete fails.
DeleteMachine(b, m) ==
  /\ Editing(b) /\ m \in DOMAIN bases[b].machines
  /\ \A e \in DOMAIN entries : ~(entries[e].base = b /\ m \in entries[e].machines)
  /\ Write(b, [bases[b] EXCEPT !.machines = Drop(@, m),
                 !.rigs = [g \in DOMAIN @ |-> [@[g] EXCEPT !.machines = @ \ {m}]]])

\* Tractor and load belong together, and a rig needs something to price.
SaveGespann(b, g, sel) ==
  LET cat == bases[b] IN
  /\ b \in DOMAIN bases /\ Event
  /\ (sel.tractor = Null) = (sel.load = Null)
  /\ sel.tractor # Null \/ sel.machines # {}
  /\ sel.tractor \in DOMAIN cat.tractors \cup {Null}
  /\ sel.load \in DOMAIN cat.loads \cup {Null} /\ sel.machines \subseteq DOMAIN cat.machines
  /\ bases' = [bases EXCEPT ![b].rigs = Extend(@, g, sel)]
  /\ UNCHANGED <<terms, year, entries, clock, requests>>

DeleteGespann(b, g) ==
  /\ b \in DOMAIN bases /\ Event
  /\ g \in DOMAIN bases[b].rigs
  /\ bases' = [bases EXCEPT ![b].rigs = Drop(@, g)]
  /\ UNCHANGED <<terms, year, entries, clock, requests>>

\* One guarded statement, and a trigger that looks for a difference.
UpdateBaseBillingRule(b, rule) ==
  /\ b \in DOMAIN bases /\ ~bases[b].locked
  /\ rule # <<bases[b].increment, bases[b].minimum>> /\ Tick
  /\ bases' = [bases EXCEPT ![b] =
       Touched([@ EXCEPT !.increment = rule[1], !.minimum = rule[2]])]
  /\ UNCHANGED <<terms, year, entries, requests, events>>

SetBaseLocked(b) ==
  /\ b \in DOMAIN bases /\ Event
  /\ bases' = [bases EXCEPT ![b].locked = ~@]
  /\ UNCHANGED <<terms, year, entries, clock, requests>>

-----------------------------------------------------------------------------
(* Bases *)

Blank == [locked |-> FALSE, increment |-> 0, minimum |-> 0, rev |-> 0, loads |-> Nothing,
          tractors |-> Nothing, machines |-> Nothing, fuel |-> Nothing, rigs |-> Nothing]

ASSUME OpeningShaped ==
  \A catalogs \in Opening : \A b \in DOMAIN catalogs :
    DOMAIN catalogs[b] = DOMAIN Blank /\ catalogs[b].rev = 0

Create(b, cat) ==
  /\ b \notin DOMAIN bases /\ Tick
  /\ bases' = Extend(bases, b, Touched([cat EXCEPT !.locked = FALSE]))
  /\ UNCHANGED <<terms, year, entries, form, draft, recalc, events>>

CreateEmptyBase(b) == Create(b, Blank) /\ UNCHANGED list

\* Everything but the history of the addition: the version in force at the start.
CloneBase(src, b, start) ==
  LET inForce == {d \in DOMAIN bases[src].fuel : d <= start} IN
  /\ src \in DOMAIN bases
  /\ Create(b, [bases[src] EXCEPT !.fuel =
       IF inForce = {} THEN Nothing ELSE [d \in {start} |-> @[Max(inForce)]]])
  /\ UNCHANGED list

\* BaseInUse is asked first; the foreign key of the year has the last word.
DeleteBase(b) ==
  /\ b \in DOMAIN bases /\ year.base # b /\ Event
  /\ bases' = Drop(bases, b)
  /\ UNCHANGED <<terms, year, entries, clock, requests>>

Rounded(x, y) == (2 * x + y) \div (2 * y)
UpliftRate(rate, pct) == IF pct = 0 THEN rate ELSE Rounded(rate * (100 + pct), 100)

\* The uplift writes the raised catalog as the text of a rate list ...
BaseUpliftPreview(src, load, machine) ==
  /\ list = Null /\ src \in DOMAIN bases /\ Event
  /\ list' = [source |-> src,
       loads |-> [l \in DOMAIN bases[src].loads |-> UpliftRate(bases[src].loads[l], load)],
       tractors |-> bases[src].tractors,
       machines |-> [m \in DOMAIN bases[src].machines |->
         [bases[src].machines[m] EXCEPT !.cost = UpliftRate(@, machine)]]]
  /\ UNCHANGED <<bases, terms, year, entries, clock, form, draft, recalc>>

\* ... and an edited export is one too; either may lack items of its source,
\* and a machine may leave its self cost blank.
BaseImportPreview(src, dropped, blank) ==
  /\ list = Null /\ src \in DOMAIN bases /\ Event
  /\ list' = [source |-> src, loads |-> bases[src].loads,
       tractors |-> Restrict(bases[src].tractors, DOMAIN bases[src].tractors \ dropped),
       machines |-> [m \in DOMAIN bases[src].machines |->
         [bases[src].machines[m] EXCEPT !.self = IF blank THEN Null ELSE @]]]
  /\ UNCHANGED <<bases, terms, year, entries, clock, form, draft, recalc>>

\* Only rigs whose parts are all in the list are made again.
CopyMatchingGespanne(cat) ==
  Restrict(cat.rigs, {g \in DOMAIN cat.rigs :
    /\ cat.rigs[g].tractor \in DOMAIN list.tractors \cup {Null}
    /\ cat.rigs[g].load \in DOMAIN list.loads \cup {Null}
    /\ cat.rigs[g].machines \subseteq DOMAIN list.machines})

SelfCost(cat, m) ==
  IF list.machines[m].self # Null THEN list.machines[m].self
  ELSE IF m \in DOMAIN cat.machines THEN cat.machines[m].self ELSE 0

\* handleBaseImportCommit reads the text again; its source may have moved on or
\* be gone, and the list brings no additions of its own.
CreateBaseFromRateList(b) ==
  /\ list # Null /\ list.source \in DOMAIN bases /\ list' = Null
  /\ LET src == bases[list.source] IN
     Create(b, [src EXCEPT !.loads = list.loads, !.tractors = list.tractors,
       !.machines = [m \in DOMAIN list.machines |->
         [list.machines[m] EXCEPT !.self = SelfCost(src, m)]],
       !.fuel = Nothing, !.rigs = CopyMatchingGespanne(src)])

-----------------------------------------------------------------------------
(* Price terms *)

\* treckrr_touch_neighbor_bases: every basis the neighbor is billed under.
TouchNeighborBases == bases' = [bases EXCEPT ![year.base] = Touched(@)]

CreatePriceTerm(n, pct, from, to) ==
  /\ Tick
  /\ to # Null => to >= from
  /\ terms' = terms \cup {[id |-> clock, neighbor |-> n, pct |-> pct, from |-> from, to |-> to]}
  /\ TouchNeighborBases
  /\ UNCHANGED <<year, entries, requests, events>>

DeletePriceTerm(term) ==
  /\ Tick /\ term \in terms /\ terms' = terms \ {term}
  /\ TouchNeighborBases
  /\ UNCHANGED <<year, entries, requests, events>>

-----------------------------------------------------------------------------
(* Bookings *)

Locked(n) == recalc # Null /\ recalc.pc = "locked" /\ n \in recalc.accounts
YearLocked == recalc # Null /\ recalc.pc = "locked"
Booked(e) == e \in DOMAIN entries
Open == year.status = "open"

\* resolveEquipment: every part must still exist.
ResolveEquipment(cat, sel) ==
  /\ (sel.tractor = Null) = (sel.load = Null)
  /\ sel.tractor # Null \/ sel.machines # {}
  /\ sel.tractor \in DOMAIN cat.tractors \cup {Null}
  /\ sel.load \in DOMAIN cat.loads \cup {Null} /\ sel.machines \subseteq DOMAIN cat.machines

\* The handler prices the form, of a new booking or of an edit.
PriceBooking(e, sel, day, hours) ==
  /\ draft = Null /\ Open /\ ResolveEquipment(Catalog, sel)
  /\ Booked(e) => ~entries[e].claimed /\ ~entries[e].voided /\ entries[e].base = year.base
  /\ draft' = [entry |-> e, sel |-> sel, day |-> day, edit |-> Booked(e), base |-> year.base,
               price |-> Priced(Catalog, terms, NeighborOf[e], sel, day, hours)]
  /\ UNCHANGED <<bases, terms, year, entries, clock, form, list, recalc, events>>

Stored(d, claimed, voided) ==
  [base |-> d.base, unit |-> "h", tractor |-> d.sel.tractor, load |-> d.sel.load,
   machines |-> d.sel.machines, labels |-> [tractor |-> d.sel.tractor, load |-> d.sel.load],
   day |-> d.day, price |-> d.price, claimed |-> claimed, voided |-> voided]

\* Foreign keys: what the form names must still exist.
Storable(d) == d.base \in DOMAIN bases /\ ResolveEquipment(bases[d.base], d.sel)

InsertEntry ==
  /\ draft # Null /\ ~draft.edit /\ ~Booked(draft.entry)
  /\ Open /\ ~Locked(NeighborOf[draft.entry]) /\ Storable(draft)
  /\ entries' = Extend(entries, draft.entry, Stored(draft, FALSE, FALSE))
  /\ draft' = Null
  /\ UNCHANGED <<bases, terms, year, clock, form, list, recalc, events>>

\* Faulty variant: an invoice does not stand in the way.
LockEntry(e) == Booked(e)

\* lockUninvoicedEntry: not while an active invoice holds the booking.
LockUninvoicedEntry(e) == ~entries[e].claimed

UpdateEntry ==
  /\ draft # Null /\ draft.edit
  /\ Open /\ ~Locked(NeighborOf[draft.entry]) /\ LockUninvoicedEntry(draft.entry)
  /\ Storable(draft)
  /\ LET e == draft.entry IN
     entries' = [entries EXCEPT ![e] = Stored(draft, @.claimed, @.voided)]
  /\ draft' = Null
  /\ UNCHANGED <<bases, terms, year, clock, form, list, recalc, events>>

DropBooking ==
  /\ draft # Null /\ draft' = Null
  /\ UNCHANGED <<bases, terms, year, entries, clock, form, list, recalc, events>>

\* Hectares, bales and lump sums carry the price that was typed.
BookQuantity(e, rate) ==
  /\ ~Booked(e) /\ draft = Null /\ Open /\ ~Locked(NeighborOf[e]) /\ Event
  /\ entries' = Extend(entries, e,
       [Stored([base |-> year.base, day |-> Min(Worked),
                sel |-> [tractor |-> Null, load |-> Null, machines |-> {}],
                price |-> [rate |-> rate, hours |-> 1, cost |-> rate, fuel |-> 0, pct |-> 0]],
               FALSE, FALSE) EXCEPT !.unit = "ha"])
  /\ UNCHANGED <<bases, terms, year, clock, requests>>

SetEntryVoided(e) ==
  /\ Booked(e) /\ Open /\ ~Locked(NeighborOf[e]) /\ LockUninvoicedEntry(e) /\ Event
  /\ entries' = [entries EXCEPT ![e].voided = ~@]
  /\ UNCHANGED <<bases, terms, year, clock, requests>>

\* An invoice takes its bookings under the account lock; a storno frees them.
ClaimEntry(e) ==
  /\ Booked(e) /\ ~Locked(NeighborOf[e]) /\ ~entries[e].voided /\ Event
  /\ entries' = [entries EXCEPT ![e].claimed = ~@]
  /\ UNCHANGED <<bases, terms, year, clock, requests>>

SetYearStatus(status) ==
  /\ year.status # status /\ ~YearLocked /\ Event
  /\ year' = [year EXCEPT !.status = status]
  /\ UNCHANGED <<bases, terms, entries, clock, requests>>

\* handleYearUpdate counts the bookings and then writes; whether it happened during a
\* recalculation is noted there.
AdmitSwitch(b) ==
  /\ form = Null /\ b \in DOMAIN bases /\ b # year.base /\ entries = Nothing
  /\ form' = b
  /\ UNCHANGED <<bases, terms, year, entries, clock, draft, list, recalc, events>>

UpdateBillingYear ==
  /\ form # Null /\ form \in DOMAIN bases
  /\ ~YearLocked /\ Event
  /\ year' = [year EXCEPT !.base = form] /\ form' = Null
  /\ recalc' = IF recalc = Null THEN Null ELSE [recalc EXCEPT !.moved = TRUE]
  /\ UNCHANGED <<bases, terms, entries, clock, draft, list>>

-----------------------------------------------------------------------------
(* Recalculation *)

\* A booking keeps the ids of the basis it was made under.
Resolves(e) ==
  /\ e.base = year.base
  /\ \/ /\ e.tractor \in DOMAIN Catalog.tractors /\ e.load \in DOMAIN Catalog.loads
     \/ e.tractor = Null /\ e.load = Null

\* By the hour, and either with its tractor and load or with machines alone.
Priceable(e) ==
  /\ e.unit = "h"
  /\ \/ e.tractor = Null /\ e.load = Null /\ e.machines # {}
     \/ e.tractor # Null /\ e.load # Null /\ Resolves(e)

\* The machines of another basis do not resolve and add nothing.
Resolved(e) ==
  [tractor |-> e.tractor, load |-> e.load,
   machines |-> IF e.base = year.base THEN e.machines ELSE {}]

\* One row of the preview: what a stored booking of the neighbor would cost today.
Repriced(n, e) ==
  IF Priceable(e) THEN Priced(Catalog, terms, n, Resolved(e), e.day, e.price.hours) ELSE e.price

\* entries.tractor_label and load_label follow what was priced.
RepricedLabels(e) ==
  IF Priceable(e) THEN [tractor |-> e.tractor, load |-> e.load] ELSE e.labels

InScope(scope) ==
  {e \in DOMAIN entries : NeighborOf[e] \in scope /\ ~entries[e].voided /\ ~entries[e].claimed}

\* ApplyRecalc notes the revision ...
RecalcBegin ==
  /\ recalc = Null /\ Open
  /\ recalc' = [pc |-> "noted", rev |-> Catalog.rev, moved |-> FALSE, old |-> Nothing,
                new |-> Nothing, labels |-> Nothing, accounts |-> {}]
  /\ UNCHANGED <<bases, terms, year, entries, clock, form, draft, list, events>>

\* ... and prices every open booking in scope.
RecalcPreview(scope) ==
  LET rows == InScope(scope) IN
  /\ recalc # Null /\ recalc.pc = "noted"
  /\ recalc' = [recalc EXCEPT !.pc = "previewed",
       !.old = [e \in rows |-> entries[e]],
       !.new = [e \in rows |-> Repriced(NeighborOf[e], entries[e])],
       !.labels = [e \in rows |-> RepricedLabels(entries[e])],
       !.accounts = {NeighborOf[e] : e \in rows} \cup (IF scope = Neighbor THEN {} ELSE scope)]
  /\ UNCHANGED <<bases, terms, year, entries, clock, form, draft, list, events>>

\* Faulty variant: the revision is not looked at again.
RecalcLockBlind ==
  /\ recalc # Null /\ recalc.pc = "previewed" /\ Open
  /\ recalc' = [recalc EXCEPT !.pc = "locked"]
  /\ UNCHANGED <<bases, terms, year, entries, clock, form, draft, list, events>>

\* The year row, the accounts, then the revision once more.
RecalcLock ==
  /\ recalc # Null /\ recalc.pc = "previewed"
  /\ Open /\ recalc.rev = Catalog.rev
  /\ recalc' = [recalc EXCEPT !.pc = "locked"]
  /\ UNCHANGED <<bases, terms, year, entries, clock, form, draft, list, events>>

RecalcRefused ==
  /\ recalc # Null /\ recalc.pc = "previewed"
  /\ ~Open \/ recalc.rev # Catalog.rev
  /\ recalc' = Null
  /\ UNCHANGED <<bases, terms, year, entries, clock, form, draft, list, events>>

Rows == DOMAIN recalc.old
Changed(e) == recalc.old[e].price # recalc.new[e]
Guarded(e) ==
  \A field \in {"rate", "cost", "hours"} : entries[e].price[field] = recalc.old[e].price[field]

\* A row that an invoice took, or that no longer costs what the preview saw,
\* refuses the whole recalculation.
Applicable ==
  \A e \in Rows : LockUninvoicedEntry(e) /\ (Changed(e) => Guarded(e))

RecalcWrite ==
  /\ recalc # Null /\ recalc.pc = "locked" /\ Applicable
  /\ entries' = [e \in DOMAIN entries |->
       IF e \in Rows /\ Changed(e)
       THEN [entries[e] EXCEPT !.price = recalc.new[e], !.labels = recalc.labels[e]]
       ELSE entries[e]]
  /\ recalc' = Null
  /\ UNCHANGED <<bases, terms, year, clock, form, draft, list, events>>

RecalcConflict ==
  /\ recalc # Null /\ recalc.pc = "locked" /\ ~Applicable
  /\ recalc' = Null
  /\ UNCHANGED <<bases, terms, year, entries, clock, form, draft, list, events>>

-----------------------------------------------------------------------------
CatalogStep(b) ==
  \/ SetBaseLocked(b)
  \/ \E l \in Load : DeleteLoadLevel(b, l) \/ \E c \in Price : SaveLoadLevel(b, l, c)
  \/ \E t \in Tractor :
       DeleteTractor(b, t) \/ ToggleTractor(b, t) \/ \E c \in Price : SaveTractor(b, t, c)
  \/ \E m \in Machine :
       \/ DeleteMachine(b, m) \/ ToggleMachine(b, m)
       \/ \E c \in Price : SaveMachine(b, m, 1, c, 0)
       \/ \E apply \in BOOLEAN : UpdateMachineCostModel(b, m, 1, apply)
  \/ \E d \in Day : DeleteFuelAdjustment(b, d) \/ \E c \in Price : SaveFuelAdjustment(b, d, c)
  \/ \E g \in Rig : DeleteGespann(b, g) \/ \E sel \in Selection : SaveGespann(b, g, sel)
  \/ \E rule \in Rule : UpdateBaseBillingRule(b, rule)

BaseStep(b) ==
  \/ CreateEmptyBase(b) \/ DeleteBase(b) \/ CreateBaseFromRateList(b)
  \/ \E src \in Base, start \in Day : CloneBase(src, b, start)
  \/ \E load, machine \in Pct \cup {0} : BaseUpliftPreview(b, load, machine)
  \/ \E dropped \in SUBSET Tractor, blank \in BOOLEAN : BaseImportPreview(b, dropped, blank)
  \/ AdmitSwitch(b)

TermStep ==
  \/ \E n \in Neighbor, pct \in Pct, from \in Day, to \in Day \cup {Null} :
       CreatePriceTerm(n, pct, from, to)
  \/ \E term \in terms : DeletePriceTerm(term)

BookingStep ==
  \/ \E e \in Entry, sel \in Selection, day \in Worked, hours \in Hours :
       PriceBooking(e, sel, day, hours)
  \/ InsertEntry \/ UpdateEntry \/ DropBooking
  \/ \E e \in Entry :
       \/ \E rate \in Price : BookQuantity(e, rate)
       \/ SetEntryVoided(e) \/ ClaimEntry(e)
  \/ \E status \in {"open", "completed"} : SetYearStatus(status)
  \/ UpdateBillingYear

RecalcStep ==
  \/ \E scope \in {Neighbor} \cup {{n} : n \in Neighbor} : RecalcPreview(scope)
  \/ RecalcBegin \/ RecalcLock \/ RecalcRefused \/ RecalcWrite \/ RecalcConflict

PricesNext ==
  \/ \E b \in Base : CatalogStep(b) \/ BaseStep(b)
  \/ TermStep \/ BookingStep \/ RecalcStep

PricesSpec == PricesInit /\ [][PricesNext]_priceVars

-----------------------------------------------------------------------------
(* Properties *)

\* A recalculation takes its locks with no preview that has been overtaken: whichever
\* items, terms or rules were edited since its revision was noted, by whichever path,
\* what it found each booking to cost is what the catalog and the terms of that moment
\* give (ApplyRecalc compares the revision under the locks, and every trigger moves it).
\* A change of the year's basis in between is not what the revision tells.
PreviewHolds ==
  [][(/\ recalc # Null /\ recalc.pc = "previewed" /\ ~recalc.moved
      /\ recalc' # Null /\ recalc'.pc = "locked")
     => \A e \in Rows : recalc.new[e] = Repriced(NeighborOf[e], recalc.old[e])]_priceVars

\* Whatever is priced, edited or recalculated meanwhile, a booking that an invoice
\* holds, or of a year that is completed, keeps its price (lockUninvoicedEntry and
\* the status read again under the year lock).
FrozenPrices ==
  [][\A e \in DOMAIN entries :
       entries[e].claimed \/ ~Open => entries'[e].price = entries[e].price]_priceVars

\* A recalculation prices "same tractor/load/machines as booked" (RecalcPreview).
RepricedAsBooked ==
  [][\A e \in DOMAIN entries :
       draft' = draft /\ entries'[e].price # entries[e].price
         => entries'[e].labels = entries[e].labels]_priceVars
=============================================================================
