-------------------------- MODULE PortalPagesProofs --------------------------
(***************************************************************************)
(* What the pages of the portal show and whom they wait for, for any       *)
(* number of chains under way, any ids and services.                       *)
(***************************************************************************)
EXTENDS PortalPages, FiniteSetTheorems, TLAPS

-----------------------------------------------------------------------------
(* The chains                                                              *)

Loads  == {"transfer", "account", "account ledger", "transfer ledger", "alerts",
           "alert", "overview", "notifications", "health"}
Submits == {"kyc", "freeze"}
Plain   == {"create transfer", "create account", "copy"}
Kinds   == Loads \cup Submits \cup Writes \cup {"copy"}
Sending == {"create transfer"}
Listing == Loads \ {"alert"}
Freeing == {"freed", "finally"}
Bare    == {"overview", "notifications", "health"}
Fields == {"kind", "slot", "id", "here", "got", "after", "mate"}

\* The panel a chain fills, and what a panel that it fills is of.
SlotOf(kind)  == IF kind = "alert" THEN "side"
                 ELSE IF kind \in Loads \cup Submits THEN "main" ELSE None
About(kind) == IF kind \in Submits THEN "account" ELSE kind

In(chs, c, s) == chs[c].here /\ chs[c].slot = s

\* A chain under way, and what it has heard so far.
Fits(ch) ==
  /\ DOMAIN ch = Fields
  /\ ch.kind \in Kinds
  /\ ch.here \in BOOLEAN
  /\ ch.slot = IF ch.here THEN SlotOf(ch.kind) ELSE None
  /\ ~ch.here => ch.kind \in Creations
  /\ ch.kind \in Bare => ch.id = None
  /\ ch.kind = "account" /\ ch.got # <<>> => ch.got[1].of = ch.id
  /\ ch.kind = "account ledger" /\ ch.got # <<>> => ch.got[1] = ch.id
  /\ ch.after \in {None} \cup Freeing
  /\ ch.mate # 0 => ch.here /\ ch.kind \in {"alerts", "alert"} /\ ch.after = "finally"

Paired(chs, c) ==
  Fits(chs[c]) /\ chs[c].mate # 0 =>
    /\ chs[c].mate \in Chains \ {c}
    /\ Fits(chs[chs[c].mate])
    /\ chs[chs[c].mate].mate = c

Orderly(chs) ==
  /\ DOMAIN chs = Chains
  /\ \A c \in Chains : chs[c] = Idle \/ Fits(chs[c])
  /\ \A c \in Chains : Paired(chs, c)

\* A freeze that has been heard of has happened.
Truthful(chs, suspended) ==
  \A c \in Chains :
    chs[c].kind = "freeze" /\ chs[c].here /\ chs[c].got # <<>> => chs[c].id \in suspended

-----------------------------------------------------------------------------
(* The panels                                                              *)

\* Answers for a panel that are of one record.
Agree(kind, id, first, second, r) ==
  /\ kind = "account" => first.of = id /\ second \in {None, id}
  /\ kind \in {"account ledger", "transfer ledger"} => first = id /\ second \in {None, id}
  /\ kind = "overview" /\ second # None => r = "admin" /\ second = first
  /\ kind = "health" => \E a \in HealthReports : first = GatewayHealth(a)

\* What a panel shows is of one record.
Whole(p, r) ==
  /\ p.status \in {"idle", "loading", "error", "ready"}
  /\ p.status = "ready" =>
       /\ p.of = <<p.of[1], p.of[2]>>
       /\ p.of[1] \notin Submits
       /\ Agree(p.of[1], p.of[2], p.first, p.second, r)

\* A panel shows what is for it.
Placed(s, p) == p.status = "ready" => SlotOf(p.of[1]) = s

\* A panel and the chains about it are of what it may show, and know what the
\* page has been told.
Current(chs, s, p, shows, told) ==
  /\ \A c \in Chains : In(chs, c, s) => <<About(chs[c].kind), chs[c].id>> \in shows
  /\ \A c \in Chains : In(chs, c, s) /\ chs[c].kind = "account" /\ chs[c].got # <<>>
                         /\ chs[c].id \in told => chs[c].got[1].suspended
  /\ p.status = "ready" => p.of \in shows
  /\ p.status = "ready" /\ p.of[1] = "account" /\ p.of[2] \in told => p.first.suspended

\* Whoever waits, waits for a chain.
PanelWaits(chs, s, p) ==
  p.status = "loading" => \E c \in Chains : In(chs, c, s) /\ chs[c].kind \notin Submits

ButtonWaits(chs, b) ==
  b # None => \E c \in Chains : /\ chs[c].here
                                /\ \/ chs[c].kind \in Writes \cup {"copy"}
                                   \/ chs[c].after # None

FormWaits(chs, f) ==
  f.submitting => \E c \in Chains : chs[c].kind = "create transfer" /\ chs[c].here

\* The panels, the button and the form that are left waiting may wait in vain.
Waits(chs, pan, b, f, idle) ==
  /\ \A s \in Slots \ idle : PanelWaits(chs, s, pan[s])
  /\ "button" \in idle \/ ButtonWaits(chs, b)
  /\ "form" \in idle \/ FormWaits(chs, f)

\* One chain at most sends the form.
Sends(chs, c) == chs[c].kind = "create transfer" /\ chs[c].here
Single(chs, f) == \A c, d \in Chains : Sends(chs, c) /\ Sends(chs, d) => c = d /\ f.submitting

-----------------------------------------------------------------------------
\* The form: what the gateway keeps for its key tells what it has paid, but for
\* what it did not keep.
Forms == [submitting : BOOLEAN, kept : {None, "paid", "refused"}, paid : Nat, unkept : Nat]

Counted(f) == f \in Forms /\ f.paid <= f.unkept + (IF f.kept = "paid" THEN 1 ELSE 0)

PagesInv ==
  /\ route \in Routes \cup {Forbidden}
  /\ DOMAIN panel = Slots
  /\ Orderly(chain)
  /\ Truthful(chain, frozen)
  /\ acked \subseteq frozen
  /\ \A s \in Slots : Whole(panel[s], role) /\ Placed(s, panel[s])
  /\ \A s \in Slots : Current(chain, s, panel[s], asked[s] \cup left[s], acked)
  /\ Waits(chain, panel, mutation, form, stranded)
  /\ Single(chain, form)
  /\ Counted(form)

-----------------------------------------------------------------------------
(* One chain                                                               *)

LEMMA IdleIs ==
  /\ Idle.kind = None /\ Idle.here = FALSE /\ ~Fits(Idle)
  /\ \A ch : Fits(ch) => ch # Idle /\ ch.kind # None
<1>1. Idle.kind = None /\ Idle.here = FALSE
  BY DEF Idle
<1>2. \A ch : Fits(ch) => ch.kind # None
  BY DEF Fits, Kinds, Loads, Submits, Writes, Creations, None
<1> QED
  BY <1>1, <1>2

LEMMA FreeIsIdle ==
  ASSUME NEW chs, NEW n, NEW c \in Free(chs, n)
  PROVE  c \in Chains /\ chs[c] = Idle
  BY DEF Free

LEMMA ChainFits ==
  ASSUME NEW kind \in Kinds, NEW id, kind \in Bare => id = None,
         NEW ch, ch = Chain(kind, SlotOf(kind), id)
  PROVE  /\ Fits(ch) /\ ch.here /\ ch.got = <<>> /\ ch.mate = 0 /\ ch.after = None
         /\ ch.kind = kind /\ ch.slot = SlotOf(kind) /\ ch.id = id
  BY DEF Chain, Fits, Fields, Kinds

LEMMA FreesFits ==
  ASSUME NEW ch, Fits(ch), NEW after \in Freeing, after = "finally" \/ ch.mate = 0,
         NEW new, new = [ch EXCEPT !.after = after]
  PROVE  /\ Fits(new) /\ new.after = after
         /\ \A f \in Fields \ {"after"} : new[f] = ch[f]
  BY DEF Fits, Fields

\* What a chain has heard is of the record that it asks for.
Answers(ch, got) ==
  /\ ch.kind = "account" => got.of = ch.id
  /\ ch.kind = "account ledger" => got = ch.id

LEMMA HearsFits ==
  ASSUME NEW ch, Fits(ch), NEW got, Answers(ch, got),
         NEW new, new = [ch EXCEPT !.got = <<got>>]
  PROVE  /\ Fits(new) /\ new.got = <<got>> /\ new.got # <<>> /\ new.got[1] = got
         /\ \A f \in Fields \ {"got"} : new[f] = ch[f]
  BY DEF Fits, Fields, Answers

LEMMA LeavesFits ==
  ASSUME NEW ch, Fits(ch), ch.kind \in Creations,
         NEW new, new = [ch EXCEPT !.here = FALSE, !.slot = None]
  PROVE  Fits(new) /\ ~new.here /\ new.kind = ch.kind
  BY DEF Fits, Fields, Creations

LEMMA UnpairedFits ==
  ASSUME NEW ch, Fits(ch), NEW new, new = [ch EXCEPT !.mate = 0]
  PROVE  /\ Fits(new) /\ new.mate = 0 /\ new.after = ch.after
         /\ \A f \in Fields \ {"mate", "after"} : new[f] = ch[f]
  BY DEF Fits, Fields

Abandoned(ch) == [ch EXCEPT !.mate = 0, !.after = None]

LEMMA AbandonedFits ==
  ASSUME NEW ch, Fits(ch), NEW new, new = Abandoned(ch)
  PROVE  /\ Fits(new) /\ new.mate = 0
         /\ \A f \in Fields \ {"mate", "after"} : new[f] = ch[f]
  BY DEF Fits, Fields, Abandoned

-----------------------------------------------------------------------------
(* All chains                                                              *)

\* New chains take the places of idle ones.
Adds(old, chs, fresh) ==
  /\ fresh \subseteq Chains
  /\ DOMAIN chs = Chains
  /\ \A c \in Chains \ fresh : chs[c] = old[c]
  /\ \A c \in fresh : /\ old[c] = Idle
                      /\ Fits(chs[c]) /\ chs[c].here /\ chs[c].got = <<>>
                      /\ Paired(chs, c)

LEMMA AddsOrderly ==
  ASSUME NEW old, NEW chs, NEW fresh, Orderly(old), Adds(old, chs, fresh)
  PROVE  Orderly(chs)
<1>1. ASSUME NEW c \in Chains
      PROVE  chs[c] = Idle \/ Fits(chs[c])
  BY DEF Adds, Orderly
<1>2. ASSUME NEW c \in Chains
      PROVE  Paired(chs, c)
  <2>1. CASE c \in fresh
    BY <2>1 DEF Adds
  <2>2. CASE c \notin fresh /\ Fits(chs[c]) /\ chs[c].mate # 0
    <3>1. chs[c] = old[c] /\ Paired(old, c)
      BY <2>2 DEF Adds, Orderly
    <3>2. PICK d : d = old[c].mate
      OBVIOUS
    <3>3. d \in Chains \ {c} /\ Fits(old[d]) /\ old[d].mate = c
      BY <2>2, <3>1, <3>2 DEF Paired
    <3>4. chs[d] = old[d]
      BY <3>3, IdleIs DEF Adds
    <3> QED
      BY <3>1, <3>2, <3>3, <3>4 DEF Paired
  <2> QED
    BY <2>1, <2>2 DEF Paired
<1> QED
  BY <1>1, <1>2 DEF Orderly, Adds

LEMMA AddsTruthful ==
  ASSUME NEW old, NEW chs, NEW fresh, NEW f, Truthful(old, f), Adds(old, chs, fresh)
  PROVE  Truthful(chs, f)
  BY DEF Truthful, Adds

LEMMA AddsWaits ==
  ASSUME NEW old, NEW chs, NEW fresh, Adds(old, chs, fresh)
  PROVE  /\ \A s, p : PanelWaits(old, s, p) => PanelWaits(chs, s, p)
         /\ \A b : ButtonWaits(old, b) => ButtonWaits(chs, b)
         /\ \A f : FormWaits(old, f) => FormWaits(chs, f)
<1>1. \A c \in Chains : old[c].here => chs[c] = old[c]
  BY IdleIs DEF Adds
<1> QED
  BY <1>1 DEF PanelWaits, ButtonWaits, FormWaits, In

\* What is still shown of a panel is what was, and fewer chains are about it.
LEMMA CurrentOfFewer ==
  ASSUME NEW old, NEW chs, NEW s, NEW p, NEW q, NEW w, NEW told, NEW tell,
         Current(old, s, p, w, told),
         \A c \in Chains : In(chs, c, s) =>
           /\ In(old, c, s)
           /\ About(chs[c].kind) = About(old[c].kind) /\ chs[c].id = old[c].id
           /\ chs[c].kind = "account" /\ chs[c].got # <<>> /\ chs[c].id \in tell =>
                chs[c].got[1].suspended,
         q.status = "ready" =>
           /\ q.of \in w
           /\ q.of[1] = "account" /\ q.of[2] \in tell => q.first.suspended
  PROVE  Current(chs, s, q, w, tell)
  BY DEF Current

\* What is under way for a panel.
LEMMA SubjectsAre ==
  /\ \A ch : Subject(ch) = <<About(ch.kind), ch.id>>
  /\ \A chs, s : \A c \in Chains :
       In(chs, c, s) => <<About(chs[c].kind), chs[c].id>> \in UnderWay(chs, s)
<1>1. \A ch : Subject(ch) = <<About(ch.kind), ch.id>>
  BY DEF Subject, About, Submits
<1> QED
  BY <1>1 DEF UnderWay, In

\* A panel that may show what is under way, and what is new.
LEMMA AddsAsked ==
  ASSUME NEW old, NEW chs, NEW fresh, NEW s, NEW p, NEW q, NEW w, NEW shows, NEW told,
         NEW tell \in SUBSET told,
         Adds(old, chs, fresh), Current(old, s, p, w, told), UnderWay(old, s) \subseteq shows,
         \A c \in fresh : chs[c].slot = s => <<About(chs[c].kind), chs[c].id>> \in shows,
         q.status = "ready" => q = p /\ q.of \in shows
  PROVE  Current(chs, s, q, shows, tell)
<1>1. ASSUME NEW c \in Chains, In(chs, c, s)
      PROVE  <<About(chs[c].kind), chs[c].id>> \in shows
  <2>1. CASE c \in fresh
    BY <1>1, <2>1 DEF In
  <2>2. CASE c \notin fresh
    <3>1. chs[c] = old[c] /\ In(old, c, s)
      BY <1>1, <2>2 DEF Adds, In
    <3> QED
      BY <3>1, SubjectsAre
  <2> QED
    BY <2>1, <2>2
<1>2. ASSUME NEW c \in Chains, In(chs, c, s), chs[c].kind = "account", chs[c].got # <<>>,
             chs[c].id \in tell
      PROVE  chs[c].got[1].suspended
  <2>1. c \notin fresh
    BY <1>2 DEF Adds
  <2>2. chs[c] = old[c] /\ In(old, c, s)
    BY <1>2, <2>1 DEF Adds, In
  <2> QED
    BY <1>2, <2>2 DEF Current
<1> QED
  BY <1>1, <1>2 DEF Current

\* A panel that may show what it might before, and is loaded again at most.
LEMMA AddsAgain ==
  ASSUME NEW old, NEW chs, NEW fresh, NEW s, NEW p, NEW q, NEW w, NEW told,
         Adds(old, chs, fresh), Current(old, s, p, w, told),
         \A c \in fresh : chs[c].slot = s => <<About(chs[c].kind), chs[c].id>> \in w,
         q.status = "ready" => q = p
  PROVE  Current(chs, s, q, w, told)
<1>1. ASSUME NEW c \in Chains, In(chs, c, s), c \notin fresh
      PROVE  chs[c] = old[c] /\ In(old, c, s)
  BY <1>1 DEF Adds, In
<1>2. \A c \in fresh : chs[c].got = <<>>
  BY DEF Adds
<1>3. \A c \in Chains : In(chs, c, s) => <<About(chs[c].kind), chs[c].id>> \in w
  BY <1>1 DEF Current, In
<1>4. \A c \in Chains : In(chs, c, s) /\ chs[c].kind = "account" /\ chs[c].got # <<>>
                         /\ chs[c].id \in told => chs[c].got[1].suspended
  BY <1>1, <1>2 DEF Current
<1> QED
  BY <1>3, <1>4 DEF Current

\* Chains that send no form leave it alone.
LEMMA AddsSingle ==
  ASSUME NEW old, NEW chs, NEW fresh, NEW f, Adds(old, chs, fresh), Single(old, f),
         \A c \in fresh : chs[c].kind # "create transfer"
  PROVE  Single(chs, f)
<1>1. \A c \in Chains : Sends(chs, c) => Sends(old, c)
  BY DEF Adds, Sends
<1> QED
  BY <1>1 DEF Single

-----------------------------------------------------------------------------
(* Handlers that start chains                                              *)

\* Chains that a handler may start: of one panel at most one, and where it
\* has its mate among them.
Fresh(new) ==
  \A c \in DOMAIN new :
    /\ Fits(new[c]) /\ new[c].here /\ new[c].got = <<>>
    /\ new[c].mate # 0 => /\ new[c].mate \in DOMAIN new \ {c}
                          /\ new[new[c].mate].mate = c
    /\ \A d \in DOMAIN new : new[c].slot \in Slots /\ new[d].slot = new[c].slot => d = c

\* Their panels begin to load what was asked for, or go on showing what they
\* are about.
Suits(ch, asks, p, q) ==
  \/ q.status = "loading" /\ ch.kind \notin Submits /\ asks
  \/ /\ ~asks
     /\ p.status = "ready" /\ p.of = <<About(ch.kind), ch.id>>
     /\ q = p \/ (q.status = "loading" /\ ch.kind \notin Submits)

LEMMA LaunchAdds ==
  ASSUME NEW new, NEW asks, Fresh(new), Launch(new, asks), Orderly(chain)
  PROVE  /\ Adds(chain, chain', DOMAIN new)
         /\ \A c \in DOMAIN new : chain'[c] = new[c]
<1>1. \A c \in DOMAIN new : c \in Chains /\ chain[c] = Idle
  BY FreeIsIdle DEF Launch
<1>2. chain' = [c \in Chains |-> IF c \in DOMAIN new THEN new[c] ELSE chain[c]]
  BY DEF Launch
<1>4. DOMAIN chain' = Chains
  BY <1>2
<1>5. \A c \in DOMAIN new : chain'[c] = new[c]
  BY <1>1, <1>2
<1>6. \A c \in Chains \ DOMAIN new : chain'[c] = chain[c]
  BY <1>2
<1>7. ASSUME NEW c \in DOMAIN new
      PROVE  Paired(chain', c)
  BY <1>1, <1>5 DEF Paired, Fresh
<1> QED
  BY <1>1, <1>4, <1>5, <1>6, <1>7 DEF Adds, Fresh

\* What a panel may show.
LEMMA LaunchCurrent ==
  ASSUME NEW new, NEW asks \in BOOLEAN, Fresh(new), Launch(new, asks), PagesInv,
         NEW s \in Slots, acked' = acked,
         \A c \in DOMAIN new : new[c].slot = s => Suits(new[c], asks, panel[s], panel'[s]),
         (\A c \in DOMAIN new : new[c].slot # s) => panel'[s] = panel[s]
  PROVE  Current(chain', s, panel'[s], asked'[s] \cup left'[s], acked')
<1>1. /\ Adds(chain, chain', DOMAIN new)
      /\ \A c \in DOMAIN new : chain'[c] = new[c]
  BY LaunchAdds DEF PagesInv
<1>2. PICK by : by = {c \in DOMAIN new : new[c].slot = s}
  OBVIOUS
<1>3. /\ asked'[s] = IF asks /\ by # {} THEN {Subject(new[c]) : c \in by} \cup UnderWay(chain, s)
                     ELSE asked[s]
      /\ left'[s] = IF asks /\ by # {} THEN {} ELSE left[s]
  BY <1>2 DEF Launch
<1>4. PICK w, shows : w = asked[s] \cup left[s] /\ shows = asked'[s] \cup left'[s]
  OBVIOUS
<1>5. Current(chain, s, panel[s], w, acked)
  BY <1>4 DEF PagesInv
<1>6. CASE asks /\ by # {}
  <2>1. UnderWay(chain, s) \subseteq shows /\ \A c \in by : Subject(new[c]) \in shows
    BY <1>3, <1>4, <1>6
  <2>2. \A c \in DOMAIN new : chain'[c].slot = s => <<About(chain'[c].kind), chain'[c].id>> \in shows
    BY <1>1, <1>2, <2>1, SubjectsAre
  <2>3. panel'[s].status # "ready"
    BY <1>2, <1>6 DEF Suits
  <2> QED
    BY <1>1, <1>4, <1>5, <2>1, <2>2, <2>3, AddsAsked
<1>7. CASE ~(asks /\ by # {})
  <2>1. shows = w
    BY <1>3, <1>4, <1>7
  <2>2. \A c \in DOMAIN new : chain'[c].slot = s => <<About(chain'[c].kind), chain'[c].id>> \in w
    <3>1. ASSUME NEW c \in DOMAIN new, new[c].slot = s
          PROVE  <<About(new[c].kind), new[c].id>> \in w
      <4>1. ~asks /\ Suits(new[c], asks, panel[s], panel'[s])
        BY <1>2, <1>7, <3>1
      <4>2. panel[s].status = "ready" /\ panel[s].of = <<About(new[c].kind), new[c].id>>
        BY <4>1 DEF Suits
      <4> QED
        BY <1>5, <4>2 DEF Current
    <3> QED
      BY <1>1, <3>1
  <2>3. panel'[s].status = "ready" => panel'[s] = panel[s]
    <3>1. ASSUME NEW c \in DOMAIN new, new[c].slot = s
          PROVE  panel'[s].status = "ready" => panel'[s] = panel[s]
      BY <3>1 DEF Suits
    <3> QED
      BY <3>1
  <2> QED
    BY <1>1, <1>4, <1>5, <2>1, <2>2, <2>3, AddsAgain
<1> QED
  BY <1>6, <1>7

\* The button pressed, and the form sent, wait for what has been started.
LEMMA LaunchKeeps ==
  ASSUME NEW new, NEW asks \in BOOLEAN, Fresh(new), Launch(new, asks), PagesInv,
         UNCHANGED <<role, route, frozen, acked>>,
         DOMAIN panel' = Slots,
         \A s \in Slots :
           /\ \A c \in DOMAIN new : new[c].slot = s => Suits(new[c], asks, panel[s], panel'[s])
           /\ (\A c \in DOMAIN new : new[c].slot # s) => panel'[s] = panel[s],
         \E c \in DOMAIN new : new[c].kind \in Writes \cup {"copy"} \/ new[c].after # None,
         \/ form' = form /\ \A c \in DOMAIN new : new[c].kind # "create transfer"
         \/ /\ form' = [form EXCEPT !.submitting = TRUE] /\ ~form.submitting
            /\ \E c : DOMAIN new = {c} /\ new[c].kind = "create transfer"
  PROVE  PagesInv'
<1>1. /\ Adds(chain, chain', DOMAIN new)
      /\ \A c \in DOMAIN new : chain'[c] = new[c]
  BY LaunchAdds DEF PagesInv
<1>2. Orderly(chain') /\ Truthful(chain', frozen')
  BY <1>1, AddsOrderly, AddsTruthful DEF PagesInv
<1>3. \A s \in Slots : Current(chain', s, panel'[s], asked'[s] \cup left'[s], acked')
  <2> TAKE s \in Slots
  <2>1. /\ \A c \in DOMAIN new : new[c].slot = s => Suits(new[c], asks, panel[s], panel'[s])
        /\ (\A c \in DOMAIN new : new[c].slot # s) => panel'[s] = panel[s]
        /\ acked' = acked
    OBVIOUS
  <2>2. asks \in BOOLEAN /\ Fresh(new) /\ Launch(new, asks) /\ PagesInv
    OBVIOUS
  <2> QED
    BY ONLY <2>1, <2>2, LaunchCurrent
<1>4. \A s \in Slots : Whole(panel'[s], role') /\ Placed(s, panel'[s])
  <2> TAKE s \in Slots
  <2>1. panel'[s] = panel[s] \/ panel'[s].status = "loading"
    BY DEF Suits
  <2> QED
    BY <2>1 DEF Whole, Placed, PagesInv
<1>5. Waits(chain', panel', mutation', form', stranded')
  <2>1. Waits(chain, panel, mutation, form, stranded)
    BY DEF PagesInv
  <2>2. stranded' = stranded \ ({s \in Slots : {c \in DOMAIN new : new[c].slot = s} # {}} \cup {"button"})
    BY DEF Launch
  <2>3. ASSUME NEW s \in Slots, s \notin stranded'
        PROVE  PanelWaits(chain', s, panel'[s])
    <3>1. CASE \A c \in DOMAIN new : new[c].slot # s
      <4>1. s # "button"
        BY DEF Slots
      <4>2. s \notin stranded /\ panel'[s] = panel[s]
        BY <2>2, <2>3, <3>1, <4>1
      <4> QED
        BY <1>1, <2>1, <4>2, AddsWaits DEF Waits
    <3>2. ASSUME NEW c \in DOMAIN new, new[c].slot = s, panel'[s].status = "loading"
          PROVE  PanelWaits(chain', s, panel'[s])
      <4>1. Suits(new[c], asks, panel[s], panel'[s]) /\ c \in Chains /\ In(chain', c, s)
        BY <1>1, <3>2 DEF Adds, In, Fresh
      <4>2. new[c].kind \notin Submits
        BY <3>2, <4>1 DEF Suits
      <4> QED
        BY <1>1, <4>1, <4>2 DEF PanelWaits
    <3> QED
      BY <3>1, <3>2 DEF PanelWaits
  <2>4. ButtonWaits(chain', mutation')
    BY <1>1 DEF ButtonWaits, Adds
  <2>5. "form" \in stranded' \/ FormWaits(chain', form')
    <3>1. CASE form' = form
      <4>1. "form" \in stranded => "form" \in stranded'
        BY <2>2 DEF Slots
      <4> QED
        BY <1>1, <2>1, <3>1, <4>1, AddsWaits DEF Waits
    <3>2. ASSUME NEW c \in DOMAIN new, new[c].kind = "create transfer"
          PROVE  FormWaits(chain', form')
      <4>1. c \in Chains /\ chain'[c].here /\ chain'[c].kind = "create transfer"
        BY <1>1, <3>2 DEF Adds
      <4> QED
        BY <4>1 DEF FormWaits
    <3> QED
      BY <3>1, <3>2
  <2> QED
    BY <2>3, <2>4, <2>5 DEF Waits
<1>6. Counted(form')
  <2>1. CASE form' = form
    BY <2>1 DEF PagesInv
  <2>2. CASE form' = [form EXCEPT !.submitting = TRUE]
    <3>1. form \in Forms
      BY DEF PagesInv, Counted
    <3>2. /\ form' \in Forms /\ form'.paid = form.paid /\ form'.unkept = form.unkept
          /\ form'.kept = form.kept
      BY <2>2, <3>1 DEF Forms
    <3> QED
      BY <3>2 DEF PagesInv, Counted
  <2> QED
    BY <2>1, <2>2
<1>7. Single(chain', form')
  <2>1. CASE form' = form /\ \A c \in DOMAIN new : new[c].kind # "create transfer"
    <3>1. \A c \in DOMAIN new : chain'[c].kind # "create transfer"
      BY <1>1, <2>1
    <3>2. Single(chain', form)
      BY <1>1, <3>1, AddsSingle DEF PagesInv
    <3> QED
      BY <2>1, <3>2
  <2>2. ASSUME form' = [form EXCEPT !.submitting = TRUE], ~form.submitting,
               NEW c, DOMAIN new = {c}
        PROVE  Single(chain', form')
    <3>1. \A d \in Chains : ~Sends(chain, d)
      BY <2>2 DEF PagesInv, Single
    <3>2. \A d \in Chains : Sends(chain', d) => d = c
      BY <1>1, <2>2, <3>1 DEF Adds, Sends
    <3>3. form'.submitting
      BY <2>2 DEF PagesInv, Counted, Forms
    <3> QED
      BY <3>2, <3>3 DEF Single
  <2> QED
    BY <2>1, <2>2
<1> QED
  BY <1>2, <1>3, <1>4, <1>5, <1>6, <1>7 DEF PagesInv

\* One chain.
LEMMA BeginKeeps ==
  ASSUME NEW c, NEW ch, NEW asks \in BOOLEAN, Begin(c, ch, asks), PagesInv,
         Fits(ch), ch.here, ch.got = <<>>, ch.mate = 0,
         UNCHANGED <<role, route, frozen, acked>>,
         ch.kind \in Writes \cup {"copy"} \/ ch.after # None,
         \/ form' = form /\ ch.kind # "create transfer"
         \/ /\ form' = [form EXCEPT !.submitting = TRUE] /\ ~form.submitting
            /\ ch.kind = "create transfer",
         DOMAIN panel' = Slots,
         \A s \in Slots : panel'[s] = panel[s] \/ ch.slot = s,
         ch.slot \in Slots => Suits(ch, asks, panel[ch.slot], panel'[ch.slot])
  PROVE  PagesInv'
<1> DEFINE new == [d \in {c} |-> ch]
<1>1. DOMAIN new = {c} /\ new[c] = ch
  OBVIOUS
<1>2. Launch(new, asks)
  BY DEF Begin
<1> HIDE DEF new
<1>3. Fresh(new)
  BY <1>1 DEF Fresh
<1>4. \A s \in Slots :
        /\ \A d \in DOMAIN new : new[d].slot = s => Suits(new[d], asks, panel[s], panel'[s])
        /\ (\A d \in DOMAIN new : new[d].slot # s) => panel'[s] = panel[s]
  BY <1>1
<1>5. /\ \E d \in DOMAIN new : new[d].kind \in Writes \cup {"copy"} \/ new[d].after # None
      /\ \/ form' = form /\ \A d \in DOMAIN new : new[d].kind # "create transfer"
         \/ /\ form' = [form EXCEPT !.submitting = TRUE] /\ ~form.submitting
            /\ \E d : DOMAIN new = {d} /\ new[d].kind = "create transfer"
  BY <1>1
<1> QED
  BY <1>2, <1>3, <1>4, <1>5, LaunchKeeps


\* The panel of a chain that begins, and the others.
LEMMA MainLoads ==
  ASSUME DOMAIN panel = Slots, panel' = [panel EXCEPT !.main = LoadingPanel]
  PROVE  /\ DOMAIN panel' = Slots /\ panel'["main"].status = "loading"
         /\ \A s \in Slots : panel'[s] = panel[s] \/ s = "main"
  BY DEF Slots, LoadingPanel

LEMMA SlotsOf ==
  /\ SlotOf("alert") = "side"
  /\ \A kind \in Listing \cup Submits : SlotOf(kind) = "main"
  /\ \A kind \in Plain : SlotOf(kind) = None
  /\ Slots = {"main", "side"} /\ None \notin Slots
  BY DEF SlotOf, Loads, Submits, Slots, None, Plain, Listing

\* A chain without a panel.
LEMMA PlainBegins ==
  ASSUME NEW c, NEW kind \in Plain, NEW asks \in BOOLEAN,
         Begin(c, Chain(kind, None, None), asks), PagesInv,
         UNCHANGED <<role, route, panel, frozen, acked>>,
         \/ form' = form /\ kind \notin Sending
         \/ form' = [form EXCEPT !.submitting = TRUE] /\ ~form.submitting /\ kind \in Sending
  PROVE  PagesInv'
<1>0. PICK ch : ch = Chain(kind, None, None)
  OBVIOUS
<1>1. /\ SlotOf(kind) = None /\ kind \in Writes \cup {"copy"}
      /\ kind \in Kinds
  BY SlotsOf DEF Writes, Creations, Kinds, Plain
<1>2. Begin(c, ch, asks) /\ ch = Chain(kind, SlotOf(kind), None)
  BY <1>0, <1>1
<1>3. /\ Fits(ch) /\ ch.here /\ ch.got = <<>> /\ ch.mate = 0 /\ ch.kind = kind
      /\ ch.slot = SlotOf(kind)
  BY <1>1, <1>2, ChainFits
<1>4. DOMAIN panel' = Slots /\ \A s \in Slots : panel'[s] = panel[s]
  BY DEF PagesInv
<1>5. /\ ch.slot \notin Slots
      /\ \/ form' = form /\ ch.kind # "create transfer"
         \/ /\ form' = [form EXCEPT !.submitting = TRUE] /\ ~form.submitting
            /\ ch.kind = "create transfer"
  BY <1>1, <1>3, SlotsOf DEF Sending
<1> QED
  BY <1>1, <1>2, <1>3, <1>4, <1>5, BeginKeeps

\* A chain that loads what the main panel is to show, or shows already.
LEMMA LoadBegins ==
  ASSUME NEW c, NEW kind \in Listing, NEW id, kind \in Bare => id = None,
         NEW after \in Freeing, NEW asks \in BOOLEAN,
         Begin(c, [Chain(kind, "main", id) EXCEPT !.after = after], asks), PagesInv,
         UNCHANGED <<role, route, form, frozen, acked>>,
         panel' = [panel EXCEPT !.main = LoadingPanel],
         asks \/ (Shows("main", kind) /\ id = Shown("main"))
  PROVE  PagesInv'
<1>0. PICK old, ch : /\ old = Chain(kind, "main", id)
                     /\ ch = [old EXCEPT !.after = after]
  OBVIOUS
<1>1. /\ SlotOf(kind) = "main" /\ old = Chain(kind, SlotOf(kind), id) /\ Begin(c, ch, asks)
      /\ kind \in Kinds
  BY <1>0, SlotsOf DEF Kinds, Listing
<1>2. /\ Fits(old) /\ old.here /\ old.got = <<>> /\ old.mate = 0 /\ old.kind = kind
      /\ old.slot = "main" /\ old.id = id
  BY <1>1, ChainFits
<1>3. /\ Fits(ch) /\ ch.here /\ ch.got = <<>> /\ ch.mate = 0 /\ ch.kind = kind
      /\ ch.slot = "main" /\ ch.id = id /\ ch.after # None
  <2>1. /\ Fits(ch) /\ ch.after = after
        /\ \A f \in Fields \ {"after"} : ch[f] = old[f]
    <3>1. Fits(old) /\ old.mate = 0
      BY <1>2
    <3> QED
      BY ONLY <1>0, <3>1, FreesFits
  <2> QED
    BY <1>2, <2>1 DEF Fields, None, Freeing
<1>4. /\ DOMAIN panel' = Slots /\ panel'["main"].status = "loading"
      /\ \A s \in Slots : panel'[s] = panel[s] \/ s = "main"
  BY MainLoads DEF PagesInv
<1>5. kind \notin Submits /\ About(kind) = kind /\ kind # "create transfer"
  BY DEF Loads, Listing, Submits, About
<1>6. Suits(ch, asks, panel["main"], panel'["main"])
  <2>1. CASE asks
    BY <1>3, <1>4, <1>5, <2>1 DEF Suits
  <2>2. CASE ~asks
    <3>1. panel["main"].status = "ready" /\ panel["main"].of = <<kind, id>>
      BY <2>2 DEF Shows, Shown, PagesInv, Whole, Slots
    <3> QED
      BY <1>3, <1>4, <1>5, <2>2, <3>1 DEF Suits
  <2> QED
    BY <2>1, <2>2
<1> QED
  BY <1>1, <1>3, <1>4, <1>5, <1>6, BeginKeeps

\* A button of the account that is shown.
LEMMA SubmitBegins ==
  ASSUME NEW c, NEW b \in Submits, SubmitControl(c, b), PagesInv
  PROVE  PagesInv'
<1>0. PICK id, ch : id = Shown("main") /\ ch = Chain(b, "main", id)
  OBVIOUS
<1>1. /\ SlotOf(b) = "main" /\ ch = Chain(b, SlotOf(b), id) /\ Begin(c, ch, FALSE)
      /\ b \in Kinds \ Bare
  BY <1>0, SlotsOf DEF SubmitControl, Kinds, Submits, Bare
<1>2. /\ Fits(ch) /\ ch.here /\ ch.got = <<>> /\ ch.mate = 0 /\ ch.kind = b
      /\ ch.slot = "main" /\ ch.id = id
  BY <1>1, ChainFits
<1>3. About(b) = "account" /\ b \in Writes \cup {"copy"} /\ b # "create transfer"
  BY DEF About, Submits, Writes, Creations
<1>4. panel["main"].status = "ready" /\ panel["main"].of = <<"account", id>> /\ panel' = panel
  BY <1>0 DEF SubmitControl, Controls, Shows, Shown, PagesInv, Whole, Slots
<1>5. DOMAIN panel' = Slots /\ UNCHANGED <<role, route, form, frozen, acked>>
  BY <1>4 DEF SubmitControl, PagesInv
<1>6. Suits(ch, FALSE, panel["main"], panel'["main"])
  BY <1>2, <1>3, <1>4 DEF Suits
<1> QED
  BY <1>1, <1>2, <1>3, <1>4, <1>5, <1>6, BeginKeeps


\* Both panels of the fraud page, whose chains are each other's mates.
LEMMA PairBegins ==
  ASSUME NEW c, NEW d, c # d, PagesInv, route.id \in Ids, RefreshAlerts(c, d)
  PROVE  PagesInv'
<1>0. PICK id, x, y, kx, ky, cx, cy :
        /\ id = route.id /\ kx = "alerts" /\ ky = "alert"
        /\ cx = Chain(kx, "main", filter) /\ cy = Chain(ky, "side", id)
        /\ x = [FreesFinally(cx) EXCEPT !.mate = d] /\ y = [FreesFinally(cy) EXCEPT !.mate = c]
  OBVIOUS
<1>1. PICK new : new = [e \in {c, d} |-> IF e = c THEN x ELSE y]
  OBVIOUS
<1>2. /\ Launch(new, TRUE)
      /\ panel' = [main |-> LoadingPanel, side |-> LoadingPanel]
      /\ UNCHANGED <<role, route, form, frozen, acked>>
  BY <1>0, <1>1 DEF RefreshAlerts, LoadAlerts, LoadAlert
<1>3. c \in Chains /\ d \in Chains
  BY <1>1, <1>2, FreeIsIdle DEF Launch
<1>4. /\ kx \in Kinds \ Bare /\ ky \in Kinds \ Bare
      /\ SlotOf(kx) = "main" /\ SlotOf(ky) = "side"
  BY <1>0 DEF Kinds, Loads, SlotOf, Bare
<1>5. /\ Fits(cx) /\ cx.here /\ cx.got = <<>> /\ cx.kind = kx /\ cx.slot = "main" /\ cx.id = filter
      /\ Fits(cy) /\ cy.here /\ cy.got = <<>> /\ cy.kind = ky /\ cy.slot = "side" /\ cy.id = id
  BY <1>0, <1>4, ChainFits
<1>6. /\ DOMAIN cx = Fields /\ x = [[cx EXCEPT !.after = "finally"] EXCEPT !.mate = d]
      /\ DOMAIN cy = Fields /\ y = [[cy EXCEPT !.after = "finally"] EXCEPT !.mate = c]
  BY <1>0, <1>5 DEF Fits, FreesFinally
<1>7. /\ DOMAIN x = Fields /\ x.after = "finally" /\ x.mate = d
      /\ \A f \in Fields \ {"after", "mate"} : x[f] = cx[f]
      /\ DOMAIN y = Fields /\ y.after = "finally" /\ y.mate = c
      /\ \A f \in Fields \ {"after", "mate"} : y[f] = cy[f]
  BY ONLY <1>6 DEF Fields
<1>8. /\ x.here /\ x.got = <<>> /\ x.kind = "alerts" /\ x.slot = "main"
      /\ y.here /\ y.got = <<>> /\ y.kind = "alert" /\ y.slot = "side"
  BY <1>0, <1>5, <1>7 DEF Fields
<1>9. Fits(x) /\ Fits(y)
  <2>1. Fits(x)
    BY <1>7, <1>8 DEF Fits, Kinds, Loads, SlotOf, Bare, Freeing
  <2>2. Fits(y)
    BY <1>7, <1>8 DEF Fits, Kinds, Loads, SlotOf, Bare, Freeing
  <2> QED
    BY <2>1, <2>2
<1>10. DOMAIN new = {c, d} /\ new[c] = x /\ new[d] = y
  BY <1>1
<1>11. Fresh(new)
  BY <1>7, <1>8, <1>9, <1>10 DEF Fresh
<1>12. /\ DOMAIN panel' = Slots
       /\ \A s \in Slots : panel'[s].status = "loading"
  BY <1>2 DEF Slots, LoadingPanel
<1>13. \A s \in Slots :
         /\ \A e \in DOMAIN new : new[e].slot = s => Suits(new[e], TRUE, panel[s], panel'[s])
         /\ (\A e \in DOMAIN new : new[e].slot # s) => panel'[s] = panel[s]
  BY <1>8, <1>10, <1>12 DEF Suits, Submits, Slots
<1>14. form' = form /\ \A e \in DOMAIN new : new[e].kind # "create transfer"
  BY <1>2, <1>8, <1>10
<1>15. \E e \in DOMAIN new : new[e].kind \in Writes \cup {"copy"} \/ new[e].after # None
  BY <1>7, <1>10 DEF None
<1> QED
  BY <1>2, <1>11, <1>12, <1>13, <1>15, <1>14, LaunchKeeps

\* The handlers of the pages.
Launchers(c) ==
  \/ SubmitTransfer(c) \/ RefreshTransfer(c) \/ CopyTransferId(c)
  \/ SubmitAccount(c) \/ \E b \in Submits : SubmitControl(c, b)
  \/ \E id \in Ids : LookUpAccount(c, id)
  \/ RefreshLedger(c)
  \/ ApplyFilters(c) \/ \E d \in Chains : RefreshAlerts(c, d)
  \/ RefreshNotifications(c) \/ RefreshHealth(c)

LEMMA LaunchersKeep ==
  ASSUME NEW c \in Chains, Launchers(c), PagesInv
  PROVE  PagesInv'
<1>0. PICK transfer, account, list, ledger, alerts, notifications, health, create, open, copy :
        /\ transfer = "transfer" /\ list = "account ledger" /\ ledger = "transfer ledger"
        /\ alerts = "alerts" /\ notifications = "notifications" /\ health = "health"
        /\ create = "create transfer" /\ open = "create account" /\ copy = "copy"
  OBVIOUS
<1>1. /\ {transfer, list, ledger, alerts, notifications, health} \subseteq Listing
      /\ {transfer, list, ledger, alerts} \cap Bare = {}
  BY <1>0 DEF Listing, Loads, Bare
<1>2. {create, open, copy} \subseteq Plain /\ create \in Sending /\ {open, copy} \cap Sending = {}
  BY <1>0 DEF Plain, Sending
<1>3. PICK freed, finally : freed = "freed" /\ finally = "finally"
  OBVIOUS
<1>4. freed \in Freeing /\ finally \in Freeing
  BY <1>3 DEF Freeing
<1>5. CASE SubmitTransfer(c)
  BY <1>0, <1>2, <1>5, PlainBegins DEF SubmitTransfer
<1>6. CASE RefreshTransfer(c)
  BY <1>0, <1>1, <1>3, <1>4, <1>6, LoadBegins DEF RefreshTransfer, DetailButton, LoadTransfer, Frees
<1>7. CASE CopyTransferId(c)
  BY <1>0, <1>2, <1>7, PlainBegins DEF CopyTransferId
<1>8. CASE SubmitAccount(c)
  BY <1>0, <1>2, <1>8, PlainBegins DEF SubmitAccount
<1>9. CASE \E b \in Submits : SubmitControl(c, b)
  BY <1>9, SubmitBegins
<1>10. CASE \E id \in Ids : LookUpAccount(c, id)
  BY <1>0, <1>1, <1>3, <1>4, <1>10, LoadBegins
     DEF LookUpAccount, LoadAccountLedger, FreesFinally
<1>11. CASE RefreshLedger(c)
  BY <1>0, <1>1, <1>3, <1>4, <1>11, LoadBegins
     DEF RefreshLedger, LedgerPanel, LoadAccountLedger, LoadTransferLedger, FreesFinally
<1>12. CASE ApplyFilters(c)
  BY <1>0, <1>1, <1>3, <1>4, <1>12, LoadBegins DEF ApplyFilters, LoadAlerts, FreesFinally
<1>13. ASSUME NEW d \in Chains, RefreshAlerts(c, d)
       PROVE  PagesInv'
  <2>1. CASE route.id \in Ids
    BY <1>13, <2>1, PairBegins DEF RefreshAlerts
  <2>2. CASE route.id \notin Ids
    BY <1>0, <1>1, <1>3, <1>4, <1>13, <2>2, LoadBegins
       DEF RefreshAlerts, LoadAlerts, FreesFinally
  <2> QED
    BY <2>1, <2>2
<1>14. CASE RefreshNotifications(c)
  BY <1>0, <1>1, <1>3, <1>4, <1>14, LoadBegins
     DEF RefreshNotifications, LoadNotifications, FreesFinally
<1>15. CASE RefreshHealth(c)
  BY <1>0, <1>1, <1>3, <1>4, <1>15, LoadBegins DEF RefreshHealth, LoadHealth, FreesFinally
<1> QED
  BY <1>5, <1>6, <1>7, <1>8, <1>9, <1>10, <1>11, <1>12, <1>13, <1>14, <1>15 DEF Launchers


-----------------------------------------------------------------------------
(* Chains that end                                                         *)

\* Chain c has ended, and its mate goes on alone.
Settles(old, chs, c) ==
  /\ DOMAIN chs = Chains
  /\ chs[c] = Idle
  /\ \A d \in Chains \ {c} :
       \/ chs[d] = old[d] /\ ~(old[c].mate # 0 /\ d = old[c].mate)
       \/ /\ old[c].mate # 0 /\ d = old[c].mate
          /\ Fits(chs[d]) /\ chs[d].mate = 0
          /\ \A f \in Fields \ {"mate", "after"} : chs[d][f] = old[d][f]

LEMMA SettlesOrderly ==
  ASSUME NEW old, NEW chs, NEW c \in Chains, Orderly(old), Fits(old[c]), Settles(old, chs, c)
  PROVE  Orderly(chs)
<1>1. \A d \in Chains : chs[d] = Idle \/ Fits(chs[d])
  BY DEF Settles, Orderly
<1>2. 0 \notin Chains
  BY DEF Chains
<1>3. ASSUME NEW d \in Chains, Fits(chs[d]), chs[d].mate # 0
      PROVE  Paired(chs, d)
  <2>1. d # c
    BY <1>3, IdleIs DEF Settles
  <2>2. chs[d] = old[d] /\ ~(old[c].mate # 0 /\ d = old[c].mate)
    BY <1>3, <2>1 DEF Settles
  <2>3. PICK e : e = old[d].mate
    OBVIOUS
  <2>4. e \in Chains \ {d} /\ Fits(old[e]) /\ old[e].mate = d
    BY <1>3, <2>2, <2>3 DEF Orderly, Paired
  <2>5. e # c
    BY <1>2, <2>2, <2>4
  <2>6. ~(old[c].mate # 0 /\ e = old[c].mate)
    BY <2>1, <2>4 DEF Orderly, Paired
  <2>7. chs[e] = old[e]
    BY <2>4, <2>5, <2>6 DEF Settles
  <2> QED
    BY <2>2, <2>3, <2>4, <2>7 DEF Paired
<1>4. \A d \in Chains : Paired(chs, d)
  BY <1>3 DEF Paired
<1> QED
  BY <1>1, <1>4 DEF Orderly, Settles

\* What is still under way is as it was.
LEMMA SettlesFewer ==
  ASSUME NEW old, NEW chs, NEW c \in Chains, Settles(old, chs, c), NEW d \in Chains, chs[d] # Idle
  PROVE  /\ d # c
         /\ chs[d].kind = old[d].kind /\ chs[d].here = old[d].here /\ chs[d].slot = old[d].slot
         /\ chs[d].id = old[d].id /\ chs[d].got = old[d].got
<1>1. d # c
  BY DEF Settles
<1>2. {"kind", "here", "slot", "id", "got"} \subseteq Fields \ {"mate", "after"}
  BY DEF Fields
<1> QED
  BY <1>1, <1>2 DEF Settles

LEMMA SettlesTruthful ==
  ASSUME NEW old, NEW chs, NEW c \in Chains, NEW f, Settles(old, chs, c), Truthful(old, f)
  PROVE  Truthful(chs, f)
<1> SUFFICES ASSUME NEW d \in Chains, chs[d].kind = "freeze", chs[d].here, chs[d].got # <<>>
             PROVE  chs[d].id \in f
  BY DEF Truthful
<1>1. chs[d] # Idle
  BY IdleIs
<1> QED
  BY <1>1, SettlesFewer DEF Truthful

LEMMA SettlesCurrent ==
  ASSUME NEW old, NEW chs, NEW c \in Chains, Settles(old, chs, c),
         NEW s, NEW p, NEW q, NEW w, NEW told, Current(old, s, p, w, told),
         q.status = "ready" =>
           /\ q.of \in w
           /\ q.of[1] = "account" /\ q.of[2] \in told => q.first.suspended
  PROVE  Current(chs, s, q, w, told)
<1>1. ASSUME NEW d \in Chains, In(chs, d, s)
      PROVE  /\ In(old, d, s)
             /\ About(chs[d].kind) = About(old[d].kind) /\ chs[d].id = old[d].id
             /\ chs[d].kind = "account" /\ chs[d].got # <<>> /\ chs[d].id \in told =>
                  chs[d].got[1].suspended
  <2>1. chs[d] # Idle
    BY <1>1, IdleIs DEF In
  <2>2. chs[d].kind = old[d].kind /\ chs[d].id = old[d].id /\ chs[d].got = old[d].got
    BY <2>1, SettlesFewer
  <2>3. In(old, d, s)
    BY <1>1, <2>1, SettlesFewer DEF In
  <2> QED
    BY <2>2, <2>3 DEF Current
<1> QED
  BY <1>1, CurrentOfFewer

LEMMA SettlesSingle ==
  ASSUME NEW old, NEW chs, NEW c \in Chains, Settles(old, chs, c), NEW f, Single(old, f)
  PROVE  Single(chs, f) /\ (Sends(old, c) => \A g : Single(chs, g))
<1>1. ASSUME NEW d \in Chains, Sends(chs, d)
      PROVE  Sends(old, d) /\ d # c
  <2>1. chs[d] # Idle
    BY <1>1, IdleIs DEF Sends
  <2> QED
    <3>1. d # c /\ chs[d].kind = old[d].kind /\ chs[d].here = old[d].here
      BY <2>1, SettlesFewer
    <3> QED
      BY <1>1, <3>1 DEF Sends
<1> QED
  BY <1>1 DEF Single, Sends

\* Those who waited for another chain wait on.
LEMMA SettlesWaits ==
  ASSUME NEW old, NEW chs, NEW c \in Chains, Settles(old, chs, c), Orderly(old)
  PROVE  /\ \A s, p : PanelWaits(old, s, p) /\ (~In(old, c, s) \/ old[c].kind \in Submits)
                        => PanelWaits(chs, s, p)
         /\ \A f : FormWaits(old, f) /\ (~old[c].here \/ old[c].kind # "create transfer")
                        => FormWaits(chs, f)
<1>1. ASSUME NEW d \in Chains, d # c, Fits(old[d])
      PROVE  chs[d].kind = old[d].kind /\ chs[d].here = old[d].here /\ chs[d].slot = old[d].slot
  <2>1. chs[d] # Idle
    BY <1>1, IdleIs DEF Settles
  <2> QED
    BY <2>1, SettlesFewer
<1>2. \A d \in Chains : old[d].here => Fits(old[d])
  BY IdleIs DEF Orderly
<1> QED
  BY <1>1, <1>2 DEF PanelWaits, FormWaits, In


\* A button waits on when the chain that ended was not what it waited for.
LEMMA SettlesButton ==
  ASSUME NEW old, NEW chs, NEW c \in Chains, Settles(old, chs, c), Orderly(old),
         NEW b, ButtonWaits(old, b), old[c].mate = 0,
         \/ b = None
         \/ ~old[c].here
         \/ old[c].kind \notin Writes \cup {"copy"} /\ old[c].after = None
  PROVE  ButtonWaits(chs, b)
<1>1. \A d \in Chains \ {c} : chs[d] = old[d]
  BY DEF Settles
<1> QED
  BY <1>1 DEF ButtonWaits

LEMMA EndSettles ==
  ASSUME NEW c \in Chains, NEW p, End(c, p), Orderly(chain), Fits(chain[c])
  PROVE  /\ Settles(chain, chain', c)
         /\ chain[c].mate # 0 => /\ chain[c].mate \in Chains
                                 /\ chain'[chain[c].mate].here
                                 /\ chain'[chain[c].mate].after = "finally"
<1>1. chain' = [d \in Chains |->
                  IF d = c THEN Idle
                  ELSE IF chain[c].mate # 0 /\ d = chain[c].mate
                       THEN [chain[d] EXCEPT !.mate = 0] ELSE chain[d]]
  BY DEF End, Linked
<1>2. PICK m : m = chain[c].mate
  OBVIOUS
<1>3. ASSUME m # 0
      PROVE  /\ m \in Chains /\ Fits(chain'[m]) /\ chain'[m].mate = 0 /\ chain'[m].here
             /\ chain'[m].after = "finally"
             /\ \A f \in Fields \ {"mate", "after"} : chain'[m][f] = chain[m][f]
  <2>1. m \in Chains \ {c} /\ Fits(chain[m]) /\ chain[m].mate = c
    BY <1>2, <1>3 DEF Orderly, Paired
  <2>2. chain[m].here /\ chain[m].after = "finally"
    <3>1. c # 0
      BY DEF Chains
    <3> QED
      BY <2>1, <3>1 DEF Fits
  <2>3. chain'[m] = [chain[m] EXCEPT !.mate = 0]
    BY <1>1, <1>2, <1>3, <2>1
  <2>4. /\ Fits(chain'[m]) /\ chain'[m].mate = 0
        /\ \A f \in Fields \ {"mate", "after"} : chain'[m][f] = chain[m][f]
        /\ chain'[m].after = chain[m].after
    BY <2>1, <2>3, UnpairedFits
  <2>5. chain'[m].here
    BY <2>2, <2>4 DEF Fields
  <2> QED
    BY <2>1, <2>2, <2>4, <2>5
<1>4. DOMAIN chain' = Chains /\ chain'[c] = Idle
  BY <1>1
<1>5. \A d \in Chains \ {c} : ~(m # 0 /\ d = m) => chain'[d] = chain[d]
  BY <1>1, <1>2
<1> QED
  BY <1>2, <1>3, <1>4, <1>5 DEF Settles

LEMMA EndKeeps ==
  ASSUME NEW c \in Chains, NEW p, End(c, p), PagesInv,
         chain[c].here, chain[c].kind \in Loads,
         UNCHANGED <<role, route, filter, form, frozen, history>>,
         Whole(p, role), p.status \in {"ready", "error"},
         p.status = "ready" => /\ p.of = <<chain[c].kind, chain[c].id>>
                               /\ p.of[1] = "account" =>
                                    chain[c].got # <<>> /\ p.first = chain[c].got[1]
  PROVE  PagesInv'
<1>1. UNCHANGED <<role, route, form, frozen, asked, left, stranded, acked>>
  BY DEF history
<1>2. Orderly(chain) /\ Fits(chain[c])
  BY IdleIs DEF PagesInv, Orderly
<1>3. /\ Settles(chain, chain', c)
      /\ chain[c].mate # 0 => /\ chain[c].mate \in Chains
                              /\ chain'[chain[c].mate].here
                              /\ chain'[chain[c].mate].after = "finally"
  BY <1>2, EndSettles
<1>4. Orderly(chain') /\ Truthful(chain', frozen)
  BY <1>2, <1>3, SettlesOrderly, SettlesTruthful DEF PagesInv
<1>5. PICK k : k = chain[c].slot
  OBVIOUS
<1>6. chain[c].kind \notin Submits \cup Writes \cup {"copy"}
  BY DEF Loads, Submits, Writes, Creations
<1>7. k \in Slots /\ In(chain, c, k) /\ About(chain[c].kind) = chain[c].kind
  BY <1>2, <1>5, <1>6 DEF Fits, SlotOf, In, Slots, About
<1>8. /\ DOMAIN panel' = Slots /\ panel'[k] = p
      /\ \A s \in Slots \ {k} : panel'[s] = panel[s]
  BY <1>5, <1>7 DEF End, PagesInv
<1>9. \A s \in Slots : Whole(panel'[s], role) /\ Placed(s, panel'[s])
  <2>1. Placed(k, p)
    <3>1. chain[c].slot = SlotOf(chain[c].kind)
      BY <1>2 DEF Fits
    <3>2. p.status = "ready" => p.of[1] = chain[c].kind
      OBVIOUS
    <3> QED
      BY <1>5, <3>1, <3>2 DEF Placed
  <2> QED
    BY <1>8, <2>1 DEF PagesInv
<1>10. ASSUME NEW s \in Slots, NEW w, w = asked[s] \cup left[s]
       PROVE  Current(chain', s, panel'[s], w, acked)
  <2>1. Current(chain, s, panel[s], w, acked)
    BY <1>10 DEF PagesInv
  <2>2. panel'[s].status = "ready" =>
          /\ panel'[s].of \in w
          /\ panel'[s].of[1] = "account" /\ panel'[s].of[2] \in acked => panel'[s].first.suspended
    <3>1. CASE s = k
      <4>1. <<chain[c].kind, chain[c].id>> \in w
        BY <1>7, <2>1, <3>1 DEF Current
      <4>2. chain[c].kind = "account" /\ chain[c].got # <<>> /\ chain[c].id \in acked =>
              chain[c].got[1].suspended
        BY <1>7, <2>1, <3>1 DEF Current
      <4> QED
        BY <1>8, <3>1, <4>1, <4>2
    <3>2. CASE s # k
      BY <1>8, <2>1, <3>2 DEF Current
    <3> QED
      BY <3>1, <3>2
  <2> QED
    BY <1>3, <2>1, <2>2, SettlesCurrent
<1>11. Waits(chain', panel', mutation', form, stranded)
  <2>1. Waits(chain, panel, mutation, form, stranded)
    BY DEF PagesInv
  <2>2. ASSUME NEW s \in Slots, s \notin stranded
        PROVE  PanelWaits(chain', s, panel'[s])
    <3>1. CASE s = k
      BY <1>8, <3>1 DEF PanelWaits
    <3>2. CASE s # k
      <4>1. ~In(chain, c, s) /\ PanelWaits(chain, s, panel'[s])
        BY <1>5, <1>8, <2>1, <2>2, <3>2 DEF In, Waits
      <4> QED
        BY <1>2, <1>3, <4>1, SettlesWaits
    <3> QED
      BY <3>1, <3>2
  <2>3. "button" \in stranded \/ ButtonWaits(chain', mutation')
    <3>1. CASE chain[c].mate # 0
      <4>1. "finally" # None
        BY DEF None
      <4> QED
        BY <1>3, <3>1, <4>1 DEF ButtonWaits
    <3>2. CASE chain[c].mate = 0 /\ chain[c].after # None
      BY <3>2 DEF End, Linked, ButtonWaits
    <3>3. CASE chain[c].mate = 0 /\ chain[c].after = None
      <4>1. mutation' = mutation /\ ("button" \in stranded \/ ButtonWaits(chain, mutation))
        BY <2>1, <3>3 DEF End, Linked, Waits
      <4> QED
        BY <1>2, <1>3, <1>6, <3>3, <4>1, SettlesButton
    <3> QED
      BY <3>1, <3>2, <3>3
  <2>4. "form" \in stranded \/ FormWaits(chain', form)
    <3>1. chain[c].kind # "create transfer" /\ ("form" \in stranded \/ FormWaits(chain, form))
      BY <1>6, <2>1 DEF Writes, Creations, Waits
    <3> QED
      BY <1>2, <1>3, <3>1, SettlesWaits
  <2> QED
    BY <2>2, <2>3, <2>4 DEF Waits
<1> QED
  <2>1. Single(chain', form)
    BY <1>3, SettlesSingle DEF PagesInv
  <2> QED
    BY <1>1, <1>4, <1>8, <1>9, <1>10, <1>11, <2>1 DEF PagesInv


-----------------------------------------------------------------------------
(* Chains that go on                                                       *)

\* Chain c goes on for the same record of the same panel.
Alters(old, chs, c) ==
  /\ DOMAIN chs = Chains
  /\ \A d \in Chains \ {c} : chs[d] = old[d]
  /\ Fits(old[c]) /\ Fits(chs[c])
  /\ \A f \in {"here", "slot", "id", "mate"} : chs[c][f] = old[c][f]
  /\ About(chs[c].kind) = About(old[c].kind)

LEMMA AltersOrderly ==
  ASSUME NEW old, NEW chs, NEW c \in Chains, Orderly(old), Alters(old, chs, c)
  PROVE  Orderly(chs)
<1>1. \A d \in Chains : chs[d] = Idle \/ Fits(chs[d])
  BY DEF Alters, Orderly
<1>2. \A d \in Chains : (Fits(chs[d]) <=> Fits(old[d])) /\ chs[d].mate = old[d].mate
  BY DEF Alters
<1>3. \A d \in Chains : Paired(chs, d)
  BY <1>2 DEF Orderly, Paired
<1> QED
  BY <1>1, <1>3 DEF Orderly, Alters

LEMMA AltersCurrent ==
  ASSUME NEW old, NEW chs, NEW c \in Chains, Alters(old, chs, c),
         NEW s, NEW p, NEW w, NEW told, Current(old, s, p, w, told),
         chs[c].kind = "account" /\ chs[c].got # <<>> /\ chs[c].id \in told =>
           chs[c].got[1].suspended
  PROVE  Current(chs, s, p, w, told)
<1>1. ASSUME NEW d \in Chains, In(chs, d, s)
      PROVE  /\ In(old, d, s)
             /\ About(chs[d].kind) = About(old[d].kind) /\ chs[d].id = old[d].id
             /\ chs[d].kind = "account" /\ chs[d].got # <<>> /\ chs[d].id \in told =>
                  chs[d].got[1].suspended
  <2>1. CASE d = c
    BY <1>1, <2>1 DEF Alters, In
  <2>2. CASE d # c
    <3>1. chs[d] = old[d]
      BY <2>2 DEF Alters
    <3>2. In(old, d, s)
      BY <1>1, <3>1 DEF In
    <3> QED
      BY <3>1, <3>2 DEF Current
  <2> QED
    BY <2>1, <2>2
<1>2. p.status = "ready" =>
        /\ p.of \in w
        /\ p.of[1] = "account" /\ p.of[2] \in told => p.first.suspended
  BY DEF Current
<1> QED
  BY <1>1, <1>2, CurrentOfFewer

LEMMA AltersWaits ==
  ASSUME NEW old, NEW chs, NEW c \in Chains, Alters(old, chs, c)
  PROVE  /\ chs[c].kind \notin Submits \/ old[c].kind \in Submits =>
              \A s, p : PanelWaits(old, s, p) => PanelWaits(chs, s, p)
         /\ chs[c].kind = old[c].kind /\ chs[c].after = old[c].after =>
              \A b : ButtonWaits(old, b) => ButtonWaits(chs, b)
         /\ chs[c].kind = old[c].kind \/ old[c].kind # "create transfer" =>
              \A f : FormWaits(old, f) => FormWaits(chs, f)
<1>1. \A s, d : d \in Chains /\ In(old, d, s) => In(chs, d, s)
  BY DEF Alters, In
<1>2. \A d \in Chains : chs[d].here = old[d].here
  BY DEF Alters
<1>3. \A d \in Chains \ {c} : chs[d] = old[d]
  BY DEF Alters
<1>4. ASSUME chs[c].kind \notin Submits \/ old[c].kind \in Submits,
             NEW s, NEW p, PanelWaits(old, s, p)
      PROVE  PanelWaits(chs, s, p)
  BY <1>1, <1>3, <1>4 DEF PanelWaits
<1>5. ASSUME chs[c].kind = old[c].kind /\ chs[c].after = old[c].after,
             NEW b, ButtonWaits(old, b)
      PROVE  ButtonWaits(chs, b)
  BY <1>2, <1>3, <1>5 DEF ButtonWaits
<1>6. ASSUME chs[c].kind = old[c].kind \/ old[c].kind # "create transfer",
             NEW f, FormWaits(old, f)
      PROVE  FormWaits(chs, f)
  BY <1>2, <1>3, <1>6 DEF FormWaits
<1> QED
  BY <1>4, <1>5, <1>6

LEMMA AltersSingle ==
  ASSUME NEW old, NEW chs, NEW c \in Chains, Alters(old, chs, c), NEW f, Single(old, f),
         chs[c].kind = old[c].kind \/ chs[c].kind # "create transfer"
  PROVE  Single(chs, f)
<1>1. \A d \in Chains : chs[d].here = old[d].here
  BY DEF Alters
<1>2. \A d \in Chains : Sends(chs, d) => Sends(old, d)
  BY <1>1 DEF Alters, Sends
<1> QED
  BY <1>2 DEF Single

\* It has heard something.
LEMMA HearsAlters ==
  ASSUME NEW c \in Chains, NEW got, Orderly(chain), chain[c].here,
         chain' = [chain EXCEPT ![c].got = <<got>>], Answers(chain[c], got)
  PROVE  /\ Alters(chain, chain', c)
         /\ chain'[c].got = <<got>> /\ chain'[c].got # <<>> /\ chain'[c].got[1] = got
         /\ chain'[c].kind = chain[c].kind /\ chain'[c].after = chain[c].after
<1>1. Fits(chain[c]) /\ DOMAIN chain = Chains
  BY IdleIs DEF Orderly
<1>2. /\ DOMAIN chain' = Chains /\ \A d \in Chains \ {c} : chain'[d] = chain[d]
      /\ chain'[c] = [chain[c] EXCEPT !.got = <<got>>]
  BY <1>1
<1>3. PICK ch, new : ch = chain[c] /\ new = chain'[c]
  OBVIOUS
<1>4. /\ Fits(new) /\ new.got = <<got>> /\ new.got # <<>> /\ new.got[1] = got
      /\ \A f \in Fields \ {"got"} : new[f] = ch[f]
  BY <1>1, <1>2, <1>3, HearsFits
<1>5. {"here", "slot", "id", "mate", "kind", "after"} \subseteq Fields \ {"got"}
  BY DEF Fields
<1>6. /\ \A f \in {"here", "slot", "id", "mate"} : new[f] = ch[f]
      /\ new.kind = ch.kind /\ new.after = ch.after
  BY <1>4, <1>5
<1> QED
  BY <1>1, <1>2, <1>3, <1>4, <1>6 DEF Alters

LEMMA ContinueKeeps ==
  ASSUME NEW c \in Chains, NEW got, Continue(c, got), PagesInv,
         chain[c].here, chain[c].kind \in Loads,
         UNCHANGED <<role, route, filter, form, frozen, history>>,
         Answers(chain[c], got),
         chain[c].kind = "account" /\ chain[c].id \in acked => got.suspended
  PROVE  PagesInv'
<1>1. UNCHANGED <<role, route, panel, mutation, form, frozen, asked, left, stranded, acked>>
  BY DEF history, Continue
<1>2. /\ Alters(chain, chain', c)
      /\ chain'[c].got = <<got>> /\ chain'[c].got # <<>> /\ chain'[c].got[1] = got
      /\ chain'[c].kind = chain[c].kind /\ chain'[c].after = chain[c].after
  BY HearsAlters DEF Continue, PagesInv
<1>3. Orderly(chain')
  BY <1>2, AltersOrderly DEF PagesInv
<1>4. chain'[c].kind # "freeze" /\ chain'[c].id = chain[c].id
  BY <1>2 DEF Loads, Alters
<1>5. Truthful(chain', frozen)
  BY <1>2, <1>4 DEF PagesInv, Truthful, Alters
<1>6. \A s \in Slots : Current(chain', s, panel[s], asked[s] \cup left[s], acked)
  <2>1. chain'[c].kind = "account" /\ chain'[c].got # <<>> /\ chain'[c].id \in acked =>
          chain'[c].got[1].suspended
    BY <1>2, <1>4
  <2> QED
    BY <1>2, <2>1, AltersCurrent DEF PagesInv
<1>7. Waits(chain', panel, mutation, form, stranded)
  BY <1>2, AltersWaits DEF PagesInv, Waits
<1>8. Single(chain', form)
  BY <1>2, AltersSingle DEF PagesInv
<1> QED
  BY <1>1, <1>3, <1>5, <1>6, <1>7, <1>8 DEF PagesInv


-----------------------------------------------------------------------------
(* What the chains of the pages hear                                       *)

LEMMA ReadyIs ==
  ASSUME NEW kind, NEW id, NEW first, NEW second, NEW p, p = Ready(kind, id, first, second)
  PROVE  /\ p.status = "ready" /\ p.of = <<kind, id>> /\ p.of[1] = kind /\ p.of[2] = id
         /\ p.first = first /\ p.second = second
  BY DEF Ready

LEMMA ReadyKeeps ==
  ASSUME NEW c \in Chains, NEW first, NEW second,
         End(c, Ready(chain[c].kind, chain[c].id, first, second)), PagesInv,
         chain[c].here, chain[c].kind \in Loads,
         UNCHANGED <<role, route, filter, form, frozen, history>>,
         Agree(chain[c].kind, chain[c].id, first, second, role),
         chain[c].kind = "account" => chain[c].got # <<>> /\ first = chain[c].got[1]
  PROVE  PagesInv'
<1>1. PICK p : p = Ready(chain[c].kind, chain[c].id, first, second)
  OBVIOUS
<1>2. /\ p.status = "ready" /\ p.of = <<chain[c].kind, chain[c].id>>
      /\ p.of[1] = chain[c].kind /\ p.of[2] = chain[c].id
      /\ p.first = first /\ p.second = second
  BY <1>1, ReadyIs
<1>3. chain[c].kind \notin Submits
  BY DEF Loads, Submits
<1>4. Whole(p, role)
  BY <1>2, <1>3 DEF Whole
<1> QED
  BY <1>1, <1>2, <1>4, EndKeeps

LEMMA ErrorKeeps ==
  ASSUME NEW c \in Chains, End(c, ErrorPanel), PagesInv,
         chain[c].here, chain[c].kind \in Loads,
         UNCHANGED <<role, route, filter, form, frozen, history>>
  PROVE  PagesInv'
<1>1. PICK p : p = ErrorPanel
  OBVIOUS
<1>2. p.status = "error"
  BY <1>1 DEF ErrorPanel
<1>3. Whole(p, role)
  BY <1>2 DEF Whole
<1> QED
  BY <1>1, <1>2, <1>3, EndKeeps

\* Who is answered, is answered with the record asked for.
LEMMA RecordIs ==
  ASSUME NEW id, NEW a \in Record(id), a # Failed
  PROVE  a.data = id
  BY DEF Record, Ok

LEMMA StatsAre ==
  ASSUME NEW id, NEW a \in Stats(id), a # Failed
  PROVE  a.data = id /\ role = "admin"
<1>1. role = "admin" /\ a \in Record(id)
  BY DEF Stats, ForAdmins
<1> QED
  BY <1>1, RecordIs

LEMMA TransferLoadedKeeps ==
  ASSUME NEW c \in Chains, TransferLoaded(c), PagesInv
  PROVE  PagesInv'
<1>1. chain[c].kind = "transfer" /\ chain[c].here /\ chain[c].kind \in Loads
  BY DEF TransferLoaded, Hears, Loads
<1>2. PICK a : End(c, IF a = Failed THEN ErrorPanel ELSE Ready("transfer", chain[c].id, a.data, None))
  BY DEF TransferLoaded
<1>3. UNCHANGED <<role, route, filter, form, frozen, history>>
  BY DEF TransferLoaded
<1>4. CASE a = Failed
  BY <1>1, <1>2, <1>3, <1>4, ErrorKeeps
<1>5. CASE a # Failed
  <2>1. End(c, Ready(chain[c].kind, chain[c].id, a.data, None))
    BY <1>1, <1>2, <1>5
  <2>2. /\ Agree(chain[c].kind, chain[c].id, a.data, None, role)
        /\ chain[c].kind # "account"
    BY <1>1 DEF Agree
  <2> QED
    BY <1>1, <1>3, <2>1, <2>2, ReadyKeeps
<1> QED
  BY <1>4, <1>5


\* The account, and then its balance.
LEMMA AccountServedKeeps ==
  ASSUME NEW c \in Chains, AccountServed(c), PagesInv
  PROVE  PagesInv'
<1>1. chain[c].kind = "account" /\ chain[c].here /\ chain[c].kind \in Loads
  BY DEF AccountServed, Hears, Loads
<1>2. PICK suspended \in {TRUE} \cup {chain[c].id \in frozen} :
        Continue(c, [of |-> chain[c].id, suspended |-> suspended])
  BY DEF AccountServed
<1> DEFINE got == [of |-> chain[c].id, suspended |-> suspended]
<1>3. Continue(c, got) /\ UNCHANGED <<role, route, filter, form, frozen, history>>
  BY <1>2 DEF AccountServed
<1>4. got.of = chain[c].id /\ (chain[c].id \in acked => got.suspended)
  BY <1>2 DEF PagesInv
<1>5. Answers(chain[c], got)
  BY <1>1, <1>4 DEF Answers
<1> HIDE DEF got
<1> QED
  BY <1>1, <1>3, <1>4, <1>5, ContinueKeeps

LEMMA AccountFoundKeeps ==
  ASSUME NEW c \in Chains, AccountFound(c) \/ AccountNotFound(c), PagesInv
  PROVE  PagesInv'
<1>1. /\ chain[c].kind = "account" /\ chain[c].here /\ chain[c].kind \in Loads
      /\ UNCHANGED <<role, route, filter, form, frozen, history>>
  BY DEF AccountFound, AccountNotFound, ShowAccount, Hears, Loads
<1>2. CASE AccountNotFound(c)
  BY <1>1, <1>2, ErrorKeeps DEF AccountNotFound
<1>3. CASE AccountFound(c)
  <2>1. PICK a \in Record(chain[c].id) :
          End(c, Ready("account", chain[c].id, Kept(c), IF a = Failed THEN None ELSE a.data))
    BY <1>3 DEF AccountFound, ShowAccount, Balance
  <2>2. PICK second : second = IF a = Failed THEN None ELSE a.data
    OBVIOUS
  <2>3. second \in {None, chain[c].id}
    BY <2>2, RecordIs
  <2>4. chain[c].got # <<>> /\ End(c, Ready(chain[c].kind, chain[c].id, chain[c].got[1], second))
    BY <1>1, <1>3, <2>1, <2>2 DEF AccountFound, ShowAccount, Second, Kept
  <2>5. chain[c].got[1].of = chain[c].id
    BY <1>1, <2>4, IdleIs DEF PagesInv, Orderly, Fits
  <2>6. Agree(chain[c].kind, chain[c].id, chain[c].got[1], second, role)
    BY <1>1, <2>3, <2>5 DEF Agree
  <2> QED
    BY <1>1, <2>4, <2>6, ReadyKeeps
<1> QED
  BY <1>2, <1>3

\* The entries of an account, and then their totals.
LEMMA EntriesFoundKeeps ==
  ASSUME NEW c \in Chains, EntriesFound(c), PagesInv
  PROVE  PagesInv'
<1>1. /\ chain[c].kind = "account ledger" /\ chain[c].here /\ chain[c].kind \in Loads
      /\ UNCHANGED <<role, route, filter, form, frozen, history>>
  BY DEF EntriesFound, Hears, Loads
<1>2. PICK a \in Record(chain[c].id) : IF a = Failed THEN End(c, ErrorPanel) ELSE Continue(c, a.data)
  BY DEF EntriesFound, AccountEntries
<1>3. CASE a = Failed
  BY <1>1, <1>2, <1>3, ErrorKeeps
<1>4. CASE a # Failed
  <2>1. a.data = chain[c].id
    BY <1>2, <1>4, RecordIs
  <2>2. Answers(chain[c], a.data) /\ chain[c].kind # "account"
    BY <1>1, <2>1 DEF Answers
  <2> QED
    BY <1>1, <1>2, <1>4, <2>2, ContinueKeeps
<1> QED
  BY <1>3, <1>4

LEMMA StatsFoundKeeps ==
  ASSUME NEW c \in Chains, StatsFound(c), PagesInv
  PROVE  PagesInv'
<1>1. /\ chain[c].kind = "account ledger" /\ chain[c].here /\ chain[c].kind \in Loads
      /\ UNCHANGED <<role, route, filter, form, frozen, history>>
  BY DEF StatsFound, Hears, Loads
<1>2. PICK a \in Stats(chain[c].id) :
        End(c, Ready("account ledger", chain[c].id, Kept(c), IF a = Failed THEN None ELSE a.data))
  BY DEF StatsFound
<1>3. PICK second : second = IF a = Failed THEN None ELSE a.data
  OBVIOUS
<1>4. second \in {None, chain[c].id}
  BY <1>3, StatsAre
<1>5. chain[c].got # <<>> /\ End(c, Ready(chain[c].kind, chain[c].id, chain[c].got[1], second))
  BY <1>1, <1>2, <1>3 DEF StatsFound, Second, Kept
<1>6. chain[c].got[1] = chain[c].id
  BY <1>1, <1>5, IdleIs DEF PagesInv, Orderly, Fits
<1>7. /\ Agree(chain[c].kind, chain[c].id, chain[c].got[1], second, role)
      /\ chain[c].kind # "account"
  BY <1>1, <1>4, <1>6 DEF Agree
<1> QED
  BY <1>1, <1>5, <1>7, ReadyKeeps

LEMMA TransferEntriesFoundKeeps ==
  ASSUME NEW c \in Chains, TransferEntriesFound(c), PagesInv
  PROVE  PagesInv'
<1>1. /\ chain[c].kind = "transfer ledger" /\ chain[c].here /\ chain[c].kind \in Loads
      /\ UNCHANGED <<role, route, filter, form, frozen, history>>
  BY DEF TransferEntriesFound, Hears, Loads
<1>2. PICK a \in Record(chain[c].id) :
        End(c, IF a = Failed THEN ErrorPanel
               ELSE Ready("transfer ledger", chain[c].id, a.data, None))
  BY DEF TransferEntriesFound, TransferEntries
<1>3. CASE a = Failed
  BY <1>1, <1>2, <1>3, ErrorKeeps
<1>4. CASE a # Failed
  <2>1. a.data = chain[c].id /\ End(c, Ready(chain[c].kind, chain[c].id, a.data, None))
    BY <1>1, <1>2, <1>4, RecordIs
  <2>2. /\ Agree(chain[c].kind, chain[c].id, a.data, None, role)
        /\ chain[c].kind # "account"
    BY <1>1, <2>1 DEF Agree
  <2> QED
    BY <1>1, <2>1, <2>2, ReadyKeeps
<1> QED
  BY <1>3, <1>4


\* Lists, an alert, and notifications: there is nothing to agree with.
LEMMA ListFoundKeeps ==
  ASSUME NEW c \in Chains, NEW kind \in {"alerts", "alert", "notifications"}, Hears(c, kind),
         UNCHANGED <<role, route, filter, form, frozen, history>>, PagesInv,
         NEW a, NEW first, NEW second,
         End(c, IF a = Failed THEN ErrorPanel ELSE Ready(kind, chain[c].id, first, second))
  PROVE  PagesInv'
<1>1. /\ chain[c].kind = kind /\ chain[c].here
      /\ kind \in Loads /\ kind # "account"
  BY DEF Hears, Loads
<1>2. Agree(kind, chain[c].id, first, second, role)
  BY DEF Agree
<1>3. CASE a = Failed
  BY <1>1, <1>3, ErrorKeeps
<1>4. CASE a # Failed
  BY <1>1, <1>2, <1>4, ReadyKeeps
<1> QED
  BY <1>3, <1>4

LEMMA ListsFoundKeep ==
  ASSUME NEW c \in Chains, AlertsFound(c) \/ AlertFound(c) \/ NotificationsFound(c), PagesInv
  PROVE  PagesInv'
<1>0. PICK alerts, alert, notifications, none :
        /\ alerts = "alerts" /\ alert = "alert" /\ notifications = "notifications" /\ none = None
  OBVIOUS
<1>1. {alerts, alert, notifications} \subseteq {"alerts", "alert", "notifications"}
  BY <1>0
<1>2. CASE AlertsFound(c)
  BY <1>0, <1>1, <1>2, ListFoundKeeps DEF AlertsFound
<1>3. CASE AlertFound(c)
  BY <1>0, <1>1, <1>3, ListFoundKeeps DEF AlertFound
<1>4. CASE NotificationsFound(c)
  <2>1. Hears(c, notifications) /\ notifications \in Bare
    BY <1>0, <1>4 DEF NotificationsFound, Bare
  <2>2. chain[c].id = none
    BY <1>0, <2>1, IdleIs DEF PagesInv, Orderly, Fits, Hears
  <2> QED
    BY <1>0, <1>1, <1>4, <2>2, ListFoundKeeps DEF NotificationsFound
<1> QED
  BY <1>2, <1>3, <1>4


\* The accounts, and then the stats of the first of them, for admins.
LEMMA OverviewFoundKeeps ==
  ASSUME NEW c \in Chains, OverviewFound(c), PagesInv
  PROVE  PagesInv'
<1>1. /\ chain[c].kind = "overview" /\ chain[c].here /\ chain[c].kind \in Loads
      /\ chain[c].kind \in Bare
      /\ UNCHANGED <<role, route, filter, form, frozen, history>>
  BY DEF OverviewFound, Hears, Loads, Bare
<1>2. chain[c].id = None
  BY <1>1, IdleIs DEF PagesInv, Orderly, Fits
<1>3. PICK got : \/ End(c, ErrorPanel)
                 \/ Continue(c, got)
                 \/ End(c, Ready("overview", None, got, None))
  BY DEF OverviewFound
<1>4. /\ Answers(chain[c], got) /\ Agree(chain[c].kind, chain[c].id, got, None, role)
      /\ chain[c].kind # "account"
  BY <1>1 DEF Answers, Agree
<1>5. CASE End(c, ErrorPanel)
  BY <1>1, <1>5, ErrorKeeps
<1>6. CASE Continue(c, got)
  BY <1>1, <1>4, <1>6, ContinueKeeps
<1>7. CASE End(c, Ready("overview", None, got, None))
  BY <1>1, <1>2, <1>4, <1>7, ReadyKeeps
<1> QED
  BY <1>3, <1>5, <1>6, <1>7

LEMMA OverviewStatsFoundKeeps ==
  ASSUME NEW c \in Chains, OverviewStatsFound(c), PagesInv
  PROVE  PagesInv'
<1>1. /\ chain[c].kind = "overview" /\ chain[c].here /\ chain[c].kind \in Loads
      /\ chain[c].kind \in Bare
      /\ UNCHANGED <<role, route, filter, form, frozen, history>>
  BY DEF OverviewStatsFound, Hears, Loads, Bare
<1>2. chain[c].id = None
  BY <1>1, IdleIs DEF PagesInv, Orderly, Fits
<1>3. PICK a \in Stats(Kept(c)) :
        End(c, Ready("overview", None, Kept(c), IF a = Failed THEN None ELSE a.data))
  BY DEF OverviewStatsFound
<1>4. PICK second : second = IF a = Failed THEN None ELSE a.data
  OBVIOUS
<1>5. second # None => role = "admin" /\ second = Kept(c)
  BY <1>3, <1>4, StatsAre
<1>6. /\ Agree(chain[c].kind, chain[c].id, Kept(c), second, role)
      /\ chain[c].kind # "account"
  BY <1>1, <1>5 DEF Agree
<1>7. End(c, Ready(chain[c].kind, chain[c].id, Kept(c), second))
  BY <1>1, <1>2, <1>3, <1>4
<1> QED
  BY <1>1, <1>6, <1>7, ReadyKeeps

LEMMA HealthFoundKeeps ==
  ASSUME NEW c \in Chains, HealthFound(c), PagesInv
  PROVE  PagesInv'
<1>1. /\ chain[c].kind = "health" /\ chain[c].here /\ chain[c].kind \in Loads
      /\ chain[c].kind \in Bare
      /\ UNCHANGED <<role, route, filter, form, frozen, history>>
  BY DEF HealthFound, Hears, Loads, Bare
<1>2. chain[c].id = None
  BY <1>1, IdleIs DEF PagesInv, Orderly, Fits
<1>3. PICK a \in HealthReports : End(c, Ready("health", None, GatewayHealth(a), None))
  BY DEF HealthFound
<1>4. /\ Agree(chain[c].kind, chain[c].id, GatewayHealth(a), None, role)
      /\ chain[c].kind # "account"
  BY <1>1, <1>3 DEF Agree
<1>5. End(c, Ready(chain[c].kind, chain[c].id, GatewayHealth(a), None))
  BY <1>1, <1>2, <1>3
<1> QED
  BY <1>1, <1>4, <1>5, ReadyKeeps

-----------------------------------------------------------------------------
(* Chains that are dropped                                                 *)

\* A chain without a mate ends, and leaves the panels alone.
LEMMA DropSettles ==
  ASSUME NEW c \in Chains, NEW chs, chs = [chain EXCEPT ![c] = Idle], Orderly(chain),
         chain[c] # Idle, chain[c].kind \notin {"alerts", "alert"}
  PROVE  Fits(chain[c]) /\ chain[c].mate = 0 /\ Settles(chain, chs, c)
<1>1. Fits(chain[c]) /\ DOMAIN chain = Chains
  BY DEF Orderly
<1>2. chain[c].mate = 0
  BY <1>1 DEF Fits
<1> QED
  BY <1>1, <1>2 DEF Settles

LEMMA DropRuns ==
  ASSUME PagesInv, NEW c \in Chains, NEW chs, chs = [chain EXCEPT ![c] = Idle],
         chain[c] # Idle, chain[c].kind \in Submits \cup Plain
  PROVE  /\ Orderly(chs) /\ Truthful(chs, frozen)
         /\ \A s \in Slots : Current(chs, s, panel[s], asked[s] \cup left[s], acked)
         /\ \A s \in Slots \ stranded : PanelWaits(chs, s, panel[s])
         /\ ~chain[c].here => "button" \in stranded \/ ButtonWaits(chs, mutation)
         /\ ~Sends(chain, c) => "form" \in stranded \/ FormWaits(chs, form)
         /\ Single(chs, form) /\ (Sends(chain, c) => \A f : Single(chs, f))
<1>1. Orderly(chain) /\ chain[c].kind \notin {"alerts", "alert"}
  BY DEF PagesInv, Submits, Plain
<1>2. Fits(chain[c]) /\ chain[c].mate = 0 /\ Settles(chain, chs, c)
  BY <1>1, DropSettles
<1>3. Orderly(chs) /\ Truthful(chs, frozen)
  BY <1>2, SettlesOrderly, SettlesTruthful DEF PagesInv
<1>4. ASSUME NEW s \in Slots, NEW w, w = asked[s] \cup left[s]
      PROVE  Current(chs, s, panel[s], w, acked)
  <2>1. Current(chain, s, panel[s], w, acked)
    BY <1>4 DEF PagesInv
  <2>2. panel[s].status = "ready" =>
          /\ panel[s].of \in w
          /\ panel[s].of[1] = "account" /\ panel[s].of[2] \in acked => panel[s].first.suspended
    BY <2>1 DEF Current
  <2> QED
    BY <1>2, <2>1, <2>2, SettlesCurrent
<1>5. /\ \A s \in Slots \ stranded : PanelWaits(chs, s, panel[s])
      /\ ~chain[c].here => "button" \in stranded \/ ButtonWaits(chs, mutation)
      /\ ~Sends(chain, c) => "form" \in stranded \/ FormWaits(chs, form)
  <2>1. Waits(chain, panel, mutation, form, stranded)
    BY DEF PagesInv
  <2>2. ASSUME NEW s \in Slots \ stranded
        PROVE  PanelWaits(chs, s, panel[s])
    <3>1. ~In(chain, c, s) \/ chain[c].kind \in Submits
      <4>1. chain[c].kind \in Plain => SlotOf(chain[c].kind) = None
        BY SlotsOf
      <4> QED
        BY <1>2, <4>1, SlotsOf DEF In, Fits
    <3> QED
      BY <1>1, <1>2, <2>1, <3>1, SettlesWaits DEF Waits
  <2>3. ~chain[c].here => "button" \in stranded \/ ButtonWaits(chs, mutation)
    BY <1>1, <1>2, <2>1, SettlesButton DEF Waits
  <2>4. ~Sends(chain, c) => "form" \in stranded \/ FormWaits(chs, form)
    BY <1>1, <1>2, <2>1, SettlesWaits DEF Waits, Sends
  <2> QED
    BY <2>2, <2>3, <2>4
<1>6. Single(chs, form) /\ (Sends(chain, c) => \A f : Single(chs, f))
  BY <1>2, SettlesSingle DEF PagesInv
<1> QED
  BY <1>3, <1>4, <1>5, <1>6

LEMMA DropKeeps ==
  ASSUME NEW c \in Chains, chain' = [chain EXCEPT ![c] = Idle], PagesInv,
         chain[c] # Idle, chain[c].kind \in Submits \cup Plain,
         UNCHANGED <<role, route, filter, panel, frozen, asked, left, stranded, acked>>,
         mutation' = None \/ (mutation' = mutation /\ ~chain[c].here),
         Counted(form'),
         \/ Sends(chain, c) /\ ~form'.submitting
         \/ ~Sends(chain, c) /\ form' = form
  PROVE  PagesInv'
<1>1. /\ Orderly(chain') /\ Truthful(chain', frozen)
      /\ \A s \in Slots : Current(chain', s, panel[s], asked[s] \cup left[s], acked)
      /\ \A s \in Slots \ stranded : PanelWaits(chain', s, panel[s])
      /\ ~chain[c].here => "button" \in stranded \/ ButtonWaits(chain', mutation)
      /\ ~Sends(chain, c) => "form" \in stranded \/ FormWaits(chain', form)
      /\ Single(chain', form) /\ (Sends(chain, c) => \A f : Single(chain', f))
  BY DropRuns
<1>2. Truthful(chain', frozen') /\ acked' \subseteq frozen'
  BY <1>1 DEF PagesInv
<1>3. Waits(chain', panel, mutation', form', stranded)
  <2>1. mutation' = None => ButtonWaits(chain', mutation')
    BY DEF ButtonWaits
  <2>2. ~form'.submitting => FormWaits(chain', form')
    BY DEF FormWaits
  <2> QED
    BY <1>1, <2>1, <2>2 DEF Waits
<1> QED
  BY <1>1, <1>2, <1>3 DEF PagesInv

LEMMA FormIs ==
  ASSUME NEW sub \in BOOLEAN, NEW k \in {None, "paid", "refused"}, NEW m \in Nat, NEW n \in Nat,
         m <= n + (IF k = "paid" THEN 1 ELSE 0)
  PROVE  Counted([submitting |-> sub, kept |-> k, paid |-> m, unkept |-> n])
  BY DEF Counted, Forms

LEMMA FormSent ==
  ASSUME NEW b, NEW k, NEW m, NEW n, NEW off,
         NEW g, g = [submitting |-> b, kept |-> k, paid |-> m, unkept |-> n],
         NEW h, h = [g EXCEPT !.submitting = off]
  PROVE  h = [submitting |-> off, kept |-> k, paid |-> m, unkept |-> n]
  OBVIOUS

\* What becomes of a form that was counted.
LEMMA FormsCounted ==
  ASSUME NEW f, Counted(f), NEW g,
         \/ g = f
         \/ f.kept = None /\ g \in {Executed(f), Unkept(f), [f EXCEPT !.kept = "refused"]}
         \/ f.kept = "refused" /\ g = [f EXCEPT !.kept = "paid"],
         NEW h, h = [g EXCEPT !.submitting = FALSE]
  PROVE  Counted(g) /\ Counted(h) /\ ~h.submitting /\ g.paid <= 1 + g.unkept
<1>1. PICK m, n : m = f.paid /\ n = f.unkept
  OBVIOUS
<1>2. /\ f \in Forms /\ m \in Nat /\ n \in Nat /\ f.submitting \in BOOLEAN
      /\ f.kept \in {None, "paid", "refused"}
      /\ m <= n + (IF f.kept = "paid" THEN 1 ELSE 0)
  BY <1>1 DEF Counted, Forms
<1>3. f = [submitting |-> f.submitting, kept |-> f.kept, paid |-> m, unkept |-> n]
  BY <1>1, <1>2 DEF Forms
<1>4. \E k \in {None, "paid", "refused"}, p \in Nat, u \in Nat :
        /\ p <= u + (IF k = "paid" THEN 1 ELSE 0)
        /\ g = [submitting |-> f.submitting, kept |-> k, paid |-> p, unkept |-> u]
  <2>1. CASE g = f
    BY <1>2, <1>3, <2>1
  <2>2. CASE f.kept = None /\ g = Executed(f)
    <3>1. m <= n /\ m + 1 \in Nat /\ m + 1 <= n + 1
      BY <1>2, <2>2 DEF None
    <3>2. g = [submitting |-> f.submitting, kept |-> "paid", paid |-> m + 1, unkept |-> n]
      BY <1>1, <1>3, <2>2 DEF Executed
    <3> QED
      BY <1>2, <3>1, <3>2
  <2>3. CASE f.kept = None /\ g = Unkept(f)
    <3>1. m <= n /\ m + 1 \in Nat /\ n + 1 \in Nat /\ m + 1 <= (n + 1) + 0
      BY <1>2, <2>3 DEF None
    <3>2. g = [submitting |-> f.submitting, kept |-> None, paid |-> m + 1, unkept |-> n + 1]
      BY <1>1, <1>3, <2>3 DEF Unkept
    <3>3. None # "paid"
      BY DEF None
    <3> QED
      BY <3>1, <3>2, <3>3
  <2>4. CASE f.kept = None /\ g = [f EXCEPT !.kept = "refused"]
    <3>1. m <= n + 0
      BY <1>2, <2>4 DEF None
    <3>2. g = [submitting |-> f.submitting, kept |-> "refused", paid |-> m, unkept |-> n]
      BY <1>3, <2>4
    <3> QED
      BY <1>2, <3>1, <3>2
  <2>5. CASE f.kept = "refused" /\ g = [f EXCEPT !.kept = "paid"]
    <3>1. m <= n + 1
      BY <1>2, <2>5
    <3>2. g = [submitting |-> f.submitting, kept |-> "paid", paid |-> m, unkept |-> n]
      BY <1>3, <2>5
    <3> QED
      BY <1>2, <3>1, <3>2
  <2> QED
    BY <2>1, <2>2, <2>3, <2>4, <2>5
<1>5. PICK k \in {None, "paid", "refused"}, p \in Nat, u \in Nat :
        /\ p <= u + (IF k = "paid" THEN 1 ELSE 0)
        /\ g = [submitting |-> f.submitting, kept |-> k, paid |-> p, unkept |-> u]
  BY <1>4
<1>6. h = [submitting |-> FALSE, kept |-> k, paid |-> p, unkept |-> u]
  BY <1>5, FormSent
<1>7. ~h.submitting /\ g.paid = p /\ g.unkept = u
  <2>1. ~h.submitting
    BY <1>6
  <2>2. g.paid = p /\ g.unkept = u
    BY <1>5
  <2> QED
    BY <2>1, <2>2
<1>8. p <= 1 + u
  <2>1. p <= u + (IF k = "paid" THEN 1 ELSE 0) /\ p \in Nat /\ u \in Nat
    BY <1>5
  <2> QED
    BY ONLY <2>1
<1>9. Counted(g)
  BY <1>2, <1>5, FormIs
<1>10. Counted(h)
  <2>1. PICK b \in BOOLEAN : b = FALSE
    OBVIOUS
  <2>2. h = [submitting |-> b, kept |-> k, paid |-> p, unkept |-> u]
    BY <1>6, <2>1
  <2>3. Counted([submitting |-> b, kept |-> k, paid |-> p, unkept |-> u])
    BY ONLY <1>5, FormIs
  <2> QED
    BY ONLY <2>2, <2>3
<1> QED
  BY <1>7, <1>8, <1>9, <1>10

LEMMA RefusalsCounted ==
  ASSUME NEW f, Counted(f), NEW g \in Refusals(f),
         NEW h, h = [g EXCEPT !.submitting = FALSE]
  PROVE  Counted(h) /\ ~h.submitting
<1>1. \/ g = f
      \/ f.kept = None /\ g \in {Executed(f), Unkept(f), [f EXCEPT !.kept = "refused"]}
  BY DEF Refusals
<1> QED
  BY <1>1, FormsCounted

LEMMA CreatesCounted ==
  ASSUME NEW f, Counted(f), NEW g \in {f} \cup Creates(f)
  PROVE  g.paid <= 1 + g.unkept
<1>1. f.kept \in {None, "paid", "refused"}
  BY DEF Counted, Forms
<1>2. \/ g = f
      \/ f.kept = None /\ g = Executed(f)
      \/ f.kept = "refused" /\ g = [f EXCEPT !.kept = "paid"]
  <2>1. CASE f.kept = "paid"
    BY <2>1 DEF Creates
  <2>2. CASE f.kept = "refused"
    BY <2>2 DEF Creates
  <2>3. CASE f.kept = None
    BY <2>3 DEF Creates, None
  <2> QED
    BY <1>1, <2>1, <2>2, <2>3
<1> QED
  BY <1>2, FormsCounted

LEMMA DropsKeep ==
  ASSUME NEW c \in Chains, PagesInv,
         \/ Copied(c) \/ TransferRefused(c) \/ AccountRefused(c)
         \/ \E b \in Submits : ControlFailed(c, b)
         \/ LeftFailed(c)
  PROVE  PagesInv'
<1>1. ASSUME chain[c].here \/ chain[c].kind \in Submits \cup Plain
      PROVE  chain[c] # Idle
  BY <1>1, IdleIs DEF Submits, Plain, None
<1>2. CASE Copied(c)
  <2>1. chain[c].kind \in Submits \cup Plain /\ chain[c].kind # "create transfer"
    BY <1>2 DEF Copied, Hears, Plain
  <2> QED
    BY <1>1, <1>2, <2>1, DropKeeps DEF Copied, history, PagesInv, Sends
<1>3. CASE TransferRefused(c)
  <2>1. chain[c].kind \in Submits \cup Plain
    BY <1>3 DEF TransferRefused, Hears, Plain
  <2>2. Counted(form') /\ ~form'.submitting
    BY <1>3, RefusalsCounted DEF TransferRefused, PagesInv
  <2> QED
    BY <1>1, <1>3, <2>1, <2>2, DropKeeps DEF TransferRefused, history, Sends, Hears
<1>4. CASE AccountRefused(c)
  <2>1. chain[c].kind \in Submits \cup Plain /\ chain[c].kind # "create transfer"
    BY <1>4 DEF AccountRefused, Hears, Plain
  <2> QED
    BY <1>1, <1>4, <2>1, DropKeeps DEF AccountRefused, history, PagesInv, Sends
<1>5. ASSUME NEW b \in Submits, ControlFailed(c, b)
      PROVE  PagesInv'
  <2>1. chain[c].kind \in Submits \cup Plain /\ chain[c].kind # "create transfer"
    BY <1>5 DEF ControlFailed, Hears, Submits
  <2> QED
    BY <1>1, <1>5, <2>1, DropKeeps DEF ControlFailed, history, PagesInv, Sends
<1>6. CASE LeftFailed(c)
  <2>1. chain[c].kind \in Submits \cup Plain
    BY <1>6 DEF LeftFailed, Creations, Plain
  <2> QED
    BY <1>1, <1>6, <2>1, DropKeeps DEF LeftFailed, history, PagesInv, Sends
<1> QED
  BY <1>2, <1>3, <1>4, <1>5, <1>6


\* A chain that is rejected leaves its mate behind.
LEMMA RejectedSettles ==
  ASSUME NEW c \in Chains, Rejected(c), Orderly(chain), Fits(chain[c])
  PROVE  Settles(chain, chain', c)
<1>1. chain' = [d \in Chains |->
                  IF d = c THEN Idle
                  ELSE IF chain[c].mate # 0 /\ d = chain[c].mate
                       THEN [chain[d] EXCEPT !.mate = 0, !.after = None] ELSE chain[d]]
  BY DEF Rejected, Linked
<1>2. PICK m : m = chain[c].mate
  OBVIOUS
<1>3. ASSUME m # 0
      PROVE  /\ m \in Chains /\ Fits(chain'[m]) /\ chain'[m].mate = 0
             /\ \A f \in Fields \ {"mate", "after"} : chain'[m][f] = chain[m][f]
  <2>1. m \in Chains \ {c} /\ Fits(chain[m])
    BY <1>2, <1>3 DEF Orderly, Paired
  <2>2. chain'[m] = Abandoned(chain[m])
    BY <1>1, <1>2, <1>3, <2>1 DEF Abandoned
  <2> QED
    BY <2>1, <2>2, AbandonedFits
<1>4. DOMAIN chain' = Chains /\ chain'[c] = Idle
  BY <1>1
<1>5. \A d \in Chains \ {c} : ~(m # 0 /\ d = m) => chain'[d] = chain[d]
  BY <1>1, <1>2
<1> QED
  BY <1>2, <1>3, <1>4, <1>5 DEF Settles

LEMMA RejectedKeeps ==
  ASSUME NEW c \in Chains, Rejected(c), PagesInv
  PROVE  PagesInv'
<1>1. Orderly(chain) /\ Fits(chain[c])
  BY IdleIs DEF PagesInv, Orderly, Rejected
<1>2. Settles(chain, chain', c)
  BY <1>1, RejectedSettles
<1>3. Orderly(chain') /\ Truthful(chain', frozen)
  BY <1>1, <1>2, SettlesOrderly, SettlesTruthful DEF PagesInv
<1>4. /\ UNCHANGED <<role, route, panel, form, frozen, asked, left, acked>>
      /\ stranded' = stranded \cup Waiting(chain[c])
      /\ mutation' = IF chain[c].after = "finally" THEN None ELSE mutation
      /\ chain[c].here /\ chain[c].kind # "copy"
  BY DEF Rejected
<1>5. ASSUME NEW s \in Slots, NEW w, w = asked[s] \cup left[s]
      PROVE  Current(chain', s, panel[s], w, acked)
  <2>1. Current(chain, s, panel[s], w, acked)
    BY <1>5 DEF PagesInv
  <2>2. panel[s].status = "ready" =>
          /\ panel[s].of \in w
          /\ panel[s].of[1] = "account" /\ panel[s].of[2] \in acked => panel[s].first.suspended
    BY <2>1 DEF Current
  <2> QED
    BY <1>2, <2>1, <2>2, SettlesCurrent
<1>6. Waits(chain, panel, mutation, form, stranded)
  BY DEF PagesInv
<1>7. ASSUME NEW s \in Slots, s \notin stranded'
      PROVE  PanelWaits(chain', s, panel[s])
  <2>1. s \notin stranded /\ s \notin Waiting(chain[c]) /\ s \notin {"button", "form"}
    BY <1>4, <1>7 DEF Slots
  <2>2. chain[c].kind \in Submits \/ chain[c].slot # s
    BY <2>1 DEF Waiting, Submits
  <2>3. PanelWaits(chain, s, panel[s])
    BY <1>6, <2>1 DEF Waits
  <2> QED
    BY <1>1, <1>2, <2>2, <2>3, SettlesWaits DEF In
<1>8. ASSUME "button" \notin stranded'
      PROVE  ButtonWaits(chain', mutation')
  <2>1. "button" \notin stranded /\ "button" \notin Waiting(chain[c])
    BY <1>4, <1>8
  <2>2. chain[c].after # "freed" /\ chain[c].kind \notin Writes \cup {"copy"}
    BY <1>4, <2>1 DEF Waiting
  <2>3. CASE chain[c].after = "finally"
    BY <1>4, <2>3 DEF ButtonWaits
  <2>4. CASE chain[c].after = None
    <3>1. chain[c].mate = 0
      BY <1>1, <2>4 DEF Fits, None
    <3>2. mutation' = mutation /\ ButtonWaits(chain, mutation)
      BY <1>4, <1>6, <2>1, <2>4 DEF Waits, None
    <3> QED
      BY <1>1, <1>2, <2>2, <2>4, <3>1, <3>2, SettlesButton
  <2> QED
    BY <1>1, <2>2, <2>3, <2>4 DEF Fits, Freeing
<1>9. ASSUME "form" \notin stranded'
      PROVE  FormWaits(chain', form)
  <2>1. "form" \notin stranded /\ "form" \notin Waiting(chain[c])
    BY <1>4, <1>9
  <2>2. chain[c].kind # "create transfer"
    BY <2>1 DEF Waiting
  <2>3. FormWaits(chain, form)
    BY <1>6, <2>1 DEF Waits
  <2> QED
    BY <1>1, <1>2, <2>2, <2>3, SettlesWaits
<1>10. Waits(chain', panel, mutation', form, stranded')
  BY <1>7, <1>8, <1>9 DEF Waits
<1>11. Single(chain', form)
  BY <1>2, SettlesSingle DEF PagesInv
<1> QED
  BY <1>3, <1>4, <1>5, <1>10, <1>11 DEF PagesInv

-----------------------------------------------------------------------------
(* The controls of an account                                              *)

LEMMA FreezeServedKeeps ==
  ASSUME NEW c \in Chains, FreezeServed(c), PagesInv
  PROVE  PagesInv'
<1>1. /\ chain[c].kind = "freeze" /\ chain[c].here
      /\ UNCHANGED <<role, route, filter, panel, mutation, form, asked, left, stranded, acked>>
  BY DEF FreezeServed, Hears, history
<1>2. chain[c] # Idle /\ Orderly(chain)
  BY <1>1, IdleIs DEF None, PagesInv
<1>3. PICK suspended : suspended = frozen \cup {chain[c].id}
  OBVIOUS
<1>4. frozen' = suspended /\ frozen \subseteq suspended /\ chain[c].id \in suspended
  BY <1>3 DEF FreezeServed
<1>5. \A chs : Truthful(chs, frozen) => Truthful(chs, suspended)
  BY <1>4 DEF Truthful
<1>6. acked \subseteq suspended
  BY <1>4 DEF PagesInv
<1>7. PICK got : got = "frozen"
  OBVIOUS
<1>8. chain' = [chain EXCEPT ![c].got = <<got>>]
  BY <1>2, <1>7 DEF FreezeServed, Hears, Orderly
<1>9. Answers(chain[c], got)
  BY <1>1 DEF Answers
<1>10. /\ Alters(chain, chain', c)
       /\ chain'[c].kind = chain[c].kind /\ chain'[c].after = chain[c].after
  BY <1>1, <1>2, <1>8, <1>9, HearsAlters
<1>11. Orderly(chain')
  BY <1>2, <1>10, AltersOrderly
<1>12. Truthful(chain', suspended)
  <2>1. Truthful(chain, suspended) /\ chain'[c].id = chain[c].id
    BY <1>5, <1>10 DEF Alters, PagesInv
  <2> QED
    BY <1>4, <1>10, <2>1 DEF Truthful, Alters
<1>13. \A s \in Slots : Current(chain', s, panel[s], asked[s] \cup left[s], acked)
  BY <1>1, <1>10, AltersCurrent DEF PagesInv
<1>14. Waits(chain', panel, mutation, form, stranded) /\ Single(chain', form)
  BY <1>10, AltersWaits, AltersSingle DEF PagesInv, Waits
<1> QED
  BY <1>1, <1>4, <1>6, <1>11, <1>12, <1>13, <1>14 DEF PagesInv

\* The account is read again that a control has changed.
LEMMA ControlDoneKeeps ==
  ASSUME NEW c \in Chains, NEW b \in Submits, ControlDone(c, b), PagesInv
  PROVE  PagesInv'
<1>1. /\ chain[c].kind = b /\ chain[c].here
      /\ mutation' = None /\ panel' = [panel EXCEPT !.main = LoadingPanel]
      /\ UNCHANGED <<role, route, form, frozen, asked, left, stranded>>
  BY DEF ControlDone, Hears
<1>2. Fits(chain[c]) /\ DOMAIN chain = Chains /\ Orderly(chain)
  BY <1>1, IdleIs DEF PagesInv, Orderly
<1>3. /\ chain[c].mate = 0 /\ chain[c].slot = "main" /\ About(b) = "account"
      /\ In(chain, c, "main") /\ b # "create transfer"
  <2>1. SlotOf(b) = "main" /\ About(b) = "account" /\ b \notin {"alerts", "alert", "create transfer"}
    BY SlotsOf DEF Submits, About
  <2> QED
    BY <1>1, <1>2, <2>1 DEF Fits, In
<1>4. PICK account, id, new :
        /\ account = "account" /\ id = chain[c].id /\ new = Chain(account, SlotOf(account), id)
  OBVIOUS
<1>5. account \in Kinds \ Bare /\ SlotOf(account) = "main" /\ account \notin Submits
  BY <1>4 DEF Kinds, Loads, Bare, SlotOf, Submits
<1>6. /\ Fits(new) /\ new.here /\ new.got = <<>> /\ new.mate = 0
      /\ new.kind = account /\ new.slot = "main" /\ new.id = id
  BY <1>4, <1>5, ChainFits
<1>7. About(account) = "account"
  BY <1>4, <1>5 DEF About
<1>8. chain' = [chain EXCEPT ![c] = new]
  <2>1. new = LoadAccount(chain[c].id)
    BY <1>4, <1>5 DEF LoadAccount
  <2> QED
    BY <2>1 DEF ControlDone
<1>9. Alters(chain, chain', c) /\ chain'[c] = new
  <2>1. /\ DOMAIN chain' = Chains /\ chain'[c] = new
        /\ \A d \in Chains \ {c} : chain'[d] = chain[d]
    BY <1>2, <1>8
  <2>2. new.here = chain[c].here /\ new.slot = chain[c].slot /\ new.id = chain[c].id
        /\ new.mate = chain[c].mate /\ About(new.kind) = About(chain[c].kind)
    BY <1>1, <1>3, <1>4, <1>6, <1>7
  <2>3. \A f \in {"here", "slot", "id", "mate"} : new[f] = chain[c][f]
    BY <2>2
  <2> QED
    BY <1>2, <1>6, <2>1, <2>2, <2>3 DEF Alters
<1>10. Orderly(chain')
  BY <1>2, <1>9, AltersOrderly
<1>11. Truthful(chain', frozen)
  BY <1>6, <1>9 DEF PagesInv, Truthful, Alters
<1>12. acked' \subseteq frozen
  <2>1. b = "freeze" => chain[c].id \in frozen
    BY <1>1 DEF ControlDone, Second, PagesInv, Truthful
  <2> QED
    BY <2>1 DEF ControlDone, Acknowledge, PagesInv
<1>13. /\ DOMAIN panel' = Slots /\ panel'["main"].status = "loading"
       /\ \A s \in Slots : panel'[s] = panel[s] \/ s = "main"
  BY <1>1, MainLoads DEF PagesInv
<1>14. \A s \in Slots : Whole(panel'[s], role) /\ Placed(s, panel'[s])
  BY <1>13 DEF PagesInv, Whole, Placed
<1>15. ASSUME NEW s \in Slots, NEW w, w = asked[s] \cup left[s]
       PROVE  Current(chain', s, panel'[s], w, acked')
  <2>1. Current(chain, s, panel[s], w, acked)
    BY <1>15 DEF PagesInv
  <2>2. ASSUME NEW d \in Chains, In(chain', d, s)
        PROVE  /\ In(chain, d, s)
               /\ About(chain'[d].kind) = About(chain[d].kind) /\ chain'[d].id = chain[d].id
               /\ chain'[d].kind = "account" /\ chain'[d].got # <<>> /\ chain'[d].id \in acked' =>
                    chain'[d].got[1].suspended
    <3>1. CASE d = c
      BY <1>6, <1>9, <2>2, <3>1 DEF Alters, In
    <3>2. CASE d # c
      <4>1. chain'[d] = chain[d] /\ In(chain, d, s)
        BY <1>9, <2>2, <3>2 DEF Alters, In
      <4>2. ASSUME chain[d].kind = "account", chain[d].got # <<>>, chain[d].id \in acked'
            PROVE  chain[d].got[1].suspended
        <5>1. CASE chain[d].id \in acked
          BY <2>1, <4>1, <4>2, <5>1 DEF Current
        <5>2. CASE chain[d].id \notin acked
          <6>1. chain[d].id = chain[c].id /\ ~Stale(chain[c].id)
            BY <4>2, <5>2 DEF ControlDone, Acknowledge
          <6> QED
            BY <4>1, <4>2, <6>1 DEF Stale, Hears, Second, Kept, In
        <5> QED
          BY <5>1, <5>2
      <4> QED
        BY <4>1, <4>2
    <3> QED
      BY <3>1, <3>2
  <2>3. panel'[s].status = "ready" =>
          /\ panel'[s].of \in w
          /\ panel'[s].of[1] = "account" /\ panel'[s].of[2] \in acked' => panel'[s].first.suspended
    <3>1. CASE s = "main"
      BY <1>13, <3>1
    <3>2. CASE s # "main"
      <4>1. panel'[s] = panel[s] /\ Placed(s, panel[s])
        BY <1>13, <3>2 DEF PagesInv
      <4> QED
        BY <1>4, <1>5, <2>1, <3>2, <4>1 DEF Current, Placed
    <3> QED
      BY <3>1, <3>2
  <2> QED
    BY <2>1, <2>2, <2>3, CurrentOfFewer
<1>16. Waits(chain', panel', mutation', form, stranded)
  <2>1. Waits(chain, panel, mutation, form, stranded)
    BY DEF PagesInv
  <2>2. ASSUME NEW s \in Slots \ stranded
        PROVE  PanelWaits(chain', s, panel'[s])
    <3>1. CASE s = "main"
      BY <1>5, <1>6, <1>9, <3>1 DEF PanelWaits, In
    <3>2. CASE s # "main"
      BY <1>5, <1>6, <1>9, <1>13, <2>1, <3>2, AltersWaits DEF Waits
    <3> QED
      BY <3>1, <3>2
  <2>3. ButtonWaits(chain', mutation')
    BY <1>1 DEF ButtonWaits
  <2>4. "form" \in stranded \/ FormWaits(chain', form)
    BY <1>1, <1>3, <1>9, <2>1, AltersWaits DEF Waits
  <2> QED
    BY <2>2, <2>3, <2>4 DEF Waits
<1> QED
  <2>1. Single(chain', form)
    <3>1. chain'[c].kind # "create transfer" /\ Single(chain, form)
      BY <1>4, <1>6, <1>9 DEF PagesInv
    <3> QED
      BY <1>9, <3>1, AltersSingle
  <2> QED
    BY <1>1, <1>10, <1>11, <1>12, <1>13, <1>14, <1>15, <1>16, <2>1 DEF PagesInv

LEMMA UpdateFilterKeeps ==
  ASSUME NEW f, UpdateFilter(f), PagesInv
  PROVE  PagesInv'
  BY DEF UpdateFilter, history, PagesInv

-----------------------------------------------------------------------------
(* The route changes                                                       *)

LEMMA MountEffectsAre ==
  ASSUME NEW page
  PROVE  /\ \A x \in MountEffects(page) :
              \E kind \in Listing : x = Chain(kind, SlotOf(kind), None) /\ kind \notin Submits
         /\ \A x, y \in MountEffects(page) : x = y
         /\ MountEffects(page) # {} => page \in {"fraud"} \cup WithoutId
<1>1. PICK overview, alerts, notifications, health, main :
        /\ overview = "overview" /\ alerts = "alerts" /\ notifications = "notifications"
        /\ health = "health" /\ main = "main"
  OBVIOUS
<1>2. \A kind \in {overview, alerts, notifications, health} :
        kind \in Listing /\ kind \notin Submits /\ SlotOf(kind) = main
  BY <1>1 DEF Listing, Loads, Submits, SlotOf
<1>3. /\ LoadOverview = Chain(overview, main, None)
      /\ LoadAlerts(None) = Chain(alerts, main, None)
      /\ LoadNotifications = Chain(notifications, main, None)
      /\ LoadHealth = Chain(health, main, None)
  BY <1>1 DEF LoadOverview, LoadAlerts, LoadNotifications, LoadHealth
<1>4. \/ MountEffects(page) = {}
      \/ /\ page \in {"fraud"} \cup WithoutId
         /\ \E x \in {LoadOverview, LoadAlerts(None), LoadNotifications, LoadHealth} :
              MountEffects(page) = {x}
  BY DEF MountEffects, WithoutId
<1>5. \A x \in {LoadOverview, LoadAlerts(None), LoadNotifications, LoadHealth} :
        \E kind \in Listing : x = Chain(kind, SlotOf(kind), None) /\ kind \notin Submits
  BY <1>2, <1>3
<1> QED
  BY <1>4, <1>5

LEMMA IdEffectsAre ==
  ASSUME NEW to \in Routes \cup {Forbidden}
  PROVE  /\ \A x \in IdEffects(to) :
              \E kind \in Loads \ Bare :
                /\ x = Chain(kind, SlotOf(kind), to.id) /\ kind \notin Submits
                /\ SlotOf(kind) = IdSlot(to.page)
         /\ \A x, y \in IdEffects(to) : x = y
         /\ IdEffects(to) # {} => to.page \in WithId
<1> SUFFICES ASSUME to.id \in Ids
             PROVE  /\ to.page \in WithId
                    /\ \E kind \in Loads \ Bare :
                         /\ IdEffects(to) = {Chain(kind, SlotOf(kind), to.id)} /\ kind \notin Submits
                         /\ SlotOf(kind) = IdSlot(to.page)
  BY DEF IdEffects
<1>1. to.page \in WithId
  BY PagesAssumption DEF Routes, Forbidden
<1>2. PICK transfer, account, ledger, alert :
        /\ transfer = "transfer" /\ account = "account" /\ ledger = "transfer ledger"
        /\ alert = "alert"
  OBVIOUS
<1>3. /\ {transfer, account, ledger, alert} \subseteq (Loads \ Bare) \ Submits
      /\ SlotOf(transfer) = "main" /\ SlotOf(account) = "main" /\ SlotOf(ledger) = "main"
      /\ SlotOf(alert) = "side"
  BY <1>2 DEF Loads, Bare, Submits, SlotOf
<1>4. CASE to.page = "transfers"
  BY <1>1, <1>2, <1>3, <1>4 DEF IdEffects, LoadTransfer, IdSlot
<1>5. CASE to.page = "accounts"
  BY <1>1, <1>2, <1>3, <1>5 DEF IdEffects, LoadAccount, IdSlot
<1>6. CASE to.page = "ledger"
  BY <1>1, <1>2, <1>3, <1>6 DEF IdEffects, LoadTransferLedger, IdSlot
<1>7. CASE to.page = "fraud"
  BY <1>1, <1>2, <1>3, <1>7 DEF IdEffects, LoadAlert, IdSlot
<1> QED
  BY <1>1, <1>4, <1>5, <1>6, <1>7 DEF WithId

\* The effects of a page load its panels, each panel at most once.
LEMMA EffectsFit ==
  ASSUME NEW to \in Routes \cup {Forbidden},
         NEW new \in SUBSET (MountEffects(to.page) \cup IdEffects(to))
  PROVE  /\ \A x \in new : /\ Fits(x) /\ x.here /\ x.got = <<>> /\ x.mate = 0
                           /\ x.kind \notin Submits /\ x.slot \in Slots
                           /\ About(x.kind) = x.kind
         /\ \A x, y \in new : x.slot = y.slot => x = y
<1>1. \A x \in MountEffects(to.page) :
        /\ Fits(x) /\ x.here /\ x.got = <<>> /\ x.mate = 0 /\ x.kind \notin Submits
        /\ x.slot = "main"
  <2> TAKE x \in MountEffects(to.page)
  <2>1. PICK kind \in Listing : x = Chain(kind, SlotOf(kind), None) /\ kind \notin Submits
    BY MountEffectsAre
  <2>2. kind \in Kinds /\ SlotOf(kind) = "main"
    BY SlotsOf DEF Kinds, Listing
  <2> QED
    BY <2>1, <2>2, ChainFits
<1>2. \A x \in IdEffects(to) :
        /\ Fits(x) /\ x.here /\ x.got = <<>> /\ x.mate = 0 /\ x.kind \notin Submits
        /\ x.slot = IdSlot(to.page)
  <2> TAKE x \in IdEffects(to)
  <2>1. PICK kind \in Loads \ Bare : /\ x = Chain(kind, SlotOf(kind), to.id) /\ kind \notin Submits
                                     /\ SlotOf(kind) = IdSlot(to.page)
    BY IdEffectsAre
  <2>2. kind \in Kinds
    BY DEF Kinds
  <2> QED
    BY <2>1, <2>2, ChainFits
<1>3. \A x \in new : x.slot \in Slots /\ About(x.kind) = x.kind
  BY <1>1, <1>2 DEF IdSlot, Slots, About
<1>4. ASSUME NEW x \in MountEffects(to.page), NEW y \in IdEffects(to)
      PROVE  x.slot # y.slot
  <2>1. to.page = "fraud"
    BY <1>4, MountEffectsAre, IdEffectsAre DEF WithId, WithoutId
  <2>2. y.slot = "side" /\ x.slot = "main"
    BY <1>1, <1>2, <2>1 DEF IdSlot
  <2> QED
    BY <2>2
<1> QED
  BY <1>1, <1>2, <1>3, <1>4, MountEffectsAre, IdEffectsAre


\* Of the chains of a page that is left, what remains is nobody's.
LEMMA LeftFit ==
  ASSUME NEW running, Orderly(running), NEW old, old = [c \in Chains |-> Left(running[c])]
  PROVE  /\ Orderly(old) /\ \A c \in Chains : ~old[c].here
         /\ \A suspended : Truthful(old, suspended)
<1>1. ASSUME NEW c \in Chains
      PROVE  /\ old[c] = Idle \/ Fits(old[c])
             /\ ~old[c].here /\ Paired(old, c)
  <2>1. PICK ch : ch = running[c]
    OBVIOUS
  <2>2. old[c] = IF ch.kind \in Creations
                 THEN [ch EXCEPT !.here = FALSE, !.slot = None] ELSE Idle
    BY <2>1 DEF Left
  <2>3. CASE ch.kind \in Creations
    <3>1. Fits(ch)
      BY <2>1, <2>3, IdleIs DEF Orderly, Creations, None
    <3>2. PICK new : new = [ch EXCEPT !.here = FALSE, !.slot = None]
      OBVIOUS
    <3>3. Fits(new) /\ ~new.here
      BY <2>3, <3>1, <3>2, LeavesFits
    <3>4. new.mate = 0
      BY <3>3 DEF Fits
    <3> QED
      BY <2>2, <2>3, <3>2, <3>3, <3>4 DEF Paired
  <2>4. CASE ch.kind \notin Creations
    BY <2>2, <2>4, IdleIs DEF Paired
  <2> QED
    BY <2>3, <2>4
<1> QED
  BY <1>1 DEF Orderly, Truthful

\* The effects of a page start their chains beside the old ones.
Joins(old, chs, new, at) ==
  /\ at \in [new -> Free(old, Cardinality(new))]
  /\ \A x, y \in new : at[x] = at[y] => x = y
  /\ chs = [c \in Chains |-> IF \E x \in new : at[x] = c
                             THEN CHOOSE x \in new : at[x] = c
                             ELSE old[c]]

LEMMA ArrivalAdds ==
  ASSUME NEW old, NEW chs, NEW new, NEW at, Joins(old, chs, new, at),
         \A x \in new : Fits(x) /\ x.here /\ x.got = <<>> /\ x.mate = 0
  PROVE  \E fresh : /\ Adds(old, chs, fresh)
                    /\ \A x \in new : \E c \in fresh : chs[c] = x
                    /\ \A c \in fresh : chs[c] \in new
                    /\ \A c, d \in fresh : chs[c] = chs[d] => c = d
<1>0. /\ at \in [new -> Free(old, Cardinality(new))]
      /\ \A x, y \in new : at[x] = at[y] => x = y
      /\ chs = [c \in Chains |-> IF \E x \in new : at[x] = c
                                 THEN CHOOSE x \in new : at[x] = c
                                 ELSE old[c]]
  BY DEF Joins
<1> DEFINE fresh == {at[x] : x \in new}
<1>1. \A x \in new : at[x] \in Chains /\ old[at[x]] = Idle
  BY <1>0, FreeIsIdle
<1>2. ASSUME NEW x \in new
      PROVE  chs[at[x]] = x
  <2>1. (CHOOSE y \in new : at[y] = at[x]) = x
    BY <1>0
  <2> QED
    BY <1>0, <1>1, <2>1
<1>3. DOMAIN chs = Chains /\ fresh \subseteq Chains
  BY <1>0, <1>1
<1>4. \A c \in Chains \ fresh : chs[c] = old[c]
  BY <1>0
<1>5. ASSUME NEW c \in fresh
      PROVE  /\ old[c] = Idle /\ chs[c] \in new
             /\ Fits(chs[c]) /\ chs[c].here /\ chs[c].got = <<>> /\ Paired(chs, c)
  <2>1. PICK x \in new : c = at[x]
    OBVIOUS
  <2>2. chs[c] = x /\ old[c] = Idle
    BY <1>1, <1>2, <2>1
  <2> QED
    BY <2>2 DEF Paired
<1>6. ASSUME NEW x \in new
      PROVE  \E c \in fresh : chs[c] = x
  <2>1. at[x] \in fresh
    OBVIOUS
  <2> QED
    BY <1>2, <2>1
<1>7. ASSUME NEW c \in fresh, NEW d \in fresh, chs[c] = chs[d]
      PROVE  c = d
  <2>1. PICK x \in new, y \in new : c = at[x] /\ d = at[y]
    OBVIOUS
  <2> QED
    BY <1>2, <1>7, <2>1
<1> HIDE DEF fresh
<1>8. Adds(old, chs, fresh)
  BY <1>3, <1>4, <1>5 DEF Adds
<1>9. (\A c \in fresh : chs[c] \in new) /\ (\A x \in new : \E c \in fresh : chs[c] = x)
  BY <1>5, <1>6
<1>10. \A c, d \in fresh : chs[c] = chs[d] => c = d
  BY <1>7
<1> QED
  BY ONLY <1>8, <1>9, <1>10

LEMMA NewFormCounted == Counted(NewForm)
<1>1. 0 \in Nat /\ 0 <= 0 + (IF None = "paid" THEN 1 ELSE 0)
  BY DEF None
<1> QED
  BY <1>1, FormIs DEF NewForm

\* A panel of the page that the route leads to is asked to show something else.
Moves(to, s) == to.page # route.page \/ (to.id # route.id /\ s = IdSlot(to.page))

\* Whoever arrives finds the chains, the panels and the waiting in order, if
\* they were in order for the chains and the button and form that are kept.
LEMMA ArriveKeeps ==
  ASSUME PagesInv, NEW to \in Routes \cup {Forbidden}, NEW running, NEW b, NEW f,
         Arrive(to, running, b, f), Orderly(running), Truthful(running, frozen),
         \A s \in Slots : Current(running, s, panel[s], asked[s] \cup left[s], acked),
         Waits(running, panel, b, f, stranded), Single(running, f), Counted(f)
  PROVE  PagesInv'
<1> DEFINE stays == to.page = route.page
           new   == (IF stays THEN {} ELSE MountEffects(to.page))
                    \cup (IF stays /\ to.id = route.id THEN {} ELSE IdEffects(to))
           of(s) == {x \in new : x.slot = s}
           about(s) == {Subject(x) : x \in {y \in new \cup IdEffects(to) : y.slot = s}}
           old   == IF stays THEN running ELSE [c \in Chains |-> Left(running[c])]
<1>1. /\ UNCHANGED role /\ route' = to
      /\ frozen' = (IF stays THEN frozen ELSE {})
      /\ mutation' = (IF stays THEN b ELSE None)
      /\ form' = (IF stays THEN f ELSE NewForm)
      /\ stranded' = (IF stays THEN {w \in stranded : w \in Slots => ~Moves(to, w)} ELSE {})
      /\ acked' = {} \/ (acked' = acked /\ ~Moves(to, "main"))
      /\ ~stays => acked' = {}
  BY DEF Arrive, Moves
<1>2. \E at : Joins(old, chain', new, at)
  <2>1. \E at \in [new -> Free(old, Cardinality(new))] :
          /\ \A x, y \in new : at[x] = at[y] => x = y
          /\ chain' = [c \in Chains |-> IF \E x \in new : at[x] = c
                                        THEN CHOOSE x \in new : at[x] = c ELSE old[c]]
    BY DEF Arrive
  <2> HIDE DEF new, old
  <2>2. PICK at : /\ at \in [new -> Free(old, Cardinality(new))]
                  /\ \A x, y \in new : at[x] = at[y] => x = y
                  /\ chain' = [c \in Chains |-> IF \E x \in new : at[x] = c
                                                THEN CHOOSE x \in new : at[x] = c ELSE old[c]]
    BY <2>1
  <2>3. Joins(old, chain', new, at)
    BY <2>2 DEF Joins
  <2> QED
    BY <2>3
<1>3. panel' = [s \in Slots |->
        CASE of(s) # {}                                      -> LoadingPanel
          [] of(s) = {} /\ ~Moves(to, s)                     -> panel[s]
          [] of(s) = {} /\ Moves(to, s) /\ to.id = Bad
               /\ s = IdSlot(to.page)                        -> ErrorPanel
          [] OTHER                                           -> IdlePanel]
  BY DEF Arrive, Moves
<1>4. asked' = [s \in Slots |-> IF Moves(to, s) \/ about(s) # {}
                                THEN about(s) \cup UnderWay(old, s) ELSE asked[s]]
  BY DEF Arrive, Moves
<1>5. left' = [s \in Slots |-> CASE Moves(to, s)                       -> {}
                                 [] ~Moves(to, s) /\ about(s) = {} -> left[s]
                                 [] OTHER                              -> ShownBy(panel[s])]
  BY DEF Arrive, Moves

<1>6. new \subseteq MountEffects(to.page) \cup IdEffects(to)
  OBVIOUS
<1>7. /\ \A x \in new : /\ Fits(x) /\ x.here /\ x.got = <<>> /\ x.mate = 0
                        /\ x.kind \notin Submits /\ x.slot \in Slots
                        /\ About(x.kind) = x.kind
      /\ \A x, y \in new : x.slot = y.slot => x = y
  BY <1>6, EffectsFit
<1>8. \A x \in new : Moves(to, x.slot)
  <2>1. CASE stays
    <3>1. ASSUME NEW x \in new
          PROVE  to.id # route.id /\ x.slot = IdSlot(to.page)
      <4>1. to.id # route.id /\ x \in IdEffects(to)
        BY <2>1, <3>1
      <4>2. PICK kind \in Kinds \ Bare : /\ x = Chain(kind, SlotOf(kind), to.id)
                                         /\ SlotOf(kind) = IdSlot(to.page)
        BY <4>1, IdEffectsAre DEF Kinds
      <4> QED
        BY <4>1, <4>2, ChainFits
    <3> QED
      BY <3>1 DEF Moves
  <2>2. CASE ~stays
    BY <2>2 DEF Moves
  <2> QED
    BY <2>1, <2>2
<1>9. Orderly(old) /\ Truthful(old, frozen') /\ (~stays => \A c \in Chains : ~old[c].here)
  BY <1>1, LeftFit
<1>10. stays => old = running
  OBVIOUS
<1>11. ~stays => \A s : Moves(to, s)
  BY DEF Moves
<1>12. \A s : /\ of(s) = {x \in new : x.slot = s}
              /\ \A x \in of(s) : Subject(x) \in about(s)
  OBVIOUS
<1> HIDE DEF new, of, old, about
<1>13. PICK fresh : /\ Adds(old, chain', fresh)
                    /\ \A x \in new : \E c \in fresh : chain'[c] = x
                    /\ \A c \in fresh : chain'[c] \in new
                    /\ \A c, d \in fresh : chain'[c] = chain'[d] => c = d
  <2>1. PICK at : Joins(old, chain', new, at)
    BY <1>2
  <2>2. \A x \in new : Fits(x) /\ x.here /\ x.got = <<>> /\ x.mate = 0
    BY <1>7
  <2> QED
    BY ONLY <2>1, <2>2, ArrivalAdds
<1>14. Orderly(chain') /\ Truthful(chain', frozen')
  BY <1>9, <1>13, AddsOrderly, AddsTruthful
<1>15. acked' \subseteq acked /\ acked' \subseteq frozen'
  BY <1>1 DEF PagesInv
<1>16. DOMAIN panel' = Slots
  BY <1>3
<1>17. ASSUME NEW s \in Slots
       PROVE  \/ panel'[s] = panel[s] /\ of(s) = {} /\ ~Moves(to, s)
              \/ panel'[s].status = "loading" /\ of(s) # {}
              \/ panel'[s].status \in {"idle", "error"} /\ of(s) = {} /\ Moves(to, s)
  BY <1>3 DEF LoadingPanel, ErrorPanel, IdlePanel
<1>18. \A s \in Slots : Whole(panel'[s], role) /\ Placed(s, panel'[s])
  <2> TAKE s \in Slots
  <2>1. panel'[s] = panel[s] \/ panel'[s].status \in {"loading", "idle", "error"}
    BY <1>17
  <2> QED
    BY <2>1 DEF Whole, Placed, PagesInv
<1>19. \A s \in Slots : Current(old, s, panel[s], asked[s] \cup left[s], acked) \/ ~stays
  BY <1>10
<1>20. ASSUME NEW s \in Slots, NEW w, NEW shows,
              w = asked[s] \cup left[s], shows = asked'[s] \cup left'[s]
       PROVE  Current(chain', s, panel'[s], shows, acked')
  <2>1. \A c \in fresh : chain'[c].slot = s => <<About(chain'[c].kind), chain'[c].id>> \in about(s)
    <3>1. \A c \in fresh : chain'[c].slot = s => chain'[c] \in of(s)
      BY <1>12, <1>13
    <3> QED
      BY <1>12, <3>1, SubjectsAre
  <2>2. CASE ~stays
    <3>1. Moves(to, s)
      BY <1>11, <2>2
    <3>2. \A c \in Chains : In(chain', c, s) => c \in fresh
      BY <1>9, <1>13, <2>2 DEF Adds, In
    <3>3. panel'[s].status # "ready" /\ about(s) \subseteq shows
      BY <1>4, <1>17, <1>20, <3>1
    <3>4. \A c \in Chains : In(chain', c, s) =>
            chain'[c].got = <<>> /\ <<About(chain'[c].kind), chain'[c].id>> \in shows
      BY <1>13, <2>1, <3>2, <3>3 DEF Adds, In
    <3> QED
      BY <3>3, <3>4 DEF Current
  <2>3. CASE stays
    <3>1. Current(old, s, panel[s], w, acked) /\ Adds(old, chain', fresh) /\ acked' \in SUBSET acked
      BY <1>13, <1>15, <1>20, <1>19, <2>3
    <3>2. CASE Moves(to, s) \/ about(s) # {}
      <4>1. about(s) \subseteq shows /\ UnderWay(old, s) \subseteq shows
        BY <1>4, <1>20, <3>2
      <4>2. panel'[s].status = "ready" => panel'[s] = panel[s] /\ panel'[s].of \in shows
        <5>1. CASE Moves(to, s)
          BY <1>8, <1>12, <1>17, <5>1
        <5>2. CASE ~Moves(to, s)
          <6>1. left'[s] = ShownBy(panel[s])
            BY <1>5, <3>2, <5>2
          <6>2. panel'[s].status = "ready" => panel'[s] = panel[s]
            BY <1>17
          <6> QED
            BY <1>20, <6>1, <6>2 DEF ShownBy
        <5> QED
          BY <5>1, <5>2
      <4>3. \A c \in fresh : chain'[c].slot = s => <<About(chain'[c].kind), chain'[c].id>> \in shows
        BY <2>1, <4>1
      <4> QED
        BY <3>1, <4>1, <4>2, <4>3, AddsAsked
    <3>3. CASE ~Moves(to, s) /\ about(s) = {}
      <4>1. shows = w
        BY <1>4, <1>5, <1>20, <3>3
      <4>2. panel'[s] = panel[s]
        BY <1>12, <1>17, <3>3
      <4>3. \A c \in fresh : chain'[c].slot # s
        BY <2>1, <3>3
      <4>4. UnderWay(old, s) \subseteq w
        <5>1. ASSUME NEW c \in Chains, old[c].here, old[c].slot = s
              PROVE  Subject(old[c]) \in w
          BY <3>1, <5>1, SubjectsAre DEF Current, In
        <5> QED
          BY <5>1 DEF UnderWay
      <4>5. panel[s].status = "ready" => panel[s].of \in w
        BY <3>1 DEF Current
      <4>6. /\ \A c \in fresh : chain'[c].slot = s => <<About(chain'[c].kind), chain'[c].id>> \in w
            /\ panel[s].status = "ready" => panel[s] = panel[s] /\ panel[s].of \in w
        BY <4>3, <4>5
      <4>7. Current(chain', s, panel[s], w, acked')
        BY ONLY <3>1, <4>4, <4>6, AddsAsked
      <4> QED
        BY <4>1, <4>2, <4>7
    <3> QED
      BY <3>2, <3>3
  <2> QED
    BY <2>2, <2>3
<1>21. Waits(chain', panel', mutation', form', stranded')
  <2>1. stays => Waits(old, panel, b, f, stranded)
    BY <1>10
  <2>2. ASSUME NEW s \in Slots \ stranded'
        PROVE  PanelWaits(chain', s, panel'[s])
    <3>1. CASE of(s) # {}
      <4>1. PICK x \in new : x.slot = s
        BY <1>12, <3>1
      <4>2. PICK c \in fresh : chain'[c] = x
        BY <1>13
      <4>3. c \in Chains
        BY <1>13 DEF Adds
      <4> QED
        BY <1>7, <4>1, <4>2, <4>3 DEF PanelWaits, In
    <3>2. CASE of(s) = {} /\ Moves(to, s)
      BY <1>17, <3>2 DEF PanelWaits
    <3>3. CASE of(s) = {} /\ ~Moves(to, s)
      <4>1. stays /\ panel'[s] = panel[s]
        BY <1>11, <1>17, <3>3
      <4>2. s \notin stranded
        BY <1>1, <2>2, <3>3, <4>1
      <4>3. PanelWaits(old, s, panel'[s])
        BY <2>1, <4>1, <4>2 DEF Waits
      <4> QED
        BY <1>13, <4>3, AddsWaits
    <3> QED
      BY <3>1, <3>2, <3>3
  <2>3. /\ "button" \in stranded' \/ ButtonWaits(chain', mutation')
        /\ "form" \in stranded' \/ FormWaits(chain', form')
    <3>1. CASE stays
      <4>1. \A part \in {"button", "form"} : part \in stranded => part \in stranded'
        BY <1>1, <3>1 DEF Slots
      <4> QED
        BY <1>1, <1>13, <2>1, <3>1, <4>1, AddsWaits DEF Waits
    <3>2. CASE ~stays
      BY <1>1, <3>2 DEF ButtonWaits, FormWaits, NewForm
    <3> QED
      BY <3>1, <3>2
  <2> QED
    BY <2>2, <2>3 DEF Waits
<1>22. Single(chain', form')
  <2>1. \A c \in fresh : chain'[c].kind # "create transfer"
    <3>1. \A c \in fresh : Fits(chain'[c]) /\ chain'[c].here /\ chain'[c].slot \in Slots
      BY <1>7, <1>13
    <3>2. SlotOf("create transfer") \notin Slots
      BY SlotsOf DEF Plain
    <3> QED
      BY <3>1, <3>2 DEF Fits
  <2>2. Single(old, form')
    <3>1. CASE stays
      BY <1>1, <1>10, <3>1
    <3>2. CASE ~stays
      BY <1>9, <3>2 DEF Single, Sends
    <3> QED
      BY <3>1, <3>2
  <2>3. Adds(old, chain', fresh)
    BY <1>13
  <2> HIDE DEF old, new, stays
  <2> QED
    BY <2>1, <2>2, <2>3, AddsSingle
<1>23. Counted(form')
  <2>1. Counted(NewForm)
    BY NewFormCounted
  <2> QED
    BY <1>1, <2>1
<1> QED
  BY <1>1, <1>14, <1>15, <1>16, <1>18, <1>20, <1>21, <1>23, <1>22 DEF PagesInv


LEMMA RoutesAre ==
  /\ \A to \in Routes : Admitted(to) \in Routes \cup {Forbidden}
  /\ \A page \in WithId, id \in Ids : [page |-> page, id |-> id] \in Routes
  /\ \A id \in Ids :
       route \in Routes \cup {Forbidden} /\ route.page \in {"transfers", "accounts", "ledger"} =>
         [route EXCEPT !.id = id] \in Routes
<1>1. \A to \in Routes : Admitted(to) \in Routes \cup {Forbidden}
  BY DEF Admitted
<1>2. \A page \in WithId, id \in Ids : [page |-> page, id |-> id] \in Routes
  BY DEF Routes
<1>3. ASSUME NEW id \in Ids, route \in Routes \cup {Forbidden},
             route.page \in {"transfers", "accounts", "ledger"}
      PROVE  [route EXCEPT !.id = id] \in Routes
  <2>1. route \in [page : WithId, id : Ids \cup {None, Bad}]
    BY <1>3 DEF Routes, Forbidden, WithId, WithoutId
  <2> QED
    BY <2>1 DEF Routes
<1> QED
  BY <1>1, <1>2, <1>3

LEMMA VisitKeeps ==
  ASSUME NEW to \in Routes, Visit(to), PagesInv
  PROVE  PagesInv'
<1>1. Admitted(to) \in Routes \cup {Forbidden}
  BY RoutesAre
<1> QED
  BY <1>1, ArriveKeeps DEF Visit, PagesInv

LEMMA LookUpKeeps ==
  ASSUME NEW id \in Ids, LookUp(id), PagesInv
  PROVE  PagesInv'
<1>1. [route EXCEPT !.id = id] \in Routes \cup {Forbidden}
  BY RoutesAre DEF LookUp, PagesInv
<1>2. Waits(chain, panel, None, form, stranded)
  BY DEF PagesInv, Waits, ButtonWaits
<1> QED
  BY <1>1, <1>2, ArriveKeeps DEF LookUp, PagesInv

LEMMA CreatedKeeps ==
  ASSUME NEW c \in Chains, NEW id \in Ids, PagesInv,
         TransferCreated(c, id) \/ AccountCreated(c, id) \/ LeftCreated(c, id)
  PROVE  PagesInv'
<1>1. PICK running : running = [chain EXCEPT ![c] = Idle]
  OBVIOUS
<1>2. chain[c].kind \in {"create transfer", "create account"}
  BY DEF TransferCreated, AccountCreated, LeftCreated, Hears, Creations
<1>3. chain[c] # Idle /\ chain[c].kind \in Submits \cup Plain
  BY <1>2, IdleIs DEF Plain, None
<1>4. /\ Orderly(running) /\ Truthful(running, frozen)
      /\ \A s \in Slots : Current(running, s, panel[s], asked[s] \cup left[s], acked)
      /\ \A s \in Slots \ stranded : PanelWaits(running, s, panel[s])
      /\ ~chain[c].here => "button" \in stranded \/ ButtonWaits(running, mutation)
      /\ ~Sends(chain, c) => "form" \in stranded \/ FormWaits(running, form)
      /\ Single(running, form) /\ (Sends(chain, c) => \A f : Single(running, f))
  BY <1>1, <1>3, DropRuns
<1>5. Counted(NewForm) /\ FormWaits(running, NewForm) /\ ButtonWaits(running, None)
  BY NewFormCounted DEF NewForm, FormWaits, ButtonWaits
<1>6. [page |-> "transfers", id |-> id] \in Routes /\ [page |-> "accounts", id |-> id] \in Routes
  BY RoutesAre DEF WithId
<1>7. CASE TransferCreated(c, id)
  <2>1. Waits(running, panel, None, NewForm, stranded) /\ Single(running, NewForm)
    BY <1>4, <1>5, <1>7 DEF Waits, Sends, TransferCreated, Hears
  <2> QED
    BY <1>1, <1>4, <1>5, <1>6, <1>7, <2>1, ArriveKeeps DEF TransferCreated
<1>8. CASE AccountCreated(c, id)
  <2>1. Waits(running, panel, None, form, stranded)
    BY <1>4, <1>5, <1>8 DEF Waits, AccountCreated, Hears, Sends
  <2> QED
    BY <1>1, <1>4, <1>6, <1>8, <2>1, ArriveKeeps DEF AccountCreated, PagesInv
<1>9. CASE LeftCreated(c, id)
  <2>1. Waits(running, panel, mutation, form, stranded)
    BY <1>4, <1>9 DEF Waits, LeftCreated, Sends
  <2>2. PICK to \in Routes : Arrive(to, running, mutation, form)
    BY <1>1, <1>6, <1>9 DEF LeftCreated
  <2> QED
    BY <1>4, <2>1, <2>2, ArriveKeeps DEF PagesInv
<1> QED
  BY <1>7, <1>8, <1>9


-----------------------------------------------------------------------------
(* The inductive invariant                                                 *)

LEMMA PagesStart ==
  ASSUME PagesInit
  PROVE  PagesInv
<1>1. \A c \in Chains : chain[c] = Idle
  BY DEF PagesInit
<1>2. Orderly(chain) /\ Truthful(chain, frozen)
  BY <1>1, IdleIs DEF PagesInit, Orderly, Paired, Truthful
<1>3. DOMAIN panel = Slots /\ \A s \in Slots : panel[s].status = "idle"
  BY DEF PagesInit, IdlePanel
<1>4. \A s \in Slots : Whole(panel[s], role) /\ Placed(s, panel[s])
  BY <1>3 DEF Whole, Placed
<1>5. \A s \in Slots : Current(chain, s, panel[s], asked[s] \cup left[s], acked)
  BY <1>1, <1>3, IdleIs DEF Current, In
<1>6. Waits(chain, panel, mutation, form, stranded)
  BY <1>3 DEF PagesInit, Waits, PanelWaits, ButtonWaits, FormWaits, NewForm
<1>7. Counted(form)
  BY NewFormCounted DEF PagesInit
<1>9. Single(chain, form)
  BY <1>1, IdleIs DEF Single, Sends
<1>8. route \in Routes \cup {Forbidden} /\ acked \subseteq frozen
  BY DEF PagesInit
<1> QED
  BY <1>2, <1>3, <1>4, <1>5, <1>6, <1>7, <1>8, <1>9 DEF PagesInv

LEMMA HearKeeps ==
  ASSUME NEW c \in Chains, Hear(c), PagesInv
  PROVE  PagesInv'
<1>1. CASE TransferLoaded(c)
  BY <1>1, TransferLoadedKeeps
<1>2. CASE Copied(c) \/ TransferRefused(c) \/ AccountRefused(c) \/ LeftFailed(c)
  BY <1>2, DropsKeep
<1>3. CASE AccountServed(c)
  BY <1>3, AccountServedKeeps
<1>4. CASE AccountNotFound(c) \/ AccountFound(c)
  BY <1>4, AccountFoundKeeps
<1>5. ASSUME NEW b \in Submits, ControlDone(c, b) \/ ControlFailed(c, b)
      PROVE  PagesInv'
  BY <1>5, ControlDoneKeeps, DropsKeep
<1>6. CASE EntriesFound(c)
  BY <1>6, EntriesFoundKeeps
<1>7. CASE StatsFound(c)
  BY <1>7, StatsFoundKeeps
<1>8. CASE TransferEntriesFound(c)
  BY <1>8, TransferEntriesFoundKeeps
<1>9. CASE AlertsFound(c) \/ AlertFound(c) \/ NotificationsFound(c)
  BY <1>9, ListsFoundKeep
<1>10. CASE OverviewFound(c)
  BY <1>10, OverviewFoundKeeps
<1>11. CASE OverviewStatsFound(c)
  BY <1>11, OverviewStatsFoundKeeps
<1>12. CASE HealthFound(c)
  BY <1>12, HealthFoundKeeps
<1>13. ASSUME NEW id \in Ids, TransferCreated(c, id) \/ AccountCreated(c, id) \/ LeftCreated(c, id)
       PROVE  PagesInv'
  BY <1>13, CreatedKeeps
<1>14. CASE Rejected(c)
  BY <1>14, RejectedKeeps
<1> QED
  BY <1>1, <1>2, <1>3, <1>4, <1>5, <1>6, <1>7, <1>8, <1>9, <1>10, <1>11, <1>12, <1>13, <1>14
     DEF Hear, Submits

LEMMA PagesStep ==
  ASSUME PagesInv, [PagesNext]_pageVars
  PROVE  PagesInv'
<1>1. ASSUME NEW to \in Routes, Visit(to)
      PROVE  PagesInv'
  BY <1>1, VisitKeeps
<1>2. ASSUME NEW id \in Ids, LookUp(id)
      PROVE  PagesInv'
  BY <1>2, LookUpKeeps
<1>3. ASSUME NEW f, UpdateFilter(f)
      PROVE  PagesInv'
  BY <1>3, UpdateFilterKeeps
<1>4. ASSUME NEW c \in Chains, Launchers(c)
      PROVE  PagesInv'
  BY <1>4, LaunchersKeep
<1>5. ASSUME NEW c \in Chains, FreezeServed(c)
      PROVE  PagesInv'
  BY <1>5, FreezeServedKeeps
<1>6. ASSUME NEW c \in Chains, Hear(c)
      PROVE  PagesInv'
  BY <1>6, HearKeeps
<1>7. CASE UNCHANGED pageVars
  BY <1>7 DEF pageVars, history, PagesInv
<1>8. PagesNext => \/ \E to \in Routes : Visit(to)
                   \/ \E id \in Ids : LookUp(id)
                   \/ \E f : UpdateFilter(f)
                   \/ \E c \in Chains : Launchers(c) \/ FreezeServed(c) \/ Hear(c)
  BY DEF PagesNext, Launchers, Submits
<1> QED
  BY <1>1, <1>2, <1>3, <1>4, <1>5, <1>6, <1>7, <1>8

\* In every state, each chain under way is for a panel and a record, what it
\* has heard is of that record, and two chains that free one button know each
\* other; each panel shows one record, of those asked for; one chain at most
\* sends the form; and whoever waits, waits for a chain.
THEOREM PagesAlwaysOrderly == PagesSpec => []PagesInv
<1>1. PagesInit => PagesInv
  BY PagesStart
<1>2. PagesInv /\ [PagesNext]_pageVars => PagesInv'
  BY PagesStep
<1> QED
  BY <1>1, <1>2, PTL DEF PagesSpec

-----------------------------------------------------------------------------
(* What it promises                                                        *)

LEMMA ReadyHealth ==
  ASSUME NEW a \in HealthReports, NEW health, health = GatewayHealth(a),
         \A state \in {"degraded", "unreachable", "unknown"} : InState(health, state) = {}
  PROVE  \A s \in Services : health.services[s] = "ok"
<1>1. \A state \in {"degraded", "unreachable", "unknown"} :
        ServiceState(health, "api-gateway") # state
  BY DEF InState
<1>2. ServiceState(health, "api-gateway") =
        IF health.status = "unavailable" THEN "unreachable" ELSE health.status
  BY DEF ServiceState
<1>3. health.status \notin {"unavailable", "degraded"}
  BY <1>1, <1>2
<1> QED
  BY <1>3 DEF GatewayHealth

LEMMA PanelsWhole ==
  ASSUME PagesInv
  PROVE  PanelsAreWhole
<1>1. PICK p : p = panel["main"]
  OBVIOUS
<1>2. p.status = "ready" => Agree(p.of[1], p.of[2], p.first, p.second, role)
  BY <1>1 DEF PagesInv, Whole, Slots
<1>3. Shows("main", "account") =>
        panel.main.first.of = Shown("main") /\ BalanceShown = Shown("main")
  BY <1>1, <1>2 DEF Shows, Shown, BalanceShown, Agree
<1>4. LedgerPanel => panel.main.first = Shown("main") /\ TotalsShown \in {Shown("main"), None}
  BY <1>1, <1>2 DEF LedgerPanel, Shows, Shown, TotalsShown, Agree
<1>5. Shows("main", "overview") /\ StatsShown # None =>
        role = "admin" /\ StatsShown = panel.main.first
  BY <1>1, <1>2 DEF Shows, StatsShown, Agree
<1>6. PlatformReady => \A s \in Services : panel.main.first.services[s] = "ok"
  <2> SUFFICES ASSUME PlatformReady
               PROVE  \A s \in Services : p.first.services[s] = "ok"
    BY <1>1
  <2>1. PICK a \in HealthReports : p.first = GatewayHealth(a)
    BY <1>1, <1>2 DEF PlatformReady, Shows, Agree
  <2>2. \A state \in {"degraded", "unreachable", "unknown"} : InState(p.first, state) = {}
    BY <1>1 DEF PlatformReady
  <2> QED
    BY <2>1, <2>2, ReadyHealth
<1> QED
  BY <1>3, <1>4, <1>5, <1>6 DEF PanelsAreWhole

\* What a page shows together is of one record, though it comes from several
\* answers of lib/api, and the readiness gate of the health page opens only
\* if every service has said "ok".
THEOREM PanelsAlwaysWhole == PagesSpec => []PanelsAreWhole
<1>1. PagesInv => PanelsAreWhole
  BY PanelsWhole
<1> QED
  BY <1>1, PagesAlwaysOrderly, PTL

LEMMA PanelsCurrent ==
  ASSUME PagesInv
  PROVE  PanelsFollowTheUser
<1> SUFFICES ASSUME NEW s \in Slots, panel[s].status = "ready"
             PROVE  /\ panel[s].of \in asked[s] \cup left[s]
                    /\ Shows(s, "account") /\ Shown(s) \in acked => panel[s].first.suspended
  BY DEF PanelsFollowTheUser
<1>1. Current(chain, s, panel[s], asked[s] \cup left[s], acked)
  BY DEF PagesInv
<1> QED
  BY <1>1 DEF Current, Shows, Shown

\* A panel shows what the user last asked for, what was under way for it at that
\* time, or, if the user asked for what the address already names and nothing is
\* loaded, what it showed before; and an account as suspended that the page was
\* told is frozen, unless an older answer was under way when it was told.
THEOREM PanelsAlwaysFollowTheUser == PagesSpec => []PanelsFollowTheUser
<1>1. PagesInv => PanelsFollowTheUser
  BY PanelsCurrent
<1> QED
  BY <1>1, PagesAlwaysOrderly, PTL

LEMMA FormsPaid ==
  ASSUME PagesInv
  PROVE  RetriesPayOnce
<1>1. \A f \in {form} \cup Creates(form) : f.paid <= 1 + f.unkept
  BY CreatesCounted DEF PagesInv
<1>2. \A c, d \in Chains :
        Hears(c, "create transfer") /\ Hears(d, "create transfer") => c = d /\ form.submitting
  BY DEF PagesInv, Single, Sends, Hears
<1> QED
  BY <1>1, <1>2 DEF RetriesPayOnce

\* The idempotency key that submitTransfer keeps for its form makes retries
\* after failures and lost answers pay once, and once more for each execution
\* of which the gateway kept no answer; and submittingRef lets one handler at a
\* time send the form.
THEOREM FormsPayOnce == PagesSpec => []RetriesPayOnce
<1>1. PagesInv => RetriesPayOnce
  BY FormsPaid
<1> QED
  BY <1>1, PagesAlwaysOrderly, PTL

LEMMA WaitersServed ==
  ASSUME PagesInv
  PROVE  NobodyWaitsInVain
<1>1. Waits(chain, panel, mutation, form, stranded)
  BY DEF PagesInv
<1>2. \A s \in Slots \ stranded : panel[s].status = "loading" =>
        \E c \in Chains : chain[c].here /\ chain[c].slot = s
                          /\ chain[c].kind \notin {"kyc", "freeze"}
  BY <1>1 DEF Waits, PanelWaits, In, Submits
<1>3. "button" \notin stranded /\ mutation # None =>
        \E c \in Chains : /\ chain[c].here
                          /\ \/ chain[c].kind \in Writes \cup {"copy"}
                             \/ chain[c].after # None
  BY <1>1 DEF Waits, ButtonWaits
<1>4. "form" \notin stranded /\ form.submitting => \E c \in Chains : Hears(c, "create transfer")
  BY <1>1 DEF Waits, FormWaits, Hears
<1> QED
  BY <1>2, <1>3, <1>4 DEF NobodyWaitsInVain

\* Unless a chain that was to end this very waiting was rejected, a panel that is
\* loading, a busy button and a form that is being sent wait for a chain that
\* ends it.
THEOREM NobodyEverWaitsInVain == PagesSpec => []NobodyWaitsInVain
<1>1. PagesInv => NobodyWaitsInVain
  BY WaitersServed
<1> QED
  BY <1>1, PagesAlwaysOrderly, PTL
=============================================================================
