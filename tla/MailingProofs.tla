--------------------------- MODULE MailingProofs ---------------------------
(***************************************************************************)
(* csv2givemail of Mailing, proved for any rows, configurations, number of *)
(* units and signals: what its units read outlives them, no more of them   *)
(* run than configured and lost to signals, and each recipient of a row is *)
(* emailed once.                                                           *)
(***************************************************************************)
EXTENDS Mailing, TLAPS, FiniteSetTheorems, SequenceTheorems

Names == Domains \cup {NoDomain}

UnitType == [recipients : SUBSET Recipients, at : {"list", "loop", "send", "ended"},
             left : SUBSET Names, domain : Names, quit : BOOLEAN, skipped : SUBSET Names,
             times : [Recipients -> Nat]]

TypeInv ==
  /\ conf \in Configurations
  /\ pc \in {"read", "create", "join", "last", "ended"}
  /\ recipients \subseteq Recipients
  /\ success \in BOOLEAN /\ quit \in BOOLEAN
  /\ signals \in Nat /\ complete \in Nat
  /\ units \in Seq(UnitType)

\* The arguments that are kept are those of the units that are remembered; join()
\* waits for such units.
Remembered == args = ids /\ ids \subseteq DOMAIN units /\ waiting \subseteq ids

\* There is room for one more unit before it is created.
Room ==
  /\ Cardinality(ids) <= (IF MaxSlaves = 0 THEN 1 ELSE MaxSlaves)
  /\ pc = "create" => ids = {} \/ Cardinality(ids) < MaxSlaves

\* A unit that works is remembered, and waited for by join().
WaitedFor ==
  conf.threaded \/ signals = 0 =>
    /\ Working \subseteq ids
    /\ pc \in {"join", "last"} => Working \subseteq waiting
    /\ pc = "ended" => Working = {}

\* The units that work although the parent does not remember them, or will not
\* wait for them any more: each was lost to a signal.
Awaited == IF pc \in {"join", "last"} THEN waiting ELSE ids
Forgotten == Working \ Awaited
FewForgotten == Cardinality(Forgotten) <= (IF conf.threaded THEN 0 ELSE signals)

\* Every complete row has a unit, but the row that is about to get one.
RowsHaveUnits ==
  success => complete = Len(units) + (IF pc \in {"join", "create"} THEN 1 ELSE 0)

\* Nobody quits without a signal.
NobodyQuits == signals = 0 => ~quit /\ \A u \in DOMAIN units : ~units[u].quit

\* What listDomains(), getRecipients() and RouteOf say of a configuration.
Listed(c, S) ==
  IF c.relay = NoDomain THEN {DomainOf[r] : r \in S}
  ELSE (IF {r \in S : DomainOf[r] = c.internal} = {} THEN {} ELSE {c.internal})
         \cup ({c.relay} \ {c.internal})
Got(c, S, d) ==
  {r \in S : /\ DomainOf[r] # NoDomain
             /\ \/ DomainOf[r] = d
                \/ /\ c.internal # NoDomain /\ c.relay = d
                   /\ c.internal # DomainOf[r] \/ c.relay = c.internal}
Route(c, r) ==
  IF c.relay # NoDomain /\ DomainOf[r] # c.internal THEN c.relay ELSE DomainOf[r]

\* A unit x has emailed a recipient at most once, and one it has emailed is not
\* on a domain it still has to serve.
AtMostOnce(c, x) ==
  /\ x.left \subseteq Listed(c, x.recipients)
  /\ x.at = "ended" => x.left = {}
  /\ x.at = "send" => /\ x.domain \in Listed(c, x.recipients)
                      /\ x.domain # NoDomain /\ x.domain \notin x.left
  /\ \A r \in Recipients :
       /\ x.times[r] \in {0, 1}
       /\ x.times[r] = 1 =>
            /\ x.at # "list" /\ r \in x.recipients
            /\ \A d \in x.left : d = NoDomain \/ r \notin Got(c, x.recipients, d)
            /\ x.at = "send" => r \notin Got(c, x.recipients, x.domain)

\* And every recipient was, or has still to be, or is not because what serves it
\* was skipped.
Covered(c, x) ==
  x.at # "list" =>
    \A r \in x.recipients :
      \/ DomainOf[r] = NoDomain
      \/ x.times[r] = 1
      \/ Route(c, r) \in x.left \cup x.skipped
      \/ x.at = "send" /\ x.domain = Route(c, r)

EmailsOnce == \A u \in DOMAIN units : AtMostOnce(conf, units[u])
EmailsAll  == signals = 0 => \A u \in DOMAIN units : Covered(conf, units[u])

\* A relay has an internal domain beside it, which is another one.
RelayBesideInternal ==
  \A c \in Configurations :
    c.relay # NoDomain => c.internal # NoDomain /\ c.internal # c.relay

IInv == /\ TypeInv /\ Remembered /\ Room /\ WaitedFor /\ FewForgotten /\ RowsHaveUnits
        /\ NobodyQuits
        /\ EmailsOnce
        /\ RelayBesideInternal => EmailsAll
----------------------------------------------------------------------------
\* The operators of Mailing in terms of the configuration.
LEMMA BreakdownDomain ==
  ASSUME NEW S
  PROVE  DOMAIN Breakdown(S) = Listed(conf, S)
BY DEF Breakdown, Listed, OnDomain

LEMMA GetRecipientsGot ==
  ASSUME NEW S, NEW d
  PROVE  GetRecipients(S, d) = Got(conf, S, d)
BY DEF GetRecipients, Got

LEMMA RouteOfRoute ==
  ASSUME NEW r
  PROVE  RouteOf(r) = Route(conf, r)
BY DEF RouteOf, Route

\* What is listed is a set of names.
LEMMA ListedNames ==
  ASSUME NEW c \in Configurations, NEW S \in SUBSET Recipients
  PROVE  Listed(c, S) \in SUBSET Names
BY MailingAssumption DEF Listed, Names

\* No two names that are served give the same recipient.
LEMMA GotByOne ==
  ASSUME NEW c \in Configurations, NEW S \in SUBSET Recipients,
         NEW d \in Listed(c, S), d # NoDomain, NEW e \in Listed(c, S), e # NoDomain,
         NEW r, r \in Got(c, S, d), r \in Got(c, S, e)
  PROVE  d = e
BY DEF Listed, Got

\* What serves a recipient is listed, and gives it.
LEMMA RouteServes ==
  ASSUME RelayBesideInternal, NEW c \in Configurations, NEW S \in SUBSET Recipients,
         NEW r \in S, DomainOf[r] # NoDomain
  PROVE  /\ Route(c, r) \in Listed(c, S) /\ Route(c, r) # NoDomain
         /\ r \in Got(c, S, Route(c, r))
BY DEF RelayBesideInternal, Route, Listed, Got
----------------------------------------------------------------------------
\* The steps of a unit, from x to y.
Lists(c, x, y) ==
  /\ x.at = "list" /\ y.at = "loop" /\ y.left = Listed(c, x.recipients)
  /\ y.times = x.times /\ y.skipped = x.skipped
Takes(x, y) ==
  /\ x.at = "loop" /\ y.times = x.times
  /\ \E d \in x.left :
       /\ y.left = x.left \ {d}
       /\ \/ y.at = "send" /\ y.domain = d /\ d # NoDomain /\ y.skipped = x.skipped
          \/ y.at = "loop" /\ y.skipped = x.skipped \cup {d}
Sends(c, x, y) ==
  /\ x.at = "send" /\ y.at = "loop" /\ y.left = x.left /\ x.skipped \subseteq y.skipped
  /\ y.times = [r \in Recipients |->
                  IF r \in Got(c, x.recipients, x.domain) THEN x.times[r] + 1 ELSE x.times[r]]
Ends(x, y) ==
  /\ x.at = "loop" /\ y.at = "ended" /\ y.left = {}
  /\ y.times = x.times /\ y.skipped = x.skipped

Turned(c, x, y) ==
  /\ y.recipients = x.recipients /\ y.quit = x.quit
  /\ Lists(c, x, y) \/ Takes(x, y) \/ Sends(c, x, y) \/ Ends(x, y)

LEMMA OnceTurned ==
  ASSUME NEW c \in Configurations, NEW x \in UnitType, NEW y \in UnitType,
         AtMostOnce(c, x), Turned(c, x, y)
  PROVE  AtMostOnce(c, y)
<1>1. /\ y.recipients = x.recipients /\ x.recipients \in SUBSET Recipients
      /\ x.times \in [Recipients -> Nat]
  BY DEF Turned, UnitType
<1>2. CASE Lists(c, x, y)
  BY <1>1, <1>2 DEF AtMostOnce, Lists
<1>3. CASE Takes(x, y)
  <2>1. PICK d \in x.left :
          /\ y.left = x.left \ {d}
          /\ \/ y.at = "send" /\ y.domain = d /\ d # NoDomain
             \/ y.at = "loop"
    BY <1>3, Zenon DEF Takes
  <2>2. x.at = "loop" /\ y.times = x.times
    BY <1>3 DEF Takes
  <2> QED
    BY <1>1, <2>1, <2>2 DEF AtMostOnce
<1>4. CASE Sends(c, x, y)
  <2>1. /\ x.at = "send" /\ y.at = "loop" /\ y.left = x.left
        /\ \A r \in Recipients :
             y.times[r] = IF r \in Got(c, x.recipients, x.domain) THEN x.times[r] + 1
                          ELSE x.times[r]
    BY <1>4 DEF Sends
  <2>2. \A r \in Recipients :
          r \in Got(c, x.recipients, x.domain) => r \in x.recipients /\ x.times[r] = 0
    BY <1>1, <2>1 DEF AtMostOnce, Got
  <2>3. \A r \in Recipients : \A d \in x.left :
          r \in Got(c, x.recipients, x.domain) => d = NoDomain \/ r \notin Got(c, x.recipients, d)
    BY <1>1, <2>1, GotByOne DEF AtMostOnce
  <2> QED
    BY <1>1, <2>1, <2>2, <2>3 DEF AtMostOnce
<1>5. CASE Ends(x, y)
  BY <1>1, <1>5 DEF AtMostOnce, Ends
<1> QED
  BY <1>2, <1>3, <1>4, <1>5 DEF Turned

LEMMA CoveredTurned ==
  ASSUME RelayBesideInternal,
         NEW c \in Configurations, NEW x \in UnitType, NEW y \in UnitType,
         AtMostOnce(c, x), Covered(c, x), Turned(c, x, y), Ends(x, y) => x.left = {}
  PROVE  Covered(c, y)
<1>1. /\ y.recipients = x.recipients /\ x.recipients \in SUBSET Recipients
      /\ x.times \in [Recipients -> Nat]
  BY DEF Turned, UnitType
<1>2. CASE Lists(c, x, y)
  BY <1>1, <1>2, RouteServes DEF Covered, Lists
<1>3. CASE Takes(x, y)
  BY <1>1, <1>3 DEF Covered, Takes
<1>4. CASE Sends(c, x, y)
  <2>1. /\ x.at = "send" /\ y.at = "loop" /\ y.left = x.left /\ x.skipped \subseteq y.skipped
        /\ \A r \in Recipients :
             y.times[r] = IF r \in Got(c, x.recipients, x.domain) THEN x.times[r] + 1
                          ELSE x.times[r]
    BY <1>4 DEF Sends
  <2>2. \A r \in x.recipients : r \in Recipients /\ x.times[r] \in {0, 1}
    BY <1>1 DEF AtMostOnce
  <2>3. \A r \in x.recipients :
          r \in Got(c, x.recipients, x.domain) => x.times[r] = 0
    BY <2>1, <2>2 DEF AtMostOnce
  <2>4. \A r \in x.recipients : DomainOf[r] # NoDomain /\ x.domain = Route(c, r) =>
          r \in Got(c, x.recipients, x.domain)
    BY <1>1, RouteServes
  <2> QED
    BY <1>1, <2>1, <2>2, <2>3, <2>4 DEF Covered
<1>5. CASE Ends(x, y)
  BY <1>1, <1>5 DEF Covered, Ends
<1> QED
  BY <1>2, <1>3, <1>4, <1>5 DEF Turned

\* One unit is changed.
LEMMA UnitChanged ==
  ASSUME NEW s \in Seq(UnitType), NEW u \in DOMAIN s, NEW y \in UnitType,
         NEW t, t = [s EXCEPT ![u] = y]
  PROVE  /\ t \in Seq(UnitType) /\ DOMAIN t = DOMAIN s /\ Len(t) = Len(s)
         /\ t[u] = y /\ \A v \in DOMAIN s : v # u => t[v] = s[v]
<1>1. DOMAIN s = 1..Len(s) /\ Len(s) \in Nat
  BY LenProperties
<1>2. t \in Seq(UnitType) /\ Len(t) = Len(s)
      /\ \A v \in 1..Len(s) : t[v] = IF v = u THEN y ELSE s[v]
  BY <1>1, ExceptSeq
<1>3. DOMAIN t = 1..Len(s)
  BY <1>2, LenProperties
<1> QED
  BY <1>1, <1>2, <1>3

LEMMA UnitFacts ==
  ASSUME TypeInv, NEW u \in DOMAIN units, Unit(u)
  PROVE  \E y \in UnitType :
           /\ units' = [units EXCEPT ![u] = y]
           /\ Turned(conf, units[u], y)
           /\ Ends(units[u], y) => units[u].left = {} \/ MustQuit(u)
<1> DEFINE x == units[u]
<1>1. x \in UnitType /\ conf \in Configurations
  BY ElementOfSeq, LenProperties DEF TypeInv
<1>2. CASE List(u)
  <2> DEFINE y == [x EXCEPT !.at = "loop", !.left = Listed(conf, x.recipients)]
  <2>1. units' = [units EXCEPT ![u] = y]
    BY <1>2, BreakdownDomain DEF List
  <2>2. y \in UnitType /\ Turned(conf, x, y) /\ y.at = "loop" /\ x.at = "list"
    BY <1>1, <1>2, ListedNames DEF List, UnitType, Turned, Lists
  <2> QED
    BY <2>1, <2>2 DEF Ends
<1>3. CASE NextDomain(u)
  <2>1. PICK d \in x.left, found \in BOOLEAN :
          /\ found => d # NoDomain
          /\ units' = [units EXCEPT
               ![u].left = @ \ {d},
               ![u].domain = IF found THEN d ELSE NoDomain,
               ![u].at = IF found THEN "send" ELSE "loop",
               ![u].skipped = IF found THEN @ ELSE @ \cup {d}]
    BY <1>3, Zenon DEF NextDomain
  <2> DEFINE y == [x EXCEPT !.left = x.left \ {d},
                            !.domain = IF found THEN d ELSE NoDomain,
                            !.at = IF found THEN "send" ELSE "loop",
                            !.skipped = IF found THEN x.skipped ELSE x.skipped \cup {d}]
  <2>2. units' = [units EXCEPT ![u] = y]
    BY <2>1
  <2>3. d \in Names /\ x.at = "loop"
    BY <1>1, <1>3 DEF UnitType, NextDomain
  <2>4. y \in UnitType
    BY <1>1, <2>3 DEF UnitType, Names
  <2>5. Turned(conf, x, y) /\ y.at # "ended"
    BY <1>1, <2>1, <2>3 DEF UnitType, Turned, Takes
  <2> QED
    BY <2>2, <2>4, <2>5 DEF Ends
<1>4. CASE Send(u)
  <2> DEFINE S == Got(conf, x.recipients, x.domain)
             y == [x EXCEPT !.at = "loop", !.domain = NoDomain,
                            !.skipped = IF S = {} THEN x.skipped \cup {x.domain} ELSE x.skipped,
                            !.times = [r \in Recipients |-> IF r \in S THEN x.times[r] + 1
                                                            ELSE x.times[r]]]
  <2>1. units' = [units EXCEPT ![u] = y]
    BY <1>4, GetRecipientsGot DEF Send
  <2>4. \A T : [r \in Recipients |-> IF r \in T THEN x.times[r] + 1 ELSE x.times[r]]
                \in [Recipients -> Nat]
    BY <1>1 DEF UnitType
  <2>5. /\ y.times \in [Recipients -> Nat] /\ y.skipped \in SUBSET Names /\ NoDomain \in Names
        /\ x.at = "send"
    BY <1>1, <1>4, <2>4 DEF UnitType, Send, Names
  <2>2. y \in UnitType /\ x.at = "send"
    BY <1>1, <2>5 DEF UnitType
  <2>3. Turned(conf, x, y) /\ y.at # "ended"
    BY <1>1, <2>2 DEF UnitType, Turned, Sends
  <2> QED
    BY <2>1, <2>2, <2>3 DEF Ends
<1>5. CASE EndUnit(u)
  <2> DEFINE y == [x EXCEPT !.at = "ended", !.left = {}]
  <2>1. units' = [units EXCEPT ![u] = y] /\ x.at = "loop" /\ (x.left = {} \/ MustQuit(u))
    BY <1>5 DEF EndUnit, LoopIsOver
  <2>2. y \in UnitType /\ Turned(conf, x, y)
    BY <1>1, <2>1 DEF UnitType, Turned, Ends
  <2> QED
    BY <2>1, <2>2
<1> QED
  BY <1>2, <1>3, <1>4, <1>5 DEF Unit
----------------------------------------------------------------------------
Safe == Remembered /\ Room /\ WaitedFor /\ FewForgotten /\ RowsHaveUnits /\ NobodyQuits

LEMMA IdsFinite ==
  ASSUME TypeInv, Remembered
  PROVE  /\ IsFiniteSet(ids) /\ Cardinality(ids) \in Nat
         /\ DOMAIN units = 1..Len(units) /\ Len(units) \in Nat /\ Len(units) + 1 \notin ids
<1>1. DOMAIN units = 1..Len(units) /\ Len(units) \in Nat
  BY LenProperties DEF TypeInv
<1>2. IsFiniteSet(1..Len(units))
  BY <1>1, FS_Interval
<1>3. IsFiniteSet(ids)
  BY <1>1, <1>2, FS_Subset DEF Remembered
<1>4. Len(units) + 1 \notin 1..Len(units)
  BY <1>1
<1> QED
  BY <1>1, <1>3, <1>4, FS_CardinalityType DEF Remembered

LEMMA WorkingFinite ==
  ASSUME TypeInv
  PROVE  IsFiniteSet(Working)
<1>1. DOMAIN units = 1..Len(units) /\ Len(units) \in Nat
  BY LenProperties DEF TypeInv
<1>2. IsFiniteSet(1..Len(units)) /\ Working \subseteq 1..Len(units)
  BY <1>1, FS_Interval DEF Working
<1> QED
  BY <1>2, FS_Subset

\* A step that forgets no unit,
LEMMA NoneForgotten ==
  ASSUME TypeInv, FewForgotten, Forgotten' \subseteq Forgotten, conf' = conf,
         signals' = signals
  PROVE  FewForgotten'
<1>1. IsFiniteSet(Forgotten)
  BY WorkingFinite, FS_Subset DEF Forgotten
<1>2. /\ Cardinality(Forgotten') <= Cardinality(Forgotten)
      /\ Cardinality(Forgotten') \in Nat /\ Cardinality(Forgotten) \in Nat
  BY <1>1, FS_Subset, FS_CardinalityType
<1> QED
  BY <1>2 DEF FewForgotten, TypeInv

\* and a signal, that may make the parent forget a child.
LEMMA OneForgotten ==
  ASSUME TypeInv, FewForgotten, conf' = conf, signals' = signals + 1,
         NEW u, Forgotten' \subseteq Forgotten \cup {u},
         conf.threaded => Forgotten' \subseteq Forgotten
  PROVE  FewForgotten'
<1>1. IsFiniteSet(Forgotten)
  BY WorkingFinite, FS_Subset DEF Forgotten
<1>5. Cardinality(Forgotten) \in Nat
  BY <1>1, FS_CardinalityType
<1>2. IsFiniteSet(Forgotten \cup {u}) /\ Cardinality(Forgotten) \in Nat
      /\ Cardinality(Forgotten \cup {u}) <= Cardinality(Forgotten) + 1
      /\ Cardinality(Forgotten \cup {u}) \in Nat
  <2>1. /\ IsFiniteSet(Forgotten \cup {u})
        /\ Cardinality(Forgotten \cup {u}) =
             IF u \in Forgotten THEN Cardinality(Forgotten) ELSE Cardinality(Forgotten) + 1
    BY <1>1, FS_AddElement
  <2> QED
    BY <1>5, <2>1
<1>3. /\ Cardinality(Forgotten') <= Cardinality(Forgotten \cup {u})
      /\ Cardinality(Forgotten') \in Nat
  BY <1>2, FS_Subset, FS_CardinalityType
<1>4. conf.threaded => Cardinality(Forgotten') <= Cardinality(Forgotten)
  BY <1>1, FS_Subset
<1> QED
  BY <1>2, <1>3, <1>4 DEF FewForgotten, TypeInv

LEMMA UnitsTyped ==
  ASSUME TypeInv
  PROVE  conf \in Configurations /\ \A u \in DOMAIN units : units[u] \in UnitType
BY ElementOfSeq, LenProperties DEF TypeInv

LEMMA ReadRowStep ==
  ASSUME TypeInv, Safe, ReadRow
  PROVE  TypeInv' /\ Safe'
<1>1. UNCHANGED <<conf, units, ids, args, quit, signals>> /\ pc = "read"
  BY DEF ReadRow
<1>2. \/ /\ pc' = "last" /\ waiting' = ids /\ success' = FALSE
         /\ UNCHANGED <<recipients, complete>>
      \/ UNCHANGED <<pc, waiting, success, recipients, complete>>
      \/ /\ recipients' \subseteq Recipients /\ complete' = complete + 1 /\ success' = success
         /\ \/ pc' = "join" /\ waiting' = ids
            \/ pc' = "create" /\ waiting' = waiting /\ ~Full
  <2>1. \A row \in Rows : InRow(row) \subseteq Recipients
    BY MailingAssumption DEF InRow
  <2> QED
    BY <2>1 DEF ReadRow, Abort
<1>3. Working' = Working
  BY <1>1 DEF Working
<1>4. success' \in BOOLEAN
  BY <1>2, Zenon DEF TypeInv
<1>5. TypeInv'
  BY <1>1, <1>2, <1>4 DEF TypeInv
<1>6. Remembered' /\ NobodyQuits'
  BY <1>1, <1>2 DEF Safe, Remembered, NobodyQuits
<1>7. Room'
  <2>1. Cardinality(ids) \in Nat
    BY IdsFinite DEF Safe
  <2>2. ~Full => Cardinality(ids) < MaxSlaves
    BY <2>1, MailingAssumption DEF Full
  <2> QED
    BY <1>1, <1>2, <2>2 DEF Safe, Room
<1>8. WaitedFor'
  BY <1>1, <1>2, <1>3 DEF Safe, WaitedFor
<1>10. FewForgotten'
  <2>1. Awaited' \in {Awaited, ids'} /\ Awaited = ids
    BY <1>1, <1>2 DEF Awaited
  <2>2. Forgotten' = Forgotten
    BY <1>1, <1>3, <2>1 DEF Forgotten
  <2> QED
    BY <1>1, <2>2, NoneForgotten DEF Safe
<1>9. RowsHaveUnits'
  <2>1. Len(units) \in Nat /\ complete \in Nat
    BY IdsFinite DEF Safe, TypeInv
  <2>2. CASE success' = FALSE
    BY <2>2 DEF RowsHaveUnits
  <2>3. CASE UNCHANGED <<pc, success, complete>>
    BY <1>1, <2>3 DEF Safe, RowsHaveUnits
  <2>4. CASE complete' = complete + 1 /\ success' = success /\ pc' \in {"join", "create"}
    BY <1>1, <2>1, <2>4 DEF Safe, RowsHaveUnits
  <2> QED
    BY <1>2, <2>2, <2>3, <2>4
<1> QED
  BY <1>5, <1>6, <1>7, <1>8, <1>9, <1>10 DEF Safe

LEMMA WaitStep ==
  ASSUME TypeInv, Safe, EndOfFile \/ JoinOne \/ Joined
  PROVE  TypeInv' /\ Safe'
<1>1. /\ UNCHANGED <<conf, recipients, success, units, quit, signals, complete>>
      /\ Working' = Working
  BY DEF EndOfFile, JoinOne, Joined, Working
<1>2. /\ \/ /\ pc = "read" /\ pc' = "last" /\ waiting' = ids /\ UNCHANGED <<ids, args>>
         \/ /\ pc \in {"join", "last"} /\ UNCHANGED <<pc, ids, args>>
            /\ \E u \in waiting : u \notin Working /\ waiting' = waiting \ {u}
         \/ /\ pc \in {"join", "last"} /\ waiting = {}
            /\ pc' = IF pc = "join" THEN "create" ELSE "ended"
            /\ ids' = {} /\ args' = {} /\ waiting' = {}
  BY DEF EndOfFile, JoinOne, Joined, Working
<1>3. TypeInv' /\ Remembered' /\ NobodyQuits'
  BY <1>1, <1>2 DEF TypeInv, Safe, Remembered, NobodyQuits
<1>4. Cardinality({}) = 0
  BY FS_EmptySet
<1>5. Room'
  <2>1. CASE UNCHANGED ids /\ pc' # "create"
    BY <2>1 DEF Safe, Room
  <2>2. CASE ids' = {}
    BY <1>4, <2>2, MailingAssumption DEF Room
  <2> QED
    BY <1>2, <2>1, <2>2
<1>6. WaitedFor'
  BY <1>1, <1>2 DEF Safe, WaitedFor
<1>7. RowsHaveUnits'
  BY <1>1, <1>2 DEF Safe, RowsHaveUnits
<1>8. FewForgotten'
  <2>1. Forgotten' = Forgotten
    BY <1>1, <1>2 DEF Forgotten, Awaited
  <2> QED
    BY <1>1, <2>1, NoneForgotten DEF Safe
<1> QED
  BY <1>3, <1>5, <1>6, <1>7, <1>8 DEF Safe

LEMMA NewUnitTyped ==
  ASSUME TypeInv
  PROVE  /\ NewUnit \in UnitType /\ NewUnit.at = "list" /\ NewUnit.quit = quit
         /\ NewUnit.left = {} /\ \A r \in Recipients : NewUnit.times[r] = 0
BY DEF TypeInv, NewUnit, UnitType, Names

LEMMA CreateFacts ==
  ASSUME TypeInv, units' = Append(units, NewUnit)
  PROVE  /\ units' \in Seq(UnitType) /\ Len(units') = Len(units) + 1
         /\ DOMAIN units' = DOMAIN units \cup {Len(units) + 1}
         /\ Len(units) + 1 \notin DOMAIN units
         /\ units'[Len(units) + 1] = NewUnit
         /\ \A u \in DOMAIN units : units'[u] = units[u]
<1>1. units \in Seq(UnitType) /\ NewUnit \in UnitType
  BY NewUnitTyped DEF TypeInv
<1>2. DOMAIN units = 1..Len(units) /\ Len(units) \in Nat
  BY <1>1, LenProperties
<1>3. /\ units' \in Seq(UnitType) /\ Len(units') = Len(units) + 1
      /\ units'[Len(units) + 1] = NewUnit
      /\ \A u \in 1..Len(units) : units'[u] = units[u]
  BY <1>1, AppendProperties
<1>4. DOMAIN units' = 1..Len(units) + 1
  BY <1>3, LenProperties
<1> QED
  BY <1>2, <1>3, <1>4

LEMMA CreateStep ==
  ASSUME TypeInv, Safe, Create
  PROVE  TypeInv' /\ Safe'
<1>1. /\ UNCHANGED <<conf, rows, quit, signals, complete>>
      /\ pc = "create" /\ recipients' = {}
  BY DEF Create
<1>2. CASE pc' = "last" /\ waiting' = ids /\ success' = FALSE /\ UNCHANGED <<units, ids, args>>
  <2>1. Forgotten' = Forgotten
    BY <1>1, <1>2 DEF Forgotten, Awaited, Working
  <2>2. FewForgotten'
    BY <1>1, <2>1, NoneForgotten DEF Safe
  <2> QED
    BY <1>1, <1>2, <2>2 DEF TypeInv, Safe, Remembered, Room, WaitedFor, Working, RowsHaveUnits,
       NobodyQuits
<1>3. CASE /\ units' = Append(units, NewUnit)
           /\ ids' = ids \cup {Len(units) + 1} /\ args' = args \cup {Len(units) + 1}
           /\ pc' = "read"
           /\ UNCHANGED <<waiting, success>>
  <2>1. /\ units' \in Seq(UnitType) /\ Len(units') = Len(units) + 1
        /\ DOMAIN units' = DOMAIN units \cup {Len(units) + 1}
        /\ units'[Len(units) + 1] = NewUnit
        /\ \A u \in DOMAIN units : units'[u] = units[u]
    BY <1>3, CreateFacts
  <2>2. TypeInv'
    BY <1>1, <1>3, <2>1 DEF TypeInv
  <2>3. Remembered'
    BY <1>3, <2>1 DEF Safe, Remembered
  <2>4. Working' \subseteq Working \cup {Len(units) + 1}
    BY <2>1 DEF Working
  <2>5. Room'
    <3>1. Cardinality(ids') = Cardinality(ids) + 1 /\ Cardinality(ids) \in Nat
      BY <1>3, IdsFinite, FS_AddElement DEF Safe
    <3>2. ids = {} => Cardinality(ids) = 0
      BY FS_EmptySet
    <3> QED
      BY <1>1, <1>3, <3>1, <3>2, MailingAssumption DEF Safe, Room
  <2>6. WaitedFor'
    BY <1>1, <1>3, <2>4 DEF Safe, WaitedFor
  <2>7. RowsHaveUnits'
    BY <1>1, <1>3, <2>1, LenProperties DEF Safe, RowsHaveUnits, TypeInv
  <2>8. NobodyQuits'
    BY <1>1, <2>1, NewUnitTyped DEF Safe, NobodyQuits
  <2>9. FewForgotten'
    <3>1. Forgotten' \subseteq Forgotten
      BY <1>1, <1>3, <2>4 DEF Forgotten, Awaited
    <3> QED
      BY <1>1, <3>1, NoneForgotten DEF Safe
  <2> QED
    BY <2>2, <2>3, <2>5, <2>6, <2>7, <2>8, <2>9 DEF Safe
<1> QED
  BY <1>2, <1>3 DEF Create, Abort

LEMMA UnitStep ==
  ASSUME TypeInv, Safe, NEW u \in DOMAIN units, Unit(u)
  PROVE  TypeInv' /\ Safe'
<1>1. PICK y \in UnitType : units' = [units EXCEPT ![u] = y] /\ Turned(conf, units[u], y)
  BY UnitFacts
<1>2. /\ units' \in Seq(UnitType) /\ DOMAIN units' = DOMAIN units /\ Len(units') = Len(units)
      /\ units'[u] = y /\ \A v \in DOMAIN units : v # u => units'[v] = units[v]
  BY <1>1, UnitChanged DEF TypeInv
<1>3. UNCHANGED <<conf, pc, recipients, success, ids, waiting, args, quit, signals, complete>>
  BY DEF Unit, parent
<1>4. units[u].at # "ended" /\ y.quit = units[u].quit
  BY <1>1 DEF Turned, Lists, Takes, Sends, Ends
<1>5. Working' \subseteq Working
  BY <1>2, <1>4 DEF Working
<1>6. FewForgotten'
  <2>1. Forgotten' \subseteq Forgotten
    BY <1>3, <1>5 DEF Forgotten, Awaited
  <2> QED
    BY <1>3, <2>1, NoneForgotten DEF Safe
<1> QED
  BY <1>2, <1>3, <1>4, <1>5, <1>6 DEF TypeInv, Safe, Remembered, Room, WaitedFor, RowsHaveUnits,
     NobodyQuits

LEMMA SignalFacts ==
  ASSUME TypeInv, Remembered, Signal
  PROVE  /\ signals' = signals + 1 /\ quit' \in BOOLEAN
         /\ UNCHANGED <<conf, pc, recipients, rows, success, ids, args, complete>>
         /\ waiting' \subseteq waiting /\ (conf.threaded => waiting' = waiting)
         /\ \E u \in Nat : waiting \subseteq waiting' \cup {u}
         /\ \/ units' = units
            \/ \E u \in DOMAIN units, q \in BOOLEAN :
                 units' = [units EXCEPT ![u] = [units[u] EXCEPT !.quit = q]]
<1>1. /\ signals' = signals + 1
      /\ UNCHANGED <<conf, pc, recipients, rows, success, ids, args, complete>>
      /\ waiting' \subseteq waiting /\ (conf.threaded => waiting' = waiting)
  BY DEF Signal
<1>2. quit' \in BOOLEAN
  BY Zenon DEF Signal, TypeInv
<1>3. ASSUME NEW u \in DOMAIN units, NEW b \in BOOLEAN,
             units' = [units EXCEPT ![u].quit = @ \/ b]
      PROVE  \E q \in BOOLEAN : units' = [units EXCEPT ![u] = [units[u] EXCEPT !.quit = q]]
  <2>1. (units[u].quit \/ b) \in BOOLEAN
    OBVIOUS
  <2> QED
    BY <1>3, <2>1
<1>4. \E u \in Nat : waiting \subseteq waiting' \cup {u}
  <2>1. waiting \subseteq Nat
    BY IdsFinite DEF Remembered
  <2>2. waiting' = waiting \/ \E u \in waiting : waiting' = waiting \ {u}
    BY DEF Signal
  <2> QED
    BY <2>1, <2>2
<1> QED
  BY <1>1, <1>2, <1>3, <1>4 DEF Signal, Working

LEMMA QuitChanged ==
  ASSUME NEW x \in UnitType, NEW q \in BOOLEAN, NEW y, y = [x EXCEPT !.quit = q]
  PROVE  /\ y \in UnitType /\ y.at = x.at /\ y.recipients = x.recipients /\ y.left = x.left
         /\ y.domain = x.domain /\ y.times = x.times
BY DEF UnitType

LEMMA SignalStep ==
  ASSUME TypeInv, Safe, Signal
  PROVE  TypeInv' /\ Safe'
<1>1. /\ units' \in Seq(UnitType) /\ DOMAIN units' = DOMAIN units /\ Len(units') = Len(units)
      /\ Working' = Working
  <2>1. CASE units' = units
    BY <2>1 DEF TypeInv, Working
  <2>2. CASE \E u \in DOMAIN units, q \in BOOLEAN :
               units' = [units EXCEPT ![u] = [units[u] EXCEPT !.quit = q]]
    <3>1. PICK u \in DOMAIN units, q \in BOOLEAN :
                 units' = [units EXCEPT ![u] = [units[u] EXCEPT !.quit = q]]
      BY <2>2
    <3> DEFINE y == [units[u] EXCEPT !.quit = q]
    <3>2. y \in UnitType /\ y.at = units[u].at
      BY UnitsTyped, QuitChanged
    <3>3. units' = [units EXCEPT ![u] = y]
      BY <3>1
    <3> HIDE DEF y
    <3>4. /\ units' \in Seq(UnitType) /\ DOMAIN units' = DOMAIN units
          /\ Len(units') = Len(units)
          /\ units'[u] = y /\ \A v \in DOMAIN units : v # u => units'[v] = units[v]
      BY <3>2, <3>3, UnitChanged DEF TypeInv
    <3> QED
      BY <3>2, <3>4 DEF Working
  <2> QED
    BY <2>1, <2>2, SignalFacts DEF Safe
<1>2. signals' # 0 /\ signals' \in Nat
  BY SignalFacts DEF TypeInv, Safe
<1>3. FewForgotten'
  <2>1. /\ conf' = conf /\ signals' = signals + 1 /\ UNCHANGED <<pc, ids>>
        /\ conf.threaded => waiting' = waiting
    BY SignalFacts DEF Safe
  <2>2. PICK u \in Nat : waiting \subseteq waiting' \cup {u}
    BY SignalFacts DEF Safe
  <2>3. /\ Forgotten' \subseteq Forgotten \cup {u}
        /\ conf.threaded => Forgotten' \subseteq Forgotten
    BY <1>1, <2>1, <2>2 DEF Forgotten, Awaited
  <2> QED
    BY <2>1, <2>3, OneForgotten DEF Safe
<1> QED
  BY <1>1, <1>2, <1>3, SignalFacts DEF TypeInv, Safe, Remembered, Room, WaitedFor, RowsHaveUnits,
     NobodyQuits
----------------------------------------------------------------------------
\* What the units do to their recipients.
LEMMA InitInv == Init => IInv
<1> SUFFICES ASSUME Init PROVE IInv
  OBVIOUS
<1>1. units \in Seq(UnitType) /\ DOMAIN units = {}
  BY EmptySeq DEF Init
<1>2. Cardinality(ids) = 0 /\ Len(units) = 0
  BY FS_EmptySet DEF Init
<1>3. TypeInv
  BY <1>1 DEF Init, TypeInv
<1>4. Remembered /\ Room /\ WaitedFor /\ RowsHaveUnits /\ NobodyQuits
  BY <1>1, <1>2, MailingAssumption
     DEF Init, Remembered, Room, WaitedFor, Working, RowsHaveUnits, NobodyQuits
<1>5. FewForgotten
  <2>1. Forgotten = {}
    BY <1>1 DEF Init, Forgotten, Awaited, Working
  <2> QED
    BY <2>1, FS_EmptySet DEF Init, FewForgotten
<1> QED
  BY <1>1, <1>3, <1>4, <1>5 DEF IInv, EmailsOnce, EmailsAll

LEMMA SameConf ==
  ASSUME [Next]_vars
  PROVE  conf' = conf
BY DEF Next, Run, ReadRow, EndOfFile, JoinOne, Joined, Create, Signal, Unit, parent, vars

LEMMA SafeStep ==
  ASSUME TypeInv, Safe, [Next]_vars
  PROVE  TypeInv' /\ Safe'
<1>1. CASE UNCHANGED vars
  <2>1. Forgotten' = Forgotten /\ UNCHANGED <<conf, signals>>
    BY <1>1 DEF vars, parent, Forgotten, Awaited, Working
  <2>2. Safe => FewForgotten'
    BY <2>1, NoneForgotten DEF Safe
  <2> QED
    BY <1>1, <2>2 DEF vars, parent, TypeInv, Safe, Remembered, Room, WaitedFor, Working,
       RowsHaveUnits, NobodyQuits
<1> QED
  BY <1>1, ReadRowStep, WaitStep, CreateStep, SignalStep, UnitStep DEF Next, Run

LEMMA EmailsStep ==
  ASSUME TypeInv, Safe, EmailsOnce, [Next]_vars
  PROVE  /\ EmailsOnce'
         /\ RelayBesideInternal /\ EmailsAll => EmailsAll'
<1>1. /\ conf' = conf /\ conf \in Configurations
      /\ \A u \in DOMAIN units : units[u] \in UnitType
  BY SameConf, UnitsTyped
<1>2. CASE ReadRow \/ EndOfFile \/ JoinOne \/ Joined \/ UNCHANGED vars \/ (Create /\ units' = units)
  <2>1. UNCHANGED <<units, signals>>
    BY <1>2 DEF ReadRow, EndOfFile, JoinOne, Joined, Create, vars
  <2> QED
    BY <1>1, <2>1 DEF EmailsOnce, EmailsAll
<1>3. CASE Create /\ units' # units
  <2>1. units' = Append(units, NewUnit) /\ signals' = signals
    BY <1>3 DEF Create
  <2>2. AtMostOnce(conf, NewUnit) /\ Covered(conf, NewUnit)
    BY NewUnitTyped DEF AtMostOnce, Covered
  <2> QED
    BY <1>1, <2>1, <2>2, CreateFacts DEF EmailsOnce, EmailsAll
<1>4. CASE Signal
  <2>1. signals' # 0
    BY <1>4, SignalFacts DEF TypeInv, Safe
  <2>2. CASE units' = units
    BY <1>1, <2>1, <2>2 DEF EmailsOnce, EmailsAll
  <2>3. ASSUME NEW u \in DOMAIN units, NEW q \in BOOLEAN,
               units' = [units EXCEPT ![u] = [units[u] EXCEPT !.quit = q]]
        PROVE  EmailsOnce'
    <3> DEFINE y == [units[u] EXCEPT !.quit = q]
    <3>1. /\ y \in UnitType /\ y.at = units[u].at /\ y.recipients = units[u].recipients
          /\ y.left = units[u].left /\ y.domain = units[u].domain /\ y.times = units[u].times
      BY <1>1, QuitChanged
    <3>2. units' = [units EXCEPT ![u] = y]
      BY <2>3
    <3> HIDE DEF y
    <3>3. /\ DOMAIN units' = DOMAIN units /\ units'[u] = y
          /\ \A v \in DOMAIN units : v # u => units'[v] = units[v]
      BY <3>1, <3>2, UnitChanged DEF TypeInv
    <3>4. AtMostOnce(conf, units[u]) => AtMostOnce(conf, y)
      BY <3>1 DEF AtMostOnce
    <3> QED
      BY <1>1, <3>3, <3>4 DEF EmailsOnce
  <2> QED
    BY <1>4, <2>1, <2>2, <2>3, SignalFacts DEF EmailsAll, Safe
<1>5. ASSUME NEW u \in DOMAIN units, Unit(u)
      PROVE  EmailsOnce' /\ (RelayBesideInternal /\ EmailsAll => EmailsAll')
  <2>1. PICK y \in UnitType :
           /\ units' = [units EXCEPT ![u] = y]
           /\ Turned(conf, units[u], y)
           /\ Ends(units[u], y) => units[u].left = {} \/ MustQuit(u)
    BY <1>5, UnitFacts
  <2>2. /\ DOMAIN units' = DOMAIN units /\ units'[u] = y
        /\ \A v \in DOMAIN units : v # u => units'[v] = units[v]
    BY <2>1, UnitChanged DEF TypeInv
  <2>3. AtMostOnce(conf, units[u]) /\ AtMostOnce(conf, y) /\ signals' = signals
    BY <1>1, <1>5, <2>1, OnceTurned DEF EmailsOnce, Unit
  <2>4. ASSUME RelayBesideInternal, EmailsAll, signals = 0
        PROVE  Covered(conf, y)
    <3>1. ~MustQuit(u)
      BY <2>4 DEF MustQuit, Safe, NobodyQuits
    <3> QED
      BY <1>1, <2>1, <2>3, <2>4, <3>1, CoveredTurned DEF EmailsAll
  <2> QED
    BY <1>1, <2>2, <2>3, <2>4 DEF EmailsOnce, EmailsAll
<1> QED
  BY <1>2, <1>3, <1>4, <1>5 DEF Next, Run

\* The invariant is inductive.
LEMMA NextInv == IInv /\ [Next]_vars => IInv'
BY SafeStep, EmailsStep DEF IInv, Safe

LEMMA Invariance == Spec => []IInv
BY InitInv, NextInv, PTL DEF Spec

\* What a unit reads is kept as long as it works, and csv2givemail does not end
\* before its units: threads always, children unless a signal interrupts a wait.
THEOREM Outlived == Spec => []UnitsOutlived
<1>1. IInv => UnitsOutlived
  BY DEF IInv, UnitsOutlived, Remembered, WaitedFor
<1> QED
  BY <1>1, Invariance, PTL

\* No more units run than are configured, whatever the number of signals, but for
\* one child for each signal.
THEOREM Bounded == Spec => []BoundedUnits
<1>1. ASSUME IInv PROVE BoundedUnits
  <2>1. TypeInv /\ Remembered /\ Room /\ FewForgotten /\ signals \in Nat
    BY <1>1 DEF IInv, TypeInv
  <2>2. Working \subseteq ids \cup Forgotten /\ IsFiniteSet(ids) /\ IsFiniteSet(Forgotten)
    <3>1. Awaited \subseteq ids
      BY <2>1 DEF Awaited, Remembered
    <3> QED
      BY <2>1, <3>1, IdsFinite, WorkingFinite, FS_Subset DEF Forgotten
  <2>3. /\ Cardinality(Working) <= Cardinality(ids \cup Forgotten)
        /\ Cardinality(ids \cup Forgotten) <= Cardinality(ids) + Cardinality(Forgotten)
    <3>1. IsFiniteSet(ids \cup Forgotten) /\ IsFiniteSet(ids \cap Forgotten)
      BY <2>2, FS_Union, FS_Intersection
    <3>2. Cardinality(ids \cup Forgotten)
            = Cardinality(ids) + Cardinality(Forgotten) - Cardinality(ids \cap Forgotten)
      BY <2>2, FS_Union
    <3> QED
      BY <2>2, <3>1, <3>2, FS_Subset, FS_CardinalityType
  <2>4. /\ Cardinality(Working) \in Nat /\ Cardinality(ids) \in Nat
        /\ Cardinality(Forgotten) \in Nat /\ Cardinality(ids \cup Forgotten) \in Nat
    BY <2>1, <2>2, WorkingFinite, FS_Union, FS_CardinalityType
  <2> QED
    BY <2>1, <2>3, <2>4, MailingAssumption DEF Room, FewForgotten, BoundedUnits, Allowed
<1> QED
  BY <1>1, Invariance, PTL

\* Nobody is emailed twice by a unit, and when csv2givemail succeeds without a
\* signal every complete row had a unit that emailed everyone it could.  A mail
\* relay has to have an internal domain beside it: without one, recipients on
\* other domains are left out (see the README).
THEOREM OnceServed ==
  ASSUME RelayBesideInternal
  PROVE  Spec => []ServedOnce
<1>1. ASSUME IInv PROVE ServedOnce
  <2>1. TypeInv /\ WaitedFor /\ RowsHaveUnits /\ EmailsOnce /\ EmailsAll
    BY <1>1 DEF IInv
  <2>2. ASSUME NEW u \in DOMAIN units, NEW r \in Recipients
        PROVE  units[u].times[r] <= (IF r \in units[u].recipients THEN 1 ELSE 0)
    BY <2>1, <2>2 DEF EmailsOnce, AtMostOnce
  <2>3. ASSUME pc = "ended", success, signals = 0
        PROVE  /\ Len(units) = complete
               /\ \A u \in DOMAIN units : \A r \in units[u].recipients :
                    \/ DomainOf[r] = NoDomain
                    \/ units[u].times[r] = 1
                    \/ RouteOf(r) \in units[u].skipped
    <3>1. Len(units) = complete
      BY <2>1, <2>3, LenProperties DEF RowsHaveUnits, TypeInv
    <3>2. \A u \in DOMAIN units : units[u].at = "ended"
      BY <2>1, <2>3 DEF WaitedFor, Working
    <3> QED
      BY <2>1, <2>3, <3>1, <3>2, RouteOfRoute DEF EmailsAll, EmailsOnce, AtMostOnce,
         Covered
  <2> QED
    BY <2>2, <2>3 DEF ServedOnce
<1> QED
  BY <1>1, Invariance, PTL
=============================================================================
