-------------------------- MODULE DecisionValidator --------------------------
(***************************************************************************)
(* decision/validator.py, through which controller.py passes every         *)
(* decision: commands that are not well formed, not legal for their unit,  *)
(* or cannot be paid or operated together with others, are dropped.  The   *)
(* planners may propose anything.                                          *)
(***************************************************************************)
EXTENDS Geometry, Totals, Functions

CONSTANTS
    Boards,         \* observations: [units, zones, gold, night, vendor, smithy],
                    \* prices 0 for what a shop does not list
    Commands,       \* for each unit the commands a planner may propose
    BoardWidth, BoardHeight,
    Absent

ASSUME ValidatorAssumption ==
    /\ \A b \in Boards :
          /\ DOMAIN b.units \subseteq Int /\ IsFiniteSet(DOMAIN b.units)
          /\ b.gold \in Nat /\ b.night \in BOOLEAN
          /\ \A c \in UNION Range(Commands) :
                c.name # Absent /\ c.num # Absent =>
                    b.vendor[c.name] \in Nat /\ b.smithy[c.name] \in Nat
    /\ \A c \in UNION Range(Commands) : c.num # Absent => c.num \in Int

VARIABLES
    board,
    proposal,       \* what the planners decided, by unit
    validated       \* the decision that is sent

validatorVars == <<board, proposal, validated>>

PersonalRoles == {"worker", "pioneer"}
WeaponRoles == {"gatling", "railgun", "rocket"}
Structures == WeaponRoles \cup {"station", "wall"}
Ores == {"stone", "iron", "copper"}
WorkerActions == {"collect", "build", "remove"}
PioneerActions == {"acceptTask", "submitAnswer", "summonTreasure"}
RemoteItems == {"bomb", "dizzyWeapon"}

\* What an item used on a neighbour is for.
On(roles, level) == [roles |-> roles, level |-> level]
AdjacentItems ==
    [ wallFixer |-> On({"wall"}, Absent),
      weaponVoucher1 |-> On(WeaponRoles, 1), weaponVoucher2 |-> On(WeaponRoles, 2),
      wallVoucher1 |-> On({"wall"}, 1), wallVoucher2 |-> On({"wall"}, 2),
      stationVoucher1 |-> On({"station"}, 1), stationVoucher2 |-> On({"station"}, 2) ]

-----------------------------------------------------------------------------
(* Well-formed commands *)

\* The fields each kind has, all of them and no other, and how many targets.
Fields ==
    [ move |-> {}, attack |-> {"controller"}, sell |-> {"name", "num"}, buy |-> {"name", "num"},
      build |-> {"name"}, remove |-> {}, collect |-> {}, acceptTask |-> {},
      submitAnswer |-> {"answer"}, summonTreasure |-> {"items"}, use |-> {"name"}, drop |-> {"name"} ]

TargetCounts(kind) ==
    CASE kind \in {"move", "build", "remove", "collect", "summonTreasure"} -> {1}
      [] kind = "attack" -> Nat \ {0}
      [] kind = "use" -> {0, 1}
      [] OTHER -> {0}

\* _is_structurally_valid
IsStructurallyValid(c) ==
    /\ c.kind \in DOMAIN Fields
    /\ Len(c.targets) \in TargetCounts(c.kind)
    /\ \A f \in {"controller", "name", "num", "answer", "items"} :
           c[f] # Absent <=> f \in Fields[c.kind]
    /\ "num" \in Fields[c.kind] => c.num > 0
    /\ "items" \in Fields[c.kind] => DOMAIN c.items # {}

Targets(c) == {c.targets[i] : i \in DOMAIN c.targets}

TargetsInBounds(c) ==
    Targets(c) \subseteq (0..BoardWidth - 1) \X (0..BoardHeight - 1)

-----------------------------------------------------------------------------
(* Legal commands *)

Living(b) == {u \in DOMAIN b.units : b.units[u].health > 0}

Near(u, place) == Chebyshev(u.pos, place) <= 1

ZonesNear(b, u) == {z.type : z \in {y \in b.zones : Near(u, y.pos)}}

\* Structures, mines and shops stay where they are.
StaticBlocked(b) ==
    {b.units[v].pos : v \in {w \in Living(b) : b.units[w].role \in Structures}}
        \cup {z.pos : z \in b.zones}

IsValidMove(b, u, c) ==
    Chebyshev(u.pos, c.targets[1]) = 1 /\ c.targets[1] \notin StaticBlocked(b)

\* _adjacent_buy_prices: what a unit pays is the least of them.
BuyPrices(b, u, name) ==
    ((IF "vendor" \in ZonesNear(b, u) THEN {b.vendor[name]} ELSE {})
        \cup (IF "weaponShop" \in ZonesNear(b, u) THEN {b.smithy[name]} ELSE {})) \ {0}

Carried(u) == Total(u.pack, DOMAIN u.pack)

IsValidBuy(b, u, c) ==
    /\ BuyPrices(b, u, c.name) # {}
    /\ c.num <= u.capacity - Carried(u)
    /\ Min(BuyPrices(b, u, c.name)) * c.num <= b.gold

IsValidSell(b, u, c) ==
    b.vendor[c.name] > 0 /\ "vendor" \in ZonesNear(b, u) /\ u.pack[c.name] >= c.num

\* _valid_strategic_item_use
IsValidUse(b, u, c) ==
    LET aimed == Targets(c)
        there == {b.units[v] : v \in {w \in Living(b) : b.units[w].ours /\ b.units[w].pos \in aimed}}
    IN  /\ u.pack[c.name] > 0
        /\ c.name \in RemoteItems \cup DOMAIN AdjacentItems => aimed # {}
        /\ c.name \in DOMAIN AdjacentItems =>
              LET on == AdjacentItems[c.name]
              IN  /\ \A t \in aimed : Near(u, t)
                  /\ \E v \in there : v.role \in on.roles /\ (on.level = Absent \/ v.level = on.level)

IsValidSummon(u, c) ==
    /\ Near(u, c.targets[1])
    /\ \A i \in DOMAIN c.items : u.pack[i] >= c.items[i]

IsValidCollect(b, u, c) ==
    /\ Near(u, c.targets[1])
    /\ \E z \in b.zones : z.pos = c.targets[1] /\ z.type \in Ores

\* _is_valid_personal_action, and the check of a move before it.
IsValidPersonal(b, u, c) ==
    /\ u.role \in PersonalRoles
    /\ c.kind \in WorkerActions => u.role = "worker"
    /\ c.kind \in PioneerActions => u.role = "pioneer"
    /\ c.kind = "build" => ~b.night
    /\ c.kind = "move" => IsValidMove(b, u, c)
    /\ c.kind = "summonTreasure" => IsValidSummon(u, c)
    /\ c.kind = "use" => IsValidUse(b, u, c)
    /\ c.kind = "buy" => IsValidBuy(b, u, c)
    /\ c.kind = "sell" => IsValidSell(b, u, c)
    /\ c.kind = "collect" => IsValidCollect(b, u, c)

\* _is_valid_attack
IsValidAttack(w, c) ==
    /\ w.cooldown = 0 /\ w.range > 0
    /\ Cardinality(Targets(c)) = Len(c.targets)
    /\ \A t \in Targets(c) : Chebyshev(w.pos, t) <= w.range
    /\ Len(c.targets) = IF w.role = "railgun" THEN 1 ELSE w.level
    /\ w.role = "gatling" => IsLegalCone(w.pos, Targets(c))

-----------------------------------------------------------------------------
(* validate_decision: commands in the order of their units' ids *)

BuyCost(b, u, c) == IF c.kind = "buy" THEN Min(BuyPrices(b, u, c.name)) * c.num ELSE 0

\* Mutation: the units of the opponent obey as well.
SoundOfAnyone(b, d) ==
    {u \in DOMAIN d \cap Living(b) : IsStructurallyValid(d[u]) /\ TargetsInBounds(d[u])}

Sound(b, d) == {u \in DOMAIN d \cap Living(b) :
                   b.units[u].ours /\ IsStructurallyValid(d[u]) /\ TargetsInBounds(d[u])}

Attackers(b, d) == {u \in Sound(b, d) : d[u].kind = "attack"}

\* Mutation: each purchase is held against all the gold.
RetainPersonalUnpaid(b, d) ==
    {u \in Sound(b, d) \ Attackers(b, d) : IsValidPersonal(b, b.units[u], d[u])}

Costs(b, d, units) == [u \in units |-> BuyCost(b, b.units[u], d[u])]

\* A purchase is kept if the gold lasts for it and those kept before it.
RetainPersonal(b, d) ==
    LET able == RetainPersonalUnpaid(b, d)
        kept[u \in able] ==
            Total(Costs(b, d, able), {u} \cup {v \in able : v < u /\ kept[v]}) <= b.gold
    IN  {u \in able : kept[u]}

Operates(b, d, w, busy) ==
    LET unit == b.units[w]
        controller == d[w].controller
    IN  /\ unit.role \in WeaponRoles
        /\ IsValidAttack(unit, d[w])
        /\ controller \in Living(b) \ busy
        /\ b.units[controller].ours
        /\ b.units[controller].role \in PersonalRoles
        /\ Near(b.units[controller], unit.pos)

\* A unit that acts operates nothing, and nobody operates two weapons.
RetainAttacks(b, d, busy) ==
    LET able == {w \in Attackers(b, d) : b.night /\ Operates(b, d, w, busy)}
        kept[w \in able] ==
            \A v \in able : v < w /\ kept[v] => d[v].controller # d[w].controller
    IN  {w \in able : kept[w]}

ValidateDecision(b, d) ==
    LET personal == RetainPersonal(b, d)
    IN  Restrict(d, personal \cup RetainAttacks(b, d, personal))

-----------------------------------------------------------------------------
(* controller.py: whatever a planner decides passes through it *)

ValidatorInit ==
    /\ board \in Boards
    /\ proposal = <<>>
    /\ validated = Absent

Propose ==
    /\ validated = Absent
    /\ \E u \in DOMAIN Commands \ DOMAIN proposal, c \in UNION Range(Commands) :
           /\ c \in Commands[u]
           /\ proposal' = [v \in DOMAIN proposal \cup {u} |-> IF v = u THEN c ELSE proposal[v]]
    /\ UNCHANGED <<board, validated>>

Validate ==
    /\ validated = Absent
    /\ validated' = ValidateDecision(board, proposal)
    /\ UNCHANGED <<board, proposal>>

ValidatorNext == Propose \/ Validate

ValidatorSpec == ValidatorInit /\ [][ValidatorNext]_validatorVars

-----------------------------------------------------------------------------
(* Properties *)

Sent == validated # Absent

Acting == {u \in DOMAIN validated : validated[u].kind # "attack"}

Operators == {validated[w].controller : w \in DOMAIN validated \ Acting}

\* What is sent are commands of the proposal, as they were proposed, for living
\* units of ours; validating it again leaves it as it is.
ValidatorTypeOK ==
    Sent =>
        /\ DOMAIN validated \subseteq DOMAIN proposal \cap Living(board)
        /\ \A u \in DOMAIN validated : validated[u] = proposal[u] /\ board.units[u].ours
        /\ ValidateDecision(board, validated) = validated

\* The commands sent can be carried out together: all the purchases can be paid
\* from the gold there is, a unit that acts operates no weapon, no unit operates
\* two, nobody shoots by day or builds by night.
JointlyLegal ==
    Sent =>
        /\ Total(Costs(board, validated, Acting), Acting) <= board.gold
        /\ Operators \cap Acting = {}
        /\ Cardinality(Operators) = Cardinality(DOMAIN validated \ Acting)
        /\ IF board.night THEN \A u \in Acting : validated[u].kind # "build"
                          ELSE Operators = {}

\* Nothing is dropped in vain: a command that was dropped would be dropped again
\* if it were proposed with nothing but the commands that were sent.
NothingDroppedInVain ==
    Sent => \A u \in DOMAIN proposal \ DOMAIN validated :
                ValidateDecision(board, Restrict(proposal, DOMAIN validated \cup {u})) = validated

\* What validate_decision lets through is a part of the proposal that can be
\* carried out, and no larger part could.
LegalPartIsSent == JointlyLegal /\ NothingDroppedInVain

=============================================================================
