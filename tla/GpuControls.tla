----------------------------- MODULE GpuControls -----------------------------
(***************************************************************************)
(* GpuManagement::apply (src/src/hardware/nvml.cpp:120-229) with the AMD   *)
(* plan and its execution (src/src/hardware/amd.cpp:88-217): the requested *)
(* clocks, power limits and fan speeds are checked for all selected cards, *)
(* then written card by card, register by register.  Every driver write    *)
(* may fail; a failed AMD plan restores the fan policy it had changed.     *)
(*                                                                         *)
(* A value is 0 (back to the driver's own setting) or a positive number;   *)
(* units are left out.  "old" is what a register held before.  The cards   *)
(* are found by the PCI address that discovery recorded.                   *)
(***************************************************************************)
EXTENDS Devices, FiniteSets

CONSTANTS
    FanCount,   \* controllable fans of an NVML card
    Accepts(_, _, _)  \* does the driver's range admit this setting and value
                      \* on this card?

Settings == {"core", "memory", "power", "fan"}

ASSUME GpuAssumption == FanCount \in 1 .. 2

VARIABLES
    selected,     \* selected devices, in selection order
    controls,     \* the options of the command line
    hw,           \* registers of every card
    stage,        \* "idle", "check", "write", "restore", then "applied", "refused"
                  \* or "failed"
    card,         \* position of the card being checked or written
    step,         \* writes of its plan done
    fan_changed,  \* amd_apply: the fan policy was overwritten
    unrestored    \* cards whose fan policy could not be restored, as reported

applyVars == <<hw, stage, card, step, fan_changed, unrestored>>

N == Len(selected)
Positions == 1 .. N
Amd == {d \in Positions : selected[d].amd}

Registers == {"power", "core", "memory", "fan1", "fan2", "level", "policy", "duty"}
Old == [r \in Registers |-> "old"]

-----------------------------------------------------------------------------
(* What is asked of a card *)

\* broadcast_values: one value for all cards, or one for each.
Broadcasts(list) == Len(list) \in {0, 1, N}

Asked(s) == controls[s] # <<>>

Value(s, d) == IF Len(controls[s]) = 1 THEN controls[s][1] ELSE controls[s][d]

Wants(s, d)  == Asked(s) /\ Value(s, d) # 0
Resets(s, d) == Asked(s) /\ Value(s, d) = 0

\* AMD has one reset for both clocks.
MixedClocks(d) ==
    /\ Resets("core", d) \/ Resets("memory", d)
    /\ Wants("core", d) \/ Wants("memory", d)

\* Where an address leads: the amdgpu directory of a card of vendor 0x1002, or
\* the NVML handle of one of NVIDIA's.
CardAt(pci, amd) ==
    LET at == {c \in Cards : Address[c] = pci /\ (c \in AmdCards) = amd}
    IN IF at = {} THEN NoCard ELSE CHOOSE c \in at : TRUE

Handle(d) == CardAt(selected[d].pci, selected[d].amd)

Acceptable(d) ==
    /\ Handle(d) # NoCard
    /\ \A s \in Settings : Asked(s) => Accepts(Handle(d), s, Value(s, d))
    /\ d \in Amd => ~MixedClocks(d)

-----------------------------------------------------------------------------
(* The writes of a card, in order *)

Write(r, v) == [reg |-> r, value |-> v]

\* The value a register is given for a setting.
NewValue(s, d) == IF Value(s, d) = 0 THEN "auto" ELSE "set"

Single(s, d) == IF Asked(s) THEN <<Write(s, NewValue(s, d))>> ELSE <<>>

FanReg(f) == <<"fan1", "fan2">>[f]

NvidiaFans(d) ==
    IF Asked("fan") THEN [f \in 1 .. FanCount |-> Write(FanReg(f), NewValue("fan", d))]
                    ELSE <<>>

NvidiaPlan(d) == Single("power", d) \o Single("core", d) \o Single("memory", d) \o NvidiaFans(d)

AmdClocks(d) ==
    IF Resets("core", d) \/ Resets("memory", d) THEN <<Write("level", "auto")>>
    ELSE IF Asked("core") \/ Asked("memory")
    THEN <<Write("level", "manual")>> \o Single("core", d) \o Single("memory", d)
    ELSE <<>>

AmdFan(d) ==
    IF Wants("fan", d) THEN <<Write("policy", "manual"), Write("duty", "set")>>
    ELSE IF Asked("fan") THEN <<Write("policy", "auto")>> ELSE <<>>

AmdPlan(d) == Single("power", d) \o AmdClocks(d) \o AmdFan(d)

Plan(d) == IF d \in Amd THEN AmdPlan(d) ELSE NvidiaPlan(d)

-----------------------------------------------------------------------------
ApplyInit ==
    /\ hw = [c \in Cards |-> Old]
    /\ stage = "idle"
    /\ card = 1
    /\ step = 0
    /\ fan_changed = FALSE
    /\ unrestored = {}

Requested == \E s \in Settings : Asked(s)

\* The lists are expanded before the first card is looked at.
ListsFit == N > 0 /\ \A s \in Settings : Broadcasts(controls[s])

NothingRequested ==
    /\ stage = "check"
    /\ ~Requested
    /\ stage' = "applied"
    /\ UNCHANGED <<selected, controls, hw, card, step, fan_changed, unrestored>>

Refuse ==
    /\ stage = "check"
    /\ Requested
    /\ \/ ~ListsFit
       \/ ListsFit /\ card <= N /\ ~Acceptable(card)
    /\ stage' = "refused"
    /\ UNCHANGED <<selected, controls, hw, card, step, fan_changed, unrestored>>

\* Mutant: writing starts when the first card has been checked.
CheckFirstCard ==
    /\ stage = "check"
    /\ Requested
    /\ ListsFit
    /\ card <= N
    /\ Acceptable(card)
    /\ card' = N + 1
    /\ UNCHANGED <<selected, controls, hw, stage, step, fan_changed, unrestored>>

CheckCard ==
    /\ stage = "check"
    /\ Requested
    /\ ListsFit
    /\ card <= N
    /\ Acceptable(card)
    /\ card' = card + 1
    /\ UNCHANGED <<selected, controls, hw, stage, step, fan_changed, unrestored>>

AllChecked ==
    /\ stage = "check"
    /\ Requested
    /\ ListsFit
    /\ card = N + 1
    /\ stage' = "write"
    /\ card' = 1
    /\ UNCHANGED <<selected, controls, hw, step, fan_changed, unrestored>>

Writing == stage = "write" /\ card <= N /\ step < Len(Plan(card))

NextWrite == Plan(card)[step + 1]

\* The old policy was recorded if the fan gets a duty of its own.
Restorable == card \in Amd /\ Wants("fan", card)

WriteRegister ==
    /\ Writing
    /\ hw' = [hw EXCEPT ![Handle(card)][NextWrite.reg] = NextWrite.value]
    /\ step' = step + 1
    /\ fan_changed' = (fan_changed \/ (Restorable /\ NextWrite.reg = "policy"))
    /\ UNCHANGED <<selected, controls, stage, card, unrestored>>

\* Mutant: the exception leaves without restoring the policy.
WriteFailsAtOnce ==
    /\ Writing
    /\ stage' = "failed"
    /\ UNCHANGED <<selected, controls, hw, card, step, fan_changed, unrestored>>

\* The exception names the card; what was written before stays.
WriteFails ==
    /\ Writing
    /\ stage' = IF fan_changed THEN "restore" ELSE "failed"
    /\ UNCHANGED <<selected, controls, hw, card, step, fan_changed, unrestored>>

Restore ==
    /\ stage = "restore"
    /\ hw' = [hw EXCEPT ![Handle(card)]["policy"] = "old"]
    /\ stage' = "failed"
    /\ UNCHANGED <<selected, controls, card, step, fan_changed, unrestored>>

RestoreFails ==
    /\ stage = "restore"
    /\ unrestored' = unrestored \cup {Handle(card)}
    /\ stage' = "failed"
    /\ UNCHANGED <<selected, controls, hw, card, step, fan_changed>>

CardDone ==
    /\ stage = "write"
    /\ card <= N
    /\ step = Len(Plan(card))
    /\ card' = card + 1
    /\ step' = 0
    /\ fan_changed' = FALSE
    /\ UNCHANGED <<selected, controls, hw, stage, unrestored>>

AllWritten ==
    /\ stage = "write"
    /\ card = N + 1
    /\ stage' = "applied"
    /\ UNCHANGED <<selected, controls, hw, card, step, fan_changed, unrestored>>

apply ==
    \/ NothingRequested \/ Refuse \/ CheckCard \/ AllChecked
    \/ WriteRegister \/ WriteFails \/ Restore \/ RestoreFails
    \/ CardDone \/ AllWritten

=============================================================================
