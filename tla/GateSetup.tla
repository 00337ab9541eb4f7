----------------------------- MODULE GateSetup ------------------------------
(***************************************************************************)
(* The firewall unit's script: prepare-firewall.sh, and `install' of       *)
(* gate_setup.py, which it runs when there is no fingerprint yet.          *)
(*                                                                         *)
(* A command may fail, or be given up after it has taken effect; so may    *)
(* the commands of the roll-back, and the script may be killed.            *)
(***************************************************************************)
EXTENDS Naturals

CONSTANTS
    Chains,     \* UFW chains that get a rule
    MaxFaults   \* bound: failing commands, crashes, interruptions and reboots

ASSUME SetupAssumption == {Chains, MaxFaults} \subseteq Nat

VARIABLES
    port,               \* UFW: is the port of the dashboard open
    hash,               \* the fingerprint file: absent, empty, or a policy
    table, rules,       \* the gate's nft table, and its rules by chain
    step,               \* where the script is
    digest,             \* the fingerprint it has computed
    installed, tabled,  \* `installed' and `table_installed'
    cut,                \* history: a roll-back undid less than was done
    faults

setupVars == <<hash, table, rules, step, digest, installed, tabled, cut>>
madeVars == <<hash, table, rules>>
localVars == <<digest, installed, tabled>>

\* The rest of the policy does not change: a fingerprint tells the port.
Policies == {"open", "closed"}

Fault == faults < MaxFaults /\ faults' = faults + 1

Nothing == hash = "absent" /\ ~table /\ rules = {}
Everything == hash \in Policies /\ table /\ rules = 1..Chains

\* Only the rule of the first chain is looked for.
Ready_FirstChain == hash = port /\ table /\ 1 \in rules

\* firewall_ready.
Ready == hash = port /\ table /\ rules = 1..Chains

SetupInit ==
    /\ port = "closed" /\ hash = "absent" /\ table = FALSE /\ rules = {}
    /\ step = "idle" /\ digest = "closed" /\ installed = 0 /\ tabled = FALSE
    /\ cut = FALSE /\ faults = 0

-----------------------------------------------------------------------------
\* install.

Refuse ==
    /\ step = "start" /\ hash = "absent" /\ (table \/ rules # {})
    /\ step' = "failed"
    /\ UNCHANGED <<madeVars, localVars, cut, faults>>

\* UFW or Xray is not active, or nft does not answer or rejects the rules.
PreparationFails ==
    /\ step = "start" /\ Fault
    /\ step' = "failed"
    /\ UNCHANGED <<madeVars, localVars, cut>>

\* The policy is fingerprinted and found valid, and the file created.
Create ==
    /\ step = "start" /\ hash = "absent" /\ ~table /\ rules = {}
    /\ step' = "save"
    /\ hash' = "empty" /\ digest' = port
    /\ installed' = 0 /\ tabled' = FALSE
    /\ UNCHANGED <<table, rules, cut, faults>>

Save ==
    /\ step = "save"
    /\ step' = "table"
    /\ hash' = digest
    /\ UNCHANGED <<table, rules, localVars, cut, faults>>

\* `table_installed' is set after the rules.
AddTable_RecordedLater ==
    /\ step = "table"
    /\ step' = "rule"
    /\ table' = TRUE /\ UNCHANGED tabled
    /\ UNCHANGED <<hash, rules, digest, installed, cut, faults>>

AddTable ==
    /\ step = "table"
    /\ step' = "rule"
    /\ table' = TRUE /\ tabled' = TRUE
    /\ UNCHANGED <<hash, rules, digest, installed, cut, faults>>

\* One rule more than there are chains.
AddRule_OneMore ==
    /\ step = "rule" /\ installed <= Chains
    /\ rules' = rules \cup {installed + 1}
    /\ installed' = installed + 1
    /\ UNCHANGED <<hash, table, step, digest, tabled, cut, faults>>

AddRule ==
    /\ step = "rule" /\ installed < Chains
    /\ rules' = rules \cup {installed + 1}
    /\ installed' = installed + 1
    /\ UNCHANGED <<hash, table, step, digest, tabled, cut, faults>>

Installed ==
    /\ step = "rule" /\ installed = Chains
    /\ step' = "verify"
    /\ UNCHANGED <<madeVars, localVars, cut, faults>>

CommandFails ==
    /\ step \in {"save", "table"} \/ (step = "rule" /\ installed < Chains)
    /\ Fault
    /\ step' = "undo"
    /\ UNCHANGED <<madeVars, localVars, cut>>

\* The command is given up after it has taken effect: it is not recorded.
TimesOut ==
    /\ \/ /\ step = "table"
          /\ table' = TRUE /\ UNCHANGED rules
       \/ /\ step = "rule" /\ installed < Chains
          /\ rules' = rules \cup {installed + 1} /\ UNCHANGED table
    /\ Fault /\ cut' = TRUE
    /\ step' = "undo"
    /\ UNCHANGED <<hash, localVars>>

-----------------------------------------------------------------------------
\* Its roll-back.

UndoRule ==
    /\ step = "undo" /\ installed > 0
    /\ installed' = installed - 1
    /\ \/ rules' = rules \ {installed} /\ UNCHANGED <<cut, faults>>
       \/ Fault /\ cut' = TRUE /\ UNCHANGED rules
    /\ UNCHANGED <<hash, table, step, digest, tabled>>

UndoTable ==
    /\ step = "undo" /\ installed = 0 /\ tabled
    /\ tabled' = FALSE
    /\ \/ table' = FALSE /\ UNCHANGED <<cut, faults>>
       \/ Fault /\ cut' = TRUE /\ UNCHANGED table
    /\ UNCHANGED <<hash, rules, step, digest, installed>>

\* A command of the roll-back that is given up raises: the rest is skipped.
UndoTimesOut ==
    /\ step = "undo" /\ (installed > 0 \/ tabled)
    /\ Fault /\ cut' = TRUE
    /\ step' = "failed"
    /\ \/ installed > 0 /\ rules' \in {rules, rules \ {installed}} /\ UNCHANGED table
       \/ installed = 0 /\ table' \in BOOLEAN /\ UNCHANGED rules
    /\ UNCHANGED <<hash, localVars>>

Unlink ==
    /\ step = "undo" /\ installed = 0 /\ ~tabled
    /\ step' = "failed"
    /\ hash' = "absent"
    /\ UNCHANGED <<table, rules, localVars, cut, faults>>

-----------------------------------------------------------------------------
\* prepare-firewall.sh.

Reuse ==
    /\ step = "start" /\ hash # "absent"
    /\ step' = "verify"
    /\ UNCHANGED <<madeVars, localVars, cut, faults>>

Verify ==
    /\ step = "verify" /\ Ready
    /\ step' = "verified"
    /\ UNCHANGED <<madeVars, localVars, cut, faults>>

\* The gate does not match the fingerprint, or a command fails.
VerifyFails ==
    /\ step = "verify"
    /\ step' = "failed"
    /\ (~Ready /\ UNCHANGED faults) \/ Fault
    /\ UNCHANGED <<madeVars, localVars, cut>>

Installing == step \in {"save", "table", "rule", "undo"}

Killed ==
    /\ step \in {"start", "verify"} \/ Installing
    /\ Fault /\ cut' = (cut \/ Installing)
    /\ step' = "failed"
    /\ UNCHANGED <<madeVars, localVars>>

Script ==
    \/ Refuse \/ Create \/ Save \/ AddTable \/ AddRule \/ Installed
    \/ UndoRule \/ UndoTable \/ Unlink
    \/ Reuse \/ Verify \/ VerifyFails

ScriptFails ==
    PreparationFails \/ CommandFails \/ TimesOut \/ UndoTimesOut \/ Killed

-----------------------------------------------------------------------------
\* Properties.

\* Whatever command of the installation fails, and however often it is retried,
\* what a script leaves is the whole gate with its fingerprint, or nothing of
\* either, unless it was killed or could not undo what it had done: then nothing
\* more is installed until a reboot.
CleanUnlessCut == Installing \/ cut \/ Nothing \/ Everything
=============================================================================
