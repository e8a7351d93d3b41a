---------------------------- MODULE SizeSelection ----------------------------
(***************************************************************************)
(* How settings become BAR sizes, in the three places that compute it.     *)
(*                                                                         *)
(*   crates/nvstraps-core/src/config.rs  the rules as the driver reads     *)
(*                                       them: lookups, the saved form     *)
(*   src-tauri/src/config.rs             draft to configuration and back,  *)
(*                                       validation, the guarded preset    *)
(*   src/guided/bar-settings-model.ts    the settings page's own reading   *)
(*                                       of a draft, and its edits         *)
(*                                                                         *)
(* A GPU is told by its device and subsystem identifiers and its slot; the *)
(* three flags that no lookup here depends on travel as one value,         *)
(* `options`.  Sizes are selectors: 254 leaves the GPU alone, 255 is "no   *)
(* size" in a saved selector and Null in a rule.                           *)
(***************************************************************************)
EXTENDS Integers, Sequences, FiniteSets, SequencesExt

Null == -1
EXCLUDED_SELECTOR == 254
BAR_SIZE_NONE == 255
Wild == 255                  \* u16::MAX and u8::MAX in a selector
MaxRules == 8                \* MAX_GPU_COUNT

DEFAULT_DRAFT == [mode |-> 0, target |-> 0, options |-> "default", rules |-> <<>>]

-----------------------------------------------------------------------------
(* The driver's side. *)

\* selector_from_rule.
selector_from_rule(rule) ==
    [device |-> rule.device,
     subsystem |-> IF rule.scope = "device" THEN Wild ELSE rule.subsystem,
     slot |-> IF rule.scope = "location" THEN rule.slot ELSE Wild,
     size |-> IF rule.size = Null THEN BAR_SIZE_NONE ELSE rule.size,
     mask |-> CASE rule.mask = "none" -> 0
                [] rule.mask = "allow" -> 1
                [] rule.mask = "listed" -> 255]

\* rule_from_selector.
rule_from_selector(selector) ==
    [scope |-> IF selector.slot # Wild THEN "location"
               ELSE IF selector.subsystem # Wild THEN "subsystem" ELSE "device",
     device |-> selector.device,
     subsystem |-> selector.subsystem,
     slot |-> selector.slot,
     size |-> IF selector.size = BAR_SIZE_NONE THEN Null ELSE selector.size,
     mask |-> CASE selector.mask = 0 -> "none"
                [] selector.mask = 255 -> "listed"
                [] OTHER -> "allow"]

Matches(selector, gpu) ==
    /\ selector.device = gpu.device
    /\ selector.subsystem \in {Wild, gpu.subsystem}
    /\ selector.subsystem # Wild => selector.slot \in {Wild, gpu.slot}

\* ConfigPriority: device, subsystem and location rules.
Priority(selector) ==
    IF selector.subsystem = Wild THEN 3 ELSE IF selector.slot = Wild THEN 4 ELSE 5

\* The loop of both lookups: the first location rule decides at once, otherwise
\* the last subsystem rule, otherwise the last device rule.
scan(selectors, gpu, field, nothing) ==
    LET consider(result, s) ==
            IF /\ Matches(s, gpu) /\ s[field] # nothing
               /\ result.priority < 5
               /\ Priority(s) = 3 => result.priority < 4
            THEN [priority |-> Priority(s), value |-> s[field]]
            ELSE result
    IN  FoldLeft(consider, [priority |-> 0, value |-> nothing], selectors)

\* Config::lookup_bar_size.
lookup_bar_size(config, gpu) ==
    LET rule == scan(config.selectors, gpu, "size", BAR_SIZE_NONE)
    IN  IF rule.priority > 0 THEN rule.value
        ELSE IF config.mode = 0 THEN Null
        ELSE IF gpu.listed # Null THEN gpu.listed
        ELSE IF config.mode > 1 /\ gpu.turing THEN 5
        ELSE Null

\* Config::lookup_bar_size_mask_override, up to the global flag.
lookup_bar_size_mask_override(config, gpu) ==
    LET rule == scan(config.selectors, gpu, "mask", 0)
    IN  CASE rule.priority = 0 -> "global"
          [] rule.priority > 0 /\ rule.value = 255 -> "listed"
          [] OTHER -> "allow"

\* is_driver_configured.
is_driver_configured(config) ==
    config.target # 0 \/ config.mode # 0 \/ config.selectors # <<>>

-----------------------------------------------------------------------------
(* The application's side. *)

MatchesRule(rule, gpu) == Matches(selector_from_rule(rule), gpu)

\* same_rule_identity.
same_rule_identity(left, right) ==
    LET identity(rule) == LET s == selector_from_rule(rule)
                          IN  <<rule.scope, s.device, s.subsystem, s.slot>>
    IN  identity(left) = identity(right)

\* validate_draft.
validate_draft(draft, devices) ==
    /\ draft.mode \in 0 .. 2
    /\ Len(draft.rules) <= MaxRules
    /\ \A i \in DOMAIN draft.rules :
          LET rule == draft.rules[i] IN
          /\ rule.size # Null \/ rule.mask # "none"
          /\ ~ \E j \in 1 .. i - 1 : same_rule_identity(draft.rules[j], rule)
          /\ \E k \in DOMAIN devices : MatchesRule(rule, devices[k])

\* config_from_draft without the hardware records.
Rules(draft) ==
    [mode |-> draft.mode, target |-> draft.target, options |-> draft.options,
     selectors |-> [i \in DOMAIN draft.rules |-> selector_from_rule(draft.rules[i])],
     gpus |-> {}]

\* draft_from_config.
draft_from_config(config) ==
    [mode |-> config.mode, target |-> config.target, options |-> config.options,
     rules |-> [i \in DOMAIN config.selectors |->
                    rule_from_selector(config.selectors[i])]]

Sized(config, devices) ==
    {devices[i] : i \in {j \in DOMAIN devices :
        lookup_bar_size(config, devices[j]) \notin {Null, EXCLUDED_SELECTOR}}}

\* populate_hardware: the BAR0 and the bridge of every GPU that gets a size.
populate_hardware(config, devices) ==
    [config EXCEPT !.gpus =
        {[slot |-> g.slot, bar0 |-> g.bar0, bridge |-> g.bridge] :
            g \in Sized(config, devices)}]

\* config_from_draft succeeds: the draft is valid and no GPU that gets a size
\* lacks a usable BAR0 (validate_dxe_bar0; 0 stands for none).
Writable(draft, devices) ==
    /\ validate_draft(draft, devices)
    /\ \A g \in Sized(Rules(draft), devices) : g.bar0 # 0

config_from_draft(draft, devices) == populate_hardware(Rules(draft), devices)

\* ruleForGpu, and the rule of the preset.
location_rule(gpu, size) ==
    [scope |-> "location", device |-> gpu.device, subsystem |-> gpu.subsystem,
     slot |-> gpu.slot, size |-> size, mask |-> "none"]

\* recommend_deployment_config: the list, and a location rule for every Turing
\* GPU the list does not name.
Turing(devices) == SelectSeq(devices, LAMBDA g : g.turing)

recommend_deployment_config(devices) ==
    LET unlisted == SortSeq(SelectSeq(devices, LAMBDA g : g.turing /\ g.listed = Null),
                            LAMBDA a, b : a.slot < b.slot)
    IN  [DEFAULT_DRAFT EXCEPT
            !.mode = 1,
            !.rules = [i \in DOMAIN unlisted |-> location_rule(unlisted[i], 5)]]

-----------------------------------------------------------------------------
(* The page's side. *)

\* ruleMatchesGpu.
ruleMatchesGpu(rule, gpu) ==
    /\ rule.device = gpu.device
    /\ \/ rule.scope = "device"
       \/ /\ rule.subsystem = gpu.subsystem
          /\ rule.scope = "subsystem" \/ rule.slot = gpu.slot

\* byPrecedence; a record without size or mask when no rule is left.
byPrecedence(rules) ==
    LET of(scope) == SelectSeq(rules, LAMBDA r : r.scope = scope)
    IN  IF of("location") # <<>> THEN of("location")[1]
        ELSE IF of("subsystem") # <<>> THEN Last(of("subsystem"))
        ELSE IF of("device") # <<>> THEN Last(of("device"))
        ELSE [size |-> Null, mask |-> "none"]

\* gpuChoice: the size of decidingRule, Null for "auto".
gpuChoice(draft, gpu) ==
    byPrecedence(SelectSeq(draft.rules,
        LAMBDA r : r.size # Null /\ ruleMatchesGpu(r, gpu))).size

automaticSelector(draft, gpu) ==
    IF draft.mode = 0 THEN Null
    ELSE IF gpu.listed # Null THEN gpu.listed
    ELSE IF draft.mode = 2 /\ gpu.turing THEN 5 ELSE Null

\* Faulty variant: what the list says counts with the mode off.
Shown_Listed(draft, gpu) ==
    LET size == gpuChoice(draft, gpu)
    IN  IF size # Null THEN size
        ELSE IF gpu.listed # Null THEN gpu.listed ELSE EXCLUDED_SELECTOR

\* resolvedText: the size shown, 254 for a GPU that is left alone.
Shown(draft, gpu) ==
    LET size == gpuChoice(draft, gpu)
        automatic == automaticSelector(draft, gpu)
    IN  IF size # Null THEN size
        ELSE IF automatic = Null THEN EXCLUDED_SELECTOR ELSE automatic

withLocationSelector(draft, gpu, size) ==
    LET mine == {i \in DOMAIN draft.rules :
                    draft.rules[i].scope = "location" /\ ruleMatchesGpu(draft.rules[i], gpu)}
        first == CHOOSE i \in mine : \A j \in mine : i <= j
    IN  IF mine # {} THEN [draft EXCEPT !.rules[first].size = size]
        ELSE [draft EXCEPT !.rules = Append(@, location_rule(gpu, size))]

\* Faulty variant: the other GPUs a cleared rule sized are forgotten.
applyAuto_Alone(draft, gpu, devices) ==
    LET clears(r) == r.size # Null /\ ruleMatchesGpu(r, gpu)
        kept == SelectSeq(draft.rules, LAMBDA r : ~(clears(r) /\ r.mask = "none"))
    IN  [draft EXCEPT !.rules =
            [i \in DOMAIN kept |-> IF clears(kept[i])
                                   THEN [kept[i] EXCEPT !.size = Null] ELSE kept[i]]]

\* applyGpuChoice "auto": every size rule of the GPU goes, and another GPU that
\* loses its size by that gets a location rule of its own.
applyAuto(draft, gpu, devices) ==
    LET clears(r) == r.size # Null /\ ruleMatchesGpu(r, gpu)
        kept == SelectSeq(draft.rules, LAMBDA r : ~(clears(r) /\ r.mask = "none"))
        cleared == [draft EXCEPT !.rules =
            [i \in DOMAIN kept |-> IF clears(kept[i])
                                   THEN [kept[i] EXCEPT !.size = Null] ELSE kept[i]]]
        keep(next, other) ==
            LET before == gpuChoice(draft, other) IN
            IF other # gpu /\ before # Null /\ gpuChoice(next, other) # before
            THEN withLocationSelector(next, other, before) ELSE next
    IN  FoldLeft(keep, cleared, devices)

\* applyGpuChoice.
applyGpuChoice(draft, gpu, choice, devices) ==
    IF choice = Null THEN applyAuto(draft, gpu, devices)
    ELSE withLocationSelector(draft, gpu, choice)

Expands(rule) == rule.size # Null /\ rule.size < EXCLUDED_SELECTOR

expansionOn(draft) ==
    \/ draft.mode # 0 \/ draft.target # 0
    \/ \E i \in DOMAIN draft.rules : Expands(draft.rules[i])

\* The draft with the parts of another that the expansion switch is about.
WithExpansionOf(draft, state) ==
    [state EXCEPT !.options = draft.options]

\* withExpansion; restore is a draft or NoRestore.
withExpansion(draft, on, restore, NoRestore, baseline) ==
    IF ~on THEN WithExpansionOf(draft, IF expansionOn(baseline) THEN DEFAULT_DRAFT
                                       ELSE baseline)
    ELSE IF restore # NoRestore /\ expansionOn(restore) THEN WithExpansionOf(draft, restore)
    ELSE [draft EXCEPT !.mode = 2]

hasOperationalConfiguration(draft) ==
    draft.mode # 0 \/ draft.target # 0 \/ draft.rules # <<>>

\* otherRules: the indices of the rules that match none of the devices.
otherRules(draft, devices) ==
    {i \in DOMAIN draft.rules :
        ~ \E k \in DOMAIN devices : ruleMatchesGpu(draft.rules[i], devices[k])}

=============================================================================
