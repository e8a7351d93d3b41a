-------------------------- MODULE MCBarInspection --------------------------
(***************************************************************************)
(* What is made of the two lists, checked for two GPUs: one the registry   *)
(* lists with 8 GiB, and another that is of each kind the code tells apart *)
(* or is missing, every output of nvidia-smi, and every change of the      *)
(* resources between the two.                                              *)
(***************************************************************************)
EXTENDS BarInspection

Resource(type, base, size) == [type |-> type, base |-> base, size |-> size]

\* The resources of a board: BAR0, BAR1, BAR3 and the I/O ports.
Resources(base, bar1) ==
    <<Resource("memory", base, 16), Resource("memory", 2048, bar1),
      Resource("memory", 1088, 32), Resource("io", 0, 1)>>

Board(slot, device, listed, bar1) ==
    [slot |-> slot, segment |-> 0, device |-> device, subsystem |-> 1,
     turing |-> TRUE, listed |-> listed, bridge |-> slot,
     ranges |-> Resources(1024 + 16 * slot, bar1)]

FirstBoards == {Board(1, 10, 7, bar1) : bar1 \in {256, 8192}}

Legacy == Board(2, 20, Null, 256)

\* Unlisted with any aperture; of the first model; excluded by the list; not a
\* Turing GPU; BAR0 above 4 GiB or not the first resource; in another segment, at
\* the place of the first GPU; the first descriptor, or all, unreadable.
SecondBoards ==
    {Legacy, Board(2, 20, Null, 2048), Board(2, 20, Null, 64),
     Board(2, 10, 7, 256), Board(2, 10, 7, 8192), Board(2, 30, 254, 256),
     [Legacy EXCEPT !.device = 40, !.turing = FALSE],
     [Legacy EXCEPT !.ranges = Resources(8192, 256)],
     [Legacy EXCEPT !.ranges[1].type = "otherMemory"],
     [Legacy EXCEPT !.segment = 1, !.slot = 1],
     [Legacy EXCEPT !.ranges[1].type = "unread"],
     [Legacy EXCEPT !.ranges = [i \in 1 .. 4 |-> Resource("unread", 0, 256)]]}

Computers ==
    {<<first>> : first \in FirstBoards}
        \cup {<<first, second>> : first \in FirstBoards, second \in SecondBoards}
        \cup {<<second, first>> : first \in FirstBoards, second \in SecondBoards}

Pairs == {pair \in Computers \X Computers : SameGpus(pair[1], pair[2])}

-----------------------------------------------------------------------------

HasAperture(gpus, slot, size) ==
    \E i \in DOMAIN gpus : gpus[i].slot = slot /\ gpus[i].segment = 0 /\ Bar1(gpus[i]) = size

\* A size on the page is the BAR1 of that GPU when Windows was asked and when
\* nvidia-smi was: neither a change between the two, nor another BAR that is
\* larger, nor a GPU of another segment at the same place can put another one
\* there.
ASSUME ShowsWhatWas ==
    \A pair \in Pairs : \A reading \in Readings(pair[1], pair[2]) :
        \A d \in Inspected(reading) :
            StateOf(reading, d) # "indeterminate" =>
                /\ HasAperture(pair[2], d.slot, d.size)
                /\ HasAperture(pair[1], d.slot, d.size)

\* The application saves the BAR0s the driver takes: of those with the size of
\* a PCI BAR, large enough for the straps, they disagree only about one that
\* ends at 4 GiB.
ASSUME DriverTakesWhatIsSaved ==
    \A base \in {0, 1, 2, 15, 16, 24, 1024, 2047, 4072, 4080, 4088, 4096, 8192},
       size \in {2, 4, 8, 16, 32} :
        LET bar0 == [base |-> base, size |-> size]
        IN  base + size # FourGiB =>
                (validate_dxe_bar0(bar0) <=> ValidatedGpuWindow(bar0))

\* One reading has one verdict, in the three places that judge it: when the
\* proof that completes a plan would accept it the page shows an expanded BAR;
\* when the page does, the plan accepts it for machines of Turing GPUs, and
\* the settings page takes it as evidence.
ASSUME OneVerdict ==
    \A pair \in Pairs : \A reading \in Readings(pair[1], pair[2]) :
        LET devices == reading.devices
            proven == require_resizable_bar_proof(devices, reading.report)
            expanded == build_inspection(reading).state = "expanded"
        IN  /\ proven /\ Inspected(reading) # {} => expanded
            /\ expanded => windows_reports_expanded_turing_aperture(devices)
            /\ expanded /\ Inspected(reading) = ToSet(devices) => proven

\* A size the page offers is the one the driver gives that GPU once the
\* recommended configuration is saved, that configuration names its BAR0, which
\* the driver takes, and only a GPU without a usable BAR0 can keep it from being
\* saved; what the page calls excluded the driver leaves alone.
ASSUME OfferIsWhatTheDriverDoes ==
    \A pair \in Pairs : \A reading \in Readings(pair[1], pair[2]) :
        LET devices == reading.devices
            draft == recommend_deployment_config(devices)
            size(d) == lookup_bar_size(Rules(draft), d)
            offer == build_inspection(reading).gpus
        IN  \A d \in Inspected(reading) :
                /\ offer[d] = "available" =>
                      /\ size(d) = automatic_bar_size(d) /\ size(d) <= 10
                      /\ \/ Writable(draft, devices)
                         \/ \E e \in Inspected(reading) : e.bar0 = 0 /\ e # d
                      /\ Writable(draft, devices) =>
                            \E gpu \in config_from_draft(draft, devices).gpus :
                                /\ gpu.slot = d.slot /\ gpu.bar0 = d.bar0
                                /\ ValidatedGpuWindow([base |-> gpu.bar0, size |-> 16])
                /\ offer[d] = "registryExcluded" => size(d) = EXCLUDED_SELECTOR
                /\ offer[d] = "unusableBar0" => ~ Writable(draft, devices)

=============================================================================
