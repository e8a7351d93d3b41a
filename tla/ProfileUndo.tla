---------------------------- MODULE ProfileUndo ----------------------------
(***************************************************************************)
(* Resizable BAR per game: the commands that change NVIDIA's driver        *)
(* settings database, the record of the values they found, the undo, and   *)
(* the games page that sends the commands and shows what they report.      *)
(*                                                                         *)
(*   src-tauri/src/nvidia_profiles/mod.rs     the commands, the backup     *)
(*   src-tauri/src/nvidia_profiles/policy.rs  which values mean on or off  *)
(*   src-tauri/src/nvidia_profiles/undo.rs    the record and the undo      *)
(*   src/game-settings/use-game-settings.ts   the page                     *)
(*                                                                         *)
(* The commands run on threads of their own, one at a time (DRS_LOCK), in  *)
(* an order the lock chooses; each works on a session, a copy of the       *)
(* database, and a save replaces the whole database with it.  NVIDIA's own *)
(* tools do not take the lock: they may save between any two steps.  The   *)
(* application may be closed, and any driver or file call may fail.        *)
(***************************************************************************)
EXTENDS Naturals, FiniteSets

CONSTANTS Games, AllGames,
          Databases,       \* databases of a machine the app never touched
          Updates,         \* profiles and predefined values after an update
          Others,          \* values other tools set or remove: [p, id, v]
          MaxAsks,         \* bound: commands of the page
          MaxDisturbances, \* bound: updates, damages, saves of other tools
          None, Damaged

Profiles == Games \cup {AllGames}

Ids == {"app", "enable", "options", "size"}

\* The values that matter: app, enable as such; 1 and 1 GiB are what turn_on
\* writes into the other two, "other" is any other value.
Values(id) ==
    CASE id = "app"     -> {"off", "auto", "on"}
      [] id = "enable"  -> {"off", "on"}
      [] id = "options" -> {"1", "other"}
      [] id = "size"    -> {"1GiB", "other"}

AnyValue == UNION {Values(id) : id \in Ids}

Own == [Ids -> AnyValue \cup {None}]

Database == [names : SUBSET Profiles, user : [Profiles -> Own],
             nvidia : [Profiles -> Own]]

Original == [values : Own, nvidia : SUBSET Ids]

Record == [Profiles -> Original \cup {None}]

Request == [kind : {"load", "game", "all", "undo"}, target : Profiles,
            on : BOOLEAN, undo : Record \cup {None}, own : BOOLEAN]

Command == [request : Request, step : {"record", "save", "read"},
            session : Database, originals : Record \cup {None}, stale : BOOLEAN]

ASSUME ProfileAssumption ==
    /\ AllGames \notin Games /\ IsFiniteSet(Games)
    /\ Databases \cup Updates \subseteq Database
    /\ \A d \in Databases \cup Updates : AllGames \in d.names
    /\ Others \subseteq [p : Profiles, id : Ids, v : AnyValue \cup {None}]
    /\ \A o \in Others : o.v \in Values(o.id) \cup {None}
    /\ MaxAsks \in Nat /\ MaxDisturbances \in Nat
    /\ None # Damaged
    /\ None \notin AnyValue \cup Record /\ Damaged \notin Record
    /\ None \notin Original /\ None \notin Command

VARIABLES
    db,        \* the driver settings database
    version,   \* the driver: before or after 616.56
    record,    \* originals.json: None, Damaged or a record
    copies,    \* files of the backup: of which database, and whether intact
    requests,  \* commands that wait for the lock
    command,   \* the command that holds it, with its session and its step
    replies,   \* results on their way to the page
    page,      \* the games page
    asks,          \* how many commands the page sent
    disturbances,  \* how often something else happened
    current,   \* history: the page was told of all that happened since it read
    held       \* history, by profile: the values before the app's first save,
               \* whether there was one, whether what was recorded was lost

files == <<record, copies>>
work == <<requests, command, replies>>
bounds == <<asks, disturbances>>
history == <<current, held>>
vars == <<db, version, files, work, page, bounds, history>>

Unset == [id \in Ids |-> None]

Driver_Default == [id \in Ids |-> CASE id = "app" -> "auto"
                                   [] id = "enable" -> "off"
                                   [] OTHER -> None]

-----------------------------------------------------------------------------
(* policy.rs.                                                              *)

app_setting_supported == version = "new"

own(d, p, id) == d.user[p][id] # None \/ d.nvidia[p][id] # None

\* The value of a profile as the driver resolves it.
value(d, p, id) ==
    LET inherited == IF p \in Games /\ own(d, AllGames, id) THEN AllGames ELSE p
        from == IF own(d, p, id) THEN p ELSE inherited
    IN  IF d.user[from][id] # None THEN d.user[from][id]
        ELSE IF d.nvidia[from][id] # None THEN d.nvidia[from][id]
        ELSE Driver_Default[id]

\* rebar_state: the app setting decides when it is on or off.
on(d, p) ==
    LET app == value(d, p, "app")
    IN  IF app_setting_supported /\ app \in {"on", "off"} THEN app = "on"
        ELSE value(d, p, "enable") = "on"

\* What turn_on writes: options and size only where the profile has none;
\* an old driver with no size limit gets none.
turn_on(d, p) ==
    LET writes == [id \in Ids |->
            CASE id = "app" -> IF app_setting_supported THEN "on" ELSE None
              [] id = "enable" -> "on"
              [] id = "options" -> IF own(d, p, id) THEN None ELSE "1"
              [] id = "size" ->
                   IF \/ own(d, p, id)
                      \/ ~app_setting_supported /\ value(d, p, id) = None
                   THEN None ELSE "1GiB"]
    IN  [d EXCEPT !.user[p] = [id \in Ids |->
            IF writes[id] = None THEN d.user[p][id] ELSE writes[id]]]

clears(d, p) ==
    {id \in Ids : CASE id = "options" -> d.user[p][id] = "1"
                    [] id = "size" -> d.user[p][id] = "1GiB"
                    [] OTHER -> d.user[p][id] # None}

\* clear: a value over one of NVIDIA's is restored, any other is deleted; a
\* delete would drop NVIDIA's value too, and nothing brings that back.
clear(d, p) ==
    [d EXCEPT !.user[p] = [id \in Ids |->
                  IF id \in clears(d, p) THEN None ELSE d.user[p][id]]]

forced_off(d, p) ==
    [d EXCEPT !.user[p] = [id \in Ids |->
        CASE id = "app" /\ app_setting_supported -> "off"
          [] id = "enable" -> "off"
          [] OTHER -> d.user[p][id]]]

\* change, off: the values are read again after the clear.
turn_off(d, p) ==
    IF on(clear(d, p), p) THEN forced_off(clear(d, p), p) ELSE clear(d, p)

-----------------------------------------------------------------------------
(* The record.                                                             *)

NoRecord == [p \in Profiles |-> None]

Readable == record \notin {None, Damaged}

\* summary: what the page shows and sends back; None when there is nothing.
summary(r) == IF r \in {None, Damaged} THEN None ELSE r

recorded(r) == {p \in Profiles : r[p] # None}

original(d, p) ==
    [values |-> d.user[p], nvidia |-> {id \in Ids : d.nvidia[p][id] # None}]

record_Latest(d, p) ==
    IF Readable THEN [record EXCEPT ![p] = original(d, p)]
    ELSE [NoRecord EXCEPT ![p] = original(d, p)]

\* A profile's first values stay; a damaged record is moved aside.
record_of(d, p) ==
    IF Readable
    THEN IF record[p] # None THEN record ELSE [record EXCEPT ![p] = original(d, p)]
    ELSE [NoRecord EXCEPT ![p] = original(d, p)]

restorable(r, d) == {p \in recorded(r) : p \in d.names}

\* The driver has no predefined value left to restore: the undo stops.
unrestorable(r, d) ==
    \E p \in restorable(r, d) : \E id \in r[p].nvidia :
        r[p].values[id] = None /\ d.nvidia[p][id] = None

\* undo: NVIDIA's value is restored, an own value set, anything else deleted;
\* a value without one of NVIDIA's under it is all a delete can remove.
undone(r, d) ==
    [d EXCEPT !.user = [p \in Profiles |->
        IF p \in restorable(r, d) THEN r[p].values ELSE d.user[p]]]

\* The read-back of the undo.
matches(r, d, p) ==
    /\ d.user[p] = r[p].values
    /\ \A id \in r[p].nvidia :
          r[p].values[id] = None => d.nvidia[p][id] # None

Disturb ==
    /\ disturbances < MaxDisturbances /\ disturbances' = disturbances + 1

-----------------------------------------------------------------------------
(* Commands.                                                               *)

states == [p \in Profiles |-> on(db, p)]

Failed(r) == [request |-> r, ok |-> FALSE, states |-> None, undo |-> None]

\* load_catalog, or the receipt of a change, of which the page takes less.
Done(r) ==
    [request |-> r, ok |-> TRUE,
     states |-> IF r.kind = "game" THEN [p \in {r.target} |-> states[p]]
                ELSE states,
     undo |-> summary(record)]

Answer(reply) == replies' = replies \cup {reply} /\ command' = None

Lock(r) ==
    /\ command = None /\ r \in requests
    /\ requests' = requests \ {r}

Holding(step) == command # None /\ command.step = step

\* The profiles a command writes.
targets(c) ==
    IF c.request.kind = "undo" THEN recorded(c.originals) ELSE {c.request.target}

load_nvidia_game_settings(r) ==
    /\ Lock(r) /\ r.kind = "load"
    /\ \/ Answer(Done(r)) /\ current' = (current \/ r.own)
       \/ Answer(Failed(r)) /\ current' = (current /\ ~r.own)
    /\ UNCHANGED <<db, version, files, page, bounds, held>>

Intact == \E c \in copies : c.intact

ensure_backup_Latest == copies' = {[of |-> db, intact |-> TRUE]}

\* ensure_backup: one copy is enough; a new one is named by its content, and
\* a torn file of that name is never overwritten.
ensure_backup ==
    IF Intact THEN UNCHANGED copies
    ELSE /\ [of |-> db, intact |-> FALSE] \notin copies
         /\ copies' = copies \cup {[of |-> db, intact |-> TRUE]}

\* change opens a session and makes sure there is a copy of the database; a
\* game must have a profile.
change(r) ==
    /\ Lock(r) /\ r.kind \in {"game", "all"}
    /\ \/ /\ ensure_backup
          /\ r.target \in db.names
          /\ command' = [request |-> r, step |-> "record", session |-> db,
                         originals |-> None, stale |-> FALSE]
          /\ UNCHANGED replies
       \/ Answer(Failed(r)) /\ (ensure_backup \/ UNCHANGED copies)
    /\ UNCHANGED <<db, version, record, page, bounds, history>>

staged(c) ==
    LET p == c.request.target
    IN  IF c.request.on THEN turn_on(c.session, p) ELSE turn_off(c.session, p)

\* The values found are on disk before the driver changes; then the writes
\* are staged and must read as asked.
record_and_stage ==
    /\ Holding("record")
    /\ LET p == command.request.target
       IN  \/ /\ record' = record_of(command.session, p)
              /\ on(staged(command), p) = command.request.on
              /\ command' = [command EXCEPT !.step = "save",
                                            !.session = staged(command)]
              /\ UNCHANGED <<replies, current>>
           \/ /\ record' \in {record_of(command.session, p), record,
                              IF record = Damaged THEN None ELSE record}
              /\ Answer(Failed(command.request)) /\ current' = FALSE
    /\ UNCHANGED <<db, version, copies, requests, page, bounds, held>>

undo_start_AnyRevision(r) ==
    /\ Lock(r) /\ r.kind = "undo"
    /\ \/ /\ Readable /\ ~unrestorable(record, db)
          /\ command' = [request |-> r, step |-> "save", originals |-> record,
                         session |-> undone(record, db), stale |-> FALSE]
          /\ UNCHANGED replies
       \/ Answer(Failed(r))
    /\ UNCHANGED <<db, version, files, page, bounds, history>>

\* undo: only the record the page showed; the values are staged.
undo_start(r) ==
    /\ Lock(r) /\ r.kind = "undo"
    /\ \/ /\ Readable /\ r.undo = record /\ ~unrestorable(record, db)
          /\ command' = [request |-> r, step |-> "save", originals |-> record,
                         session |-> undone(record, db), stale |-> FALSE]
          /\ UNCHANGED replies
       \/ Answer(Failed(r))
    /\ UNCHANGED <<db, version, files, page, bounds, history>>

\* The driver takes the session, or takes it and keeps the old values, or
\* refuses it.
save ==
    /\ Holding("save")
    /\ \/ /\ db' = command.session
          /\ command' = [command EXCEPT !.step = "read"]
          /\ held' = [p \in Profiles |->
                IF p \in targets(command)
                THEN [held[p] EXCEPT !.changed = TRUE] ELSE held[p]]
          /\ current' = (current /\ command.request.own)
          /\ UNCHANGED replies
       \/ /\ command' = [command EXCEPT !.step = "read"]
          /\ UNCHANGED <<db, history, replies>>
       \/ /\ Answer(Failed(command.request)) /\ current' = FALSE
          /\ UNCHANGED <<db, held>>
    /\ UNCHANGED <<version, files, requests, page, bounds>>

verified(c) ==
    IF c.request.kind = "undo"
    THEN \A p \in restorable(c.originals, db) : matches(c.originals, db, p)
    ELSE c.request.target \in db.names /\ on(db, c.request.target) = c.request.on

\* A new session must read as asked, or as recorded.
read_back ==
    /\ Holding("read")
    /\ \/ /\ verified(command) /\ Answer(Done(command.request))
          /\ UNCHANGED current
       \/ Answer(Failed(command.request)) /\ current' = FALSE
    /\ UNCHANGED <<db, version, files, requests, page, bounds, held>>

-----------------------------------------------------------------------------
(* The page.                                                               *)

Closed == [state |-> "closed", states |-> None, undo |-> None]

Pending ==
    {r \in requests \cup {reply.request : reply \in replies}
                    \cup {c.request : c \in {command} \ {None}} : r.own}

Ask(kind, target, to, shown) ==
    /\ asks < MaxAsks /\ asks' = asks + 1
    /\ requests' = requests \cup {[kind |-> kind, target |-> target, on |-> to,
                                   undo |-> shown, own |-> TRUE]}

\* The page is opened, or read again after a failure.
reload ==
    /\ page.state \in {"closed", "failed"}
    /\ page' = [Closed EXCEPT !.state = "loading"]
    /\ Ask("load", AllGames, FALSE, None)
    /\ UNCHANGED <<db, version, files, command, replies, disturbances, history>>

Ready == page.state = "ready"

\* Game switches run side by side, the others wait for them.
setGame(g, to) ==
    /\ Ready
    /\ \A r \in Pending : r.kind = "game" /\ r.target # g
    /\ Ask("game", g, to, None)
    /\ UNCHANGED <<db, version, files, command, replies, page, disturbances,
                   history>>

setAllGames(to) ==
    /\ Ready /\ Pending = {}
    /\ Ask("all", AllGames, to, None)
    /\ UNCHANGED <<db, version, files, command, replies, page, disturbances,
                   history>>

confirmUndo ==
    /\ Ready /\ Pending = {} /\ page.undo # None
    /\ Ask("undo", AllGames, FALSE, page.undo)
    /\ UNCHANGED <<db, version, files, command, replies, page, disturbances,
                   history>>

\* A list that was read replaces the one shown.
apply(reply) ==
    /\ page' = IF reply.ok
               THEN [state |-> "ready", states |-> reply.states,
                     undo |-> reply.undo]
               ELSE IF Ready THEN page ELSE [Closed EXCEPT !.state = "failed"]
    /\ UNCHANGED <<requests, asks>>

\* A switch that was flipped changes its own row and the undo.
setGame_done(reply) ==
    /\ page' = IF reply.ok
               THEN [page EXCEPT !.undo = reply.undo,
                                 !.states[reply.request.target] =
                                     reply.states[reply.request.target]]
               ELSE page
    /\ UNCHANGED <<requests, asks>>

bulk_done_OwnRow(reply) ==
    /\ page' = IF reply.ok
               THEN [page EXCEPT !.undo = reply.undo,
                                 !.states[AllGames] = reply.states[AllGames]]
               ELSE page
    /\ UNCHANGED <<requests, asks>>

\* The switch for all games moves those that inherit it: the list is reloaded.
bulk_done(reply) ==
    /\ UNCHANGED page
    /\ IF reply.ok THEN Ask("load", AllGames, FALSE, None)
       ELSE UNCHANGED <<requests, asks>>

receive(reply) ==
    /\ reply \in replies /\ replies' = replies \ {reply}
    /\ \/ ~reply.request.own /\ UNCHANGED <<requests, page, asks>>
       \/ reply.request.own /\ reply.request.kind = "game" /\ setGame_done(reply)
       \/ reply.request.own /\ reply.request.kind = "all" /\ bulk_done(reply)
       \/ reply.request.own /\ reply.request.kind \in {"load", "undo"} /\ apply(reply)
    /\ UNCHANGED <<db, version, files, command, disturbances, history>>

\* The user leaves the page: its commands go on, their results are dropped.
Orphan(r) == [r EXCEPT !.own = FALSE]

leave ==
    /\ page.state # "closed"
    /\ page' = Closed
    /\ requests' = {Orphan(r) : r \in requests}
    /\ command' = IF command = None THEN None
                  ELSE [command EXCEPT !.request = Orphan(@)]
    /\ replies' = {}
    /\ UNCHANGED <<db, version, files, bounds, history>>

-----------------------------------------------------------------------------
(* What else happens.                                                      *)

\* The application ends in the middle of anything; a copy may be half
\* written then.
close ==
    /\ page # Closed \/ command # None \/ requests # {}
    /\ page' = Closed
    /\ requests' = {} /\ command' = None /\ replies' = {}
    /\ \/ UNCHANGED <<copies, disturbances>>
       \/ /\ \E r \in requests : r.kind \in {"game", "all"}
          /\ ~Intact /\ Disturb
          /\ copies' = copies \cup {[of |-> db, intact |-> FALSE]}
    /\ UNCHANGED <<db, version, record, asks, history>>

\* Another tool sets or removes one value and saves.
OtherTool(o) ==
    /\ Disturb
    /\ o.p \in db.names /\ db.user[o.p][o.id] # o.v
    /\ db' = [db EXCEPT !.user[o.p][o.id] = o.v]
    /\ held' = IF held[o.p].changed THEN held
               ELSE [held EXCEPT ![o.p].values = @ \cup {db'.user[o.p]}]
    /\ current' = FALSE
    /\ command' = IF command = None THEN None ELSE [command EXCEPT !.stale = TRUE]
    /\ UNCHANGED <<version, files, requests, replies, page, asks>>

\* A driver update brings other profiles and predefined values.
Update(to) ==
    /\ version = "old" /\ version' = "new"
    /\ command = None /\ Disturb
    /\ db' = [to EXCEPT !.user = [p \in Profiles |->
                IF p \in to.names THEN db.user[p] ELSE Unset]]
    /\ current' = FALSE
    /\ UNCHANGED <<files, work, page, asks, held>>

\* A crash of the machine or its disk leaves the record unreadable.
Damage ==
    /\ Readable /\ record' = Damaged
    /\ Disturb
    /\ held' = [p \in Profiles |-> [held[p] EXCEPT !.lost = @ \/ record[p] # None]]
    /\ current' = FALSE
    /\ UNCHANGED <<db, version, copies, work, page, asks>>

-----------------------------------------------------------------------------

Init ==
    /\ db \in Databases /\ version \in {"old", "new"}
    /\ record = None /\ copies = {}
    /\ requests = {} /\ command = None /\ replies = {}
    /\ page = Closed
    /\ asks = 0 /\ disturbances = 0
    /\ current = FALSE
    /\ held = [p \in Profiles |->
                  [values |-> {db.user[p]}, changed |-> FALSE, lost |-> FALSE]]

Commands ==
    \/ \E r \in requests :
          load_nvidia_game_settings(r) \/ change(r) \/ undo_start(r)
    \/ record_and_stage \/ save \/ read_back

Page ==
    \/ reload
    \/ \E g \in Games, to \in BOOLEAN : setGame(g, to)
    \/ \E to \in BOOLEAN : setAllGames(to)
    \/ confirmUndo
    \/ \E reply \in replies : receive(reply)
    \/ leave

Surroundings ==
    \/ close
    \/ \E o \in Others : OtherTool(o)
    \/ \E to \in Updates : Update(to)
    \/ Damage

Next == Commands \/ Page \/ Surroundings

Spec == Init /\ [][Next]_vars

-----------------------------------------------------------------------------
(* Properties.                                                             *)

TypeOK ==
    /\ db \in Database /\ version \in {"old", "new"}
    /\ record \in Record \cup {None, Damaged}
    /\ copies \subseteq [of : Database, intact : BOOLEAN]
    /\ requests \subseteq Request
    /\ command \in Command \cup {None}
    /\ \A reply \in replies : reply.request \in Request /\ reply.ok \in BOOLEAN
                                /\ reply.undo \in Record \cup {None}
    /\ page \in [state : {"closed", "loading", "ready", "failed"},
                 states : [Profiles -> BOOLEAN] \cup {None},
                 undo : Record \cup {None}]
    /\ Ready => page.states \in [Profiles -> BOOLEAN]
    /\ current \in BOOLEAN
    /\ held \in [Profiles -> [values : SUBSET Own, changed : BOOLEAN, lost : BOOLEAN]]

\* An undo that reports success leaves each profile this app ever changed,
\* and the driver still has, with values it held before the first of those
\* changes: through failed and repeated changes, crashes, and saves of other
\* tools; unless the record was damaged in between (undo.rs).
UndoPutsBack ==
    [][\A p \in Profiles :
          /\ read_back /\ command.request.kind = "undo"
          /\ \E reply \in replies' \ replies : reply.ok
          /\ held[p].changed /\ ~held[p].lost /\ p \in db.names
          => db.user[p] \in held[p].values]_vars

\* An undo touches no profile the page did not count when the user confirmed,
\* although a change may have been recorded that the page never heard of.
UndoesWhatWasShown ==
    [][save /\ command.request.kind = "undo" /\ ~command.stale =>
          \A p \in Profiles :
              command.request.undo[p] = None => db'.user[p] = db.user[p]]_vars

\* The copy of the whole database predates every change of this app, so that
\* it still has the earlier values of a profile whose record was lost
\* (mod.rs ensure_backup).
CopyHasEarlierValues ==
    \A p \in Profiles :
        held[p].changed =>
            \E c \in copies : c.intact /\ c.of.user[p] \in held[p].values

\* When nothing is running and nothing went on behind its back, the page
\* shows each game as the driver resolves it, also the games that follow the
\* switch for all of them (use-game-settings.ts).
ShowsTheDriver ==
    Ready /\ Pending = {} /\ current => page.states = states

=============================================================================
