------------------------- MODULE ProfileUndoProofs --------------------------
(***************************************************************************)
(* Proofs about ProfileUndo, for every set of games and every database a   *)
(* machine may have: what the undo puts back, what the copy keeps, and     *)
(* that the games page shows what the driver resolves.                     *)
(***************************************************************************)
EXTENDS ProfileUndo, TLAPS

\* The profiles the driver has or may still get: an update drops some for good
\* and may bring others.
Had == IF version = "old" THEN Profiles ELSE db.names

NamesInv ==
    command # None =>
       /\ command.session.names = db.names
       /\ command.request.kind # "undo" => command.request.target \in db.names

\* What the driver has for a profile this app never changed is one of the
\* values held, and so is what a session has that was opened meanwhile.
HeldInv ==
    /\ \A p \in Had : ~held[p].changed => db.user[p] \in held[p].values
    /\ command # None /\ command.step # "read" =>
          \A p \in Had :
              ~held[p].changed /\ (command.step = "record" \/ p \notin targets(command))
                  => command.session.user[p] \in held[p].values

\* There is an intact copy with values from before the first change.
Copied(p) == \E c \in copies : c.intact /\ c.of.user[p] \in held[p].values

CopyInv ==
    /\ \A c \in copies : c.intact => \A p \in Had : c.of.user[p] \in held[p].values
    /\ \A p \in Profiles : held[p].changed => Copied(p)
    /\ Readable => \A p \in recorded(record) : Copied(p)
    /\ command # None => \A p \in targets(command) : Copied(p)

\* What was changed is recorded, with a value from before the first change,
\* unless a record of it was lost.
RecordInv ==
    /\ \A p \in Profiles : held[p].changed /\ ~held[p].lost => Readable /\ record[p] # None
    /\ Readable =>
          \A p \in Profiles : record[p] # None /\ ~held[p].lost
                                  => record[p].values \in held[p].values

\* The command that holds the lock: its values are recorded before its save,
\* and an undo works on the record it started with.
CommandInv ==
    command # None =>
        IF command.request.kind = "undo"
        THEN /\ command.step # "record"
             /\ command.originals \in Record /\ command.request.undo = command.originals
             /\ \/ record = command.originals
                \/ record = Damaged /\ \A p \in recorded(command.originals) : held[p].lost
             /\ command.step = "save" /\ ~command.stale
                    => command.session = undone(command.originals, db)
        ELSE /\ command.request.kind \in {"game", "all"}
             /\ command.step # "record" =>
                  \/ held[command.request.target].lost
                  \/ Readable /\ record[command.request.target] # None

DataInv == NamesInv /\ HeldInv /\ CopyInv /\ RecordInv /\ CommandInv

-----------------------------------------------------------------------------

Waiting == {r \in requests : r.own}
Running == {r \in {c.request : c \in {command} \ {None}} : r.own}
Answered == {r \in {reply.request : reply \in replies} : r.own}

\* The page waits for one command, or for switches of several games.
PendingInv ==
    /\ \A r, s \in Pending : r.target = s.target => r = s
    /\ \A r, s \in Pending : r.kind # "game" => s = r
    /\ \A r \in Pending : IF r.kind = "game" THEN r.target \in Games ELSE r.target = AllGames
    /\ Waiting \cap Running = {} /\ Waiting \cap Answered = {} /\ Running \cap Answered = {}
    /\ \A x, y \in replies : x.request = y.request /\ x.request.own => x = y
    /\ page.state \in {"closed", "failed"} => Pending = {}
    /\ page.state = "loading" => \A r \in Pending : r.kind = "load"

Covers(r, p) == r.kind = "game" => r.target = p

\* A row that is not what the driver resolves will be told.
ToBeTold(p) ==
    \/ \E reply \in replies : reply.request.own /\ reply.ok /\ Covers(reply.request, p)
    \/ command # None /\ command.request.own /\ command.step = "read"
         /\ Covers(command.request, p)
    \/ \E r \in requests : r.own /\ r.kind = "load"

\* The rows a reply tells of.
Rows(r) == IF r.kind = "game" THEN {r.target} ELSE Profiles

\* What a reply says of a profile is what the driver resolves.
Told ==
    \A reply \in replies : reply.request.own /\ reply.ok =>
        /\ reply.states \in [Rows(reply.request) -> BOOLEAN]
        /\ current => \A p \in DOMAIN reply.states : reply.states[p] = on(db, p)

\* The session differs from the database in the profile of the switch only.
Fresh ==
    command # None /\ current =>
        /\ command.step = "record" => command.session = db
        /\ command.step = "save" /\ command.request.kind = "game" =>
              /\ command.session.nvidia = db.nvidia
              /\ \A p \in Profiles \ {command.request.target} :
                    command.session.user[p] = db.user[p]

\* The page shows what the driver resolves, or will be told.
Promised ==
    Ready /\ current => \A p \in Profiles : page.states[p] = on(db, p) \/ ToBeTold(p)

ScreenInv == PendingInv /\ Told /\ Fresh /\ Promised

IInv == TypeOK /\ DataInv /\ ScreenInv


-----------------------------------------------------------------------------
(* Types.                                                                  *)

LEMMA Nothings ==
    /\ None \notin Record /\ None # Damaged /\ Damaged \notin Record
    /\ None \notin Original /\ None \notin Command
    /\ AllGames \in Profiles /\ Games \subseteq Profiles /\ AllGames \notin Games
BY ProfileAssumption DEF Profiles

LEMMA SomeValues == {"on", "off", "1", "1GiB"} \subseteq AnyValue
<1>1. "on" \in Values("app") /\ "off" \in Values("app")
  BY DEF Values
<1>2. "1" \in Values("options") /\ "1GiB" \in Values("size")
  BY DEF Values
<1>3. \A id \in Ids : Values(id) \subseteq AnyValue
  BY DEF AnyValue
<1> QED
  BY <1>1, <1>2, <1>3 DEF Ids

\* e is d with other values for the profile p.
Differs(d, e, p) ==
    /\ e \in Database /\ e.names = d.names /\ e.nvidia = d.nvidia
    /\ \A q \in Profiles \ {p} : e.user[q] = d.user[q]

LEMMA NewValues ==
    ASSUME NEW d \in Database, NEW p \in Profiles, NEW values \in Own
    PROVE  Differs(d, [d EXCEPT !.user[p] = values], p)
BY DEF Differs, Database

LEMMA TurnedOn ==
    ASSUME NEW d \in Database, NEW p \in Profiles
    PROVE  Differs(d, turn_on(d, p), p)
<1> DEFINE writes == [id \in Ids |->
            CASE id = "app" -> IF app_setting_supported THEN "on" ELSE None
              [] id = "enable" -> "on"
              [] id = "options" -> IF own(d, p, id) THEN None ELSE "1"
              [] id = "size" ->
                   IF \/ own(d, p, id)
                      \/ ~app_setting_supported /\ value(d, p, id) = None
                   THEN None ELSE "1GiB"]
           values == [id \in Ids |->
                         IF writes[id] = None THEN d.user[p][id] ELSE writes[id]]
<1>1. \A id \in Ids : writes[id] \in AnyValue \cup {None}
  BY SomeValues DEF Ids
<1>2. d.user[p] \in Own
  BY DEF Database
<1>3. values \in Own
  BY <1>1, <1>2 DEF Own
<1>4. turn_on(d, p) = [d EXCEPT !.user[p] = values]
  BY DEF turn_on
<1> QED
  BY <1>3, <1>4, NewValues

LEMMA Cleared ==
    ASSUME NEW d \in Database, NEW p \in Profiles
    PROVE  Differs(d, clear(d, p), p)
<1> DEFINE values == [id \in Ids |-> IF id \in clears(d, p) THEN None ELSE d.user[p][id]]
<1>1. d.user[p] \in Own
  BY DEF Database
<1>2. values \in Own
  BY <1>1 DEF Own
<1> QED
  BY <1>2, NewValues DEF clear

LEMMA ForcedOff ==
    ASSUME NEW d \in Database, NEW p \in Profiles
    PROVE  Differs(d, forced_off(d, p), p)
<1> DEFINE values == [id \in Ids |->
                         CASE id = "app" /\ app_setting_supported -> "off"
                           [] id = "enable" -> "off"
                           [] OTHER -> d.user[p][id]]
<1>1. d.user[p] \in Own
  BY DEF Database
<1>2. \A id \in Ids : values[id] \in AnyValue \cup {None}
  BY <1>1, SomeValues DEF Own
<1>3. values \in Own
  BY <1>2 DEF Own
<1> QED
  BY <1>3, NewValues DEF forced_off

\* A switch changes the values of its own profile only.
LEMMA StagedDiffers ==
    ASSUME NEW c \in Command
    PROVE  Differs(c.session, staged(c), c.request.target)
<1> DEFINE d == c.session
           p == c.request.target
<1>1. d \in Database /\ p \in Profiles
  BY DEF Command, Request
<1>2. CASE c.request.on
  BY <1>1, <1>2, TurnedOn DEF staged
<1>3. CASE ~ c.request.on /\ ~ on(clear(d, p), p)
  BY <1>1, <1>3, Cleared DEF staged, turn_off
<1>4. CASE ~ c.request.on /\ on(clear(d, p), p)
  <2>1. Differs(d, clear(d, p), p)
    BY <1>1, Cleared
  <2>2. Differs(clear(d, p), forced_off(clear(d, p), p), p)
    BY <1>1, <2>1, ForcedOff DEF Differs
  <2>3. staged(c) = forced_off(clear(d, p), p)
    BY <1>4 DEF staged, turn_off
  <2> QED
    BY <2>1, <2>2, <2>3 DEF Differs
<1> QED
  BY <1>2, <1>3, <1>4

\* The undo changes the values of the recorded profiles only.
LEMMA UndoneDiffers ==
    ASSUME NEW r \in Record, NEW d \in Database
    PROVE  /\ undone(r, d) \in Database
           /\ undone(r, d).names = d.names /\ undone(r, d).nvidia = d.nvidia
           /\ \A p \in Profiles \ recorded(r) : undone(r, d).user[p] = d.user[p]
<1> DEFINE user == [p \in Profiles |-> IF p \in restorable(r, d) THEN r[p].values ELSE d.user[p]]
<1>1. \A p \in restorable(r, d) : p \in recorded(r) /\ r[p].values \in Own
  BY DEF restorable, recorded, Record, Original
<1>2. user \in [Profiles -> Own]
  BY <1>1 DEF Database
<1>3. \A p \in Profiles \ recorded(r) : user[p] = d.user[p]
  BY <1>1
<1>4. undone(r, d) = [d EXCEPT !.user = user]
  BY DEF undone
<1> HIDE DEF user
<1> QED
  BY <1>2, <1>3, <1>4 DEF Database

LEMMA Recorded ==
    ASSUME NEW d \in Database, NEW p \in Profiles, record \in Record \cup {None, Damaged}
    PROVE  /\ record_of(d, p) \in Record
           /\ record_of(d, p)[p] # None
           /\ \A q \in Profiles \ {p} :
                 record_of(d, p)[q] = IF Readable THEN record[q] ELSE None
           /\ IF Readable /\ record[p] # None THEN record_of(d, p)[p] = record[p]
              ELSE record_of(d, p)[p].values = d.user[p]
<1>1. original(d, p) \in Original /\ original(d, p).values = d.user[p]
  BY DEF original, Original, Database
<1>2. original(d, p) # None
  BY <1>1, Nothings
<1>3. Readable => record \in Record
  BY DEF Readable
<1>4. NoRecord \in Record /\ \A q \in Profiles : NoRecord[q] = None
  BY DEF NoRecord, Record
<1> QED
  BY <1>1, <1>2, <1>3, <1>4 DEF record_of, Record

LEMMA TypeInit == Init => TypeOK
<1> SUFFICES ASSUME Init PROVE TypeOK
  OBVIOUS
<1>1. db \in Database
  BY ProfileAssumption DEF Init
<1>2. held \in [Profiles -> [values : SUBSET Own, changed : BOOLEAN, lost : BOOLEAN]]
  BY <1>1 DEF Init, Database
<1> QED
  BY <1>1, <1>2 DEF Init, TypeOK, Closed, Ready

LEMMA AnswerTyped ==
    ASSUME TypeOK, NEW r \in Request, Answer(Done(r)) \/ Answer(Failed(r))
    PROVE  /\ command' = None
           /\ \A reply \in replies' : reply.request \in Request /\ reply.ok \in BOOLEAN
                                       /\ reply.undo \in Record \cup {None}
<1>1. summary(record) \in Record \cup {None}
  BY DEF summary, TypeOK
<1>2. Done(r).request = r /\ Done(r).ok = TRUE /\ Done(r).undo = summary(record)
  BY DEF Done
<1>3. Failed(r).request = r /\ Failed(r).ok = FALSE /\ Failed(r).undo = None
  BY DEF Failed
<1> QED
  BY <1>1, <1>2, <1>3 DEF Answer, TypeOK

LEMMA AskTyped ==
    ASSUME TypeOK, NEW kind \in {"load", "game", "all", "undo"}, NEW target \in Profiles,
           NEW to \in BOOLEAN, NEW shown \in Record \cup {None},
           Ask(kind, target, to, shown)
    PROVE  requests' \subseteq Request
<1>1. [kind |-> kind, target |-> target, on |-> to, undo |-> shown, own |-> TRUE] \in Request
  BY DEF Request
<1> QED
  BY <1>1 DEF Ask, TypeOK

LEMMA CommandsTyped ==
    ASSUME TypeOK, Commands
    PROVE  TypeOK'
<1>1. ASSUME NEW r \in requests, load_nvidia_game_settings(r)
      PROVE  TypeOK'
  <2>1. r \in Request /\ requests' \subseteq Request
    BY <1>1 DEF load_nvidia_game_settings, Lock, TypeOK
  <2>2. Answer(Done(r)) \/ Answer(Failed(r))
    BY <1>1 DEF load_nvidia_game_settings
  <2>3. current' \in BOOLEAN
    BY <1>1, <2>1 DEF load_nvidia_game_settings, TypeOK, Request
  <2> QED
    BY <1>1, <2>1, <2>2, <2>3, AnswerTyped
       DEF load_nvidia_game_settings, TypeOK, files, bounds, Ready
<1>2. ASSUME NEW r \in requests, change(r)
      PROVE  TypeOK'
  <2>1. r \in Request /\ requests' \subseteq Request
    BY <1>2 DEF change, Lock, TypeOK
  <2>2. copies' \subseteq [of : Database, intact : BOOLEAN]
    <3>1. [of |-> db, intact |-> TRUE] \in [of : Database, intact : BOOLEAN]
      BY DEF TypeOK
    <3> QED
      BY <1>2, <3>1 DEF change, ensure_backup, TypeOK
  <2>3. UNCHANGED <<db, version, record, page, current, held>>
    BY <1>2 DEF change, bounds, history
  <2>4. CASE Answer(Failed(r))
    BY <2>1, <2>2, <2>3, <2>4, AnswerTyped DEF TypeOK, Ready
  <2>5. CASE /\ command' = [request |-> r, step |-> "record", session |-> db,
                            originals |-> None, stale |-> FALSE]
             /\ UNCHANGED replies
    <3>1. command' \in Command
      BY <2>1, <2>5 DEF Command, TypeOK
    <3> QED
      BY <2>1, <2>2, <2>3, <2>5, <3>1 DEF TypeOK, Ready
  <2> QED
    BY <1>2, <2>4, <2>5 DEF change
<1>3. ASSUME NEW r \in requests, undo_start(r)
      PROVE  TypeOK'
  <2>1. r \in Request /\ requests' \subseteq Request
    BY <1>3 DEF undo_start, Lock, TypeOK
  <2>2. UNCHANGED <<db, version, record, copies, page, current, held>>
    BY <1>3 DEF undo_start, bounds, history, files
  <2>3. CASE Answer(Failed(r))
    BY <2>1, <2>2, <2>3, AnswerTyped DEF TypeOK, Ready
  <2>4. CASE /\ Readable
             /\ command' = [request |-> r, step |-> "save", originals |-> record,
                            session |-> undone(record, db), stale |-> FALSE]
             /\ UNCHANGED replies
    <3>1. record \in Record /\ db \in Database
      BY <2>4 DEF TypeOK, Readable
    <3>2. undone(record, db) \in Database
      BY <3>1, UndoneDiffers
    <3>3. command' \in Command
      BY <2>1, <2>4, <3>1, <3>2 DEF Command
    <3> QED
      BY <2>1, <2>2, <2>4, <3>3 DEF TypeOK, Ready
  <2> QED
    BY <1>3, <2>3, <2>4 DEF undo_start
<1>4. CASE record_and_stage
  <2>1. command \in Command
    BY <1>4 DEF record_and_stage, Holding, TypeOK
  <2>2. /\ command.session \in Database /\ command.request \in Request
        /\ command.request.target \in Profiles
    BY <2>1 DEF Command, Request
  <2>3. record' \in Record \cup {None, Damaged}
    BY <1>4, <2>2, Recorded DEF record_and_stage, TypeOK
  <2>4. UNCHANGED <<db, version, copies, requests, page, held>>
    BY <1>4 DEF record_and_stage, bounds
  <2>5. CASE Answer(Failed(command.request)) /\ current' = FALSE
    BY <2>2, <2>3, <2>4, <2>5, AnswerTyped DEF TypeOK, Ready
  <2>6. CASE /\ command' = [command EXCEPT !.step = "save", !.session = staged(command)]
             /\ UNCHANGED <<replies, current>>
    <3>1. staged(command) \in Database
      BY <2>1, StagedDiffers DEF Differs
    <3>2. command' \in Command
      BY <2>1, <2>6, <3>1 DEF Command
    <3> QED
      BY <2>3, <2>4, <2>6, <3>2 DEF TypeOK, Ready
  <2> QED
    BY <1>4, <2>5, <2>6 DEF record_and_stage
<1>5. CASE save
  <2>1. command \in Command
    BY <1>5 DEF save, Holding, TypeOK
  <2>2. command.session \in Database /\ command.request \in Request
    BY <2>1 DEF Command
  <2>3. UNCHANGED <<version, record, copies, requests, page>>
    BY <1>5 DEF save, files, bounds
  <2>4. db' \in Database
    BY <1>5, <2>2 DEF save, TypeOK
  <2>5. held' \in [Profiles -> [values : SUBSET Own, changed : BOOLEAN, lost : BOOLEAN]]
    <3>1. \A p \in Profiles : [held[p] EXCEPT !.changed = TRUE]
                                \in [values : SUBSET Own, changed : BOOLEAN, lost : BOOLEAN]
      BY DEF TypeOK
    <3> QED
      BY <1>5, <3>1 DEF save, TypeOK, history
  <2>6. current' \in BOOLEAN
    BY <1>5, <2>2 DEF save, TypeOK, history, Request
  <2>7. CASE Answer(Failed(command.request))
    BY <2>2, <2>3, <2>4, <2>5, <2>6, <2>7, AnswerTyped DEF TypeOK, Ready
  <2>8. CASE command' = [command EXCEPT !.step = "read"] /\ UNCHANGED replies
    <3>1. command' \in Command
      BY <2>1, <2>8 DEF Command
    <3> QED
      BY <2>3, <2>4, <2>5, <2>6, <2>8, <3>1 DEF TypeOK, Ready
  <2> QED
    BY <1>5, <2>7, <2>8 DEF save
<1>6. CASE read_back
  <2>1. command.request \in Request
    BY <1>6 DEF read_back, Holding, TypeOK, Command
  <2>2. UNCHANGED <<db, version, record, copies, requests, page, held>>
    BY <1>6 DEF read_back, files, bounds
  <2>3. current' \in BOOLEAN
    BY <1>6 DEF read_back, TypeOK
  <2>4. Answer(Done(command.request)) \/ Answer(Failed(command.request))
    BY <1>6 DEF read_back
  <2> QED
    BY <2>1, <2>2, <2>3, <2>4, AnswerTyped DEF TypeOK, Ready
<1> QED
  BY <1>1, <1>2, <1>3, <1>4, <1>5, <1>6 DEF Commands

LEMMA OrphanTyped == \A r \in Request : Orphan(r) \in Request
BY DEF Orphan, Request

LEMMA PageTyped ==
    ASSUME TypeOK, PendingInv, Told, Page
    PROVE  TypeOK'
<1>1. UNCHANGED <<db, version, record, copies, current, held>>
  BY DEF Page, reload, setGame, setAllGames, confirmUndo, receive, leave, files, history
<1>2. CASE reload
  BY <1>1, <1>2, AskTyped, Nothings DEF reload, TypeOK, Closed, Ready
<1>3. CASE (\E g \in Games, to \in BOOLEAN : setGame(g, to)) \/ (\E to \in BOOLEAN : setAllGames(to))
  BY <1>1, <1>3, AskTyped, Nothings DEF setGame, setAllGames, TypeOK, Ready
<1>4. CASE confirmUndo
  <2>1. page.undo \in Record \cup {None}
    BY DEF TypeOK
  <2> QED
    BY <1>1, <1>4, <2>1, AskTyped, Nothings DEF confirmUndo, TypeOK, Ready
<1>5. ASSUME NEW reply \in replies, receive(reply)
      PROVE  TypeOK'
  <2>1. reply.request \in Request /\ reply.undo \in Record \cup {None}
    BY DEF TypeOK
  <2>2. requests' \subseteq Request
    BY <1>5, AskTyped, Nothings
       DEF receive, setGame_done, bulk_done, apply, TypeOK
  <2>3. reply.request.own /\ reply.ok => reply.states \in [Rows(reply.request) -> BOOLEAN]
    BY DEF Told
  <2>4. /\ page' \in [state : {"closed", "loading", "ready", "failed"},
                      states : [Profiles -> BOOLEAN] \cup {None},
                      undo : Record \cup {None}]
        /\ Ready' => page'.states \in [Profiles -> BOOLEAN]
    <3>1. CASE UNCHANGED page
      BY <3>1 DEF TypeOK, Ready
    <3>2. CASE reply.request.own /\ reply.request.kind = "game" /\ setGame_done(reply)
      <4>1. reply.ok => reply.states[reply.request.target] \in BOOLEAN
        BY <2>3, <3>2 DEF Rows
      <4>2. CASE ~ reply.ok
        BY <3>2, <4>2 DEF setGame_done, TypeOK, Ready
      <4>3. CASE reply.ok
        <5>1. /\ page'.state = page.state /\ page'.undo = reply.undo
              /\ page'.states = [page.states EXCEPT ![reply.request.target] =
                                    reply.states[reply.request.target]]
              /\ page' = [state |-> page'.state, states |-> page'.states,
                          undo |-> page'.undo]
          BY <3>2, <4>3 DEF setGame_done, TypeOK
        <5>2. page.states \in [Profiles -> BOOLEAN]
                 => page'.states \in [Profiles -> BOOLEAN]
          BY <4>1, <4>3, <5>1
        <5>3. reply.request \in Pending
          BY <3>2 DEF Pending
        <5>4. Ready
          BY <3>2, <5>3 DEF PendingInv, TypeOK, Ready
        <5>5. page.states \in [Profiles -> BOOLEAN]
          BY <5>4 DEF TypeOK
        <5> QED
          BY <2>1, <5>1, <5>2, <5>5 DEF TypeOK, Ready
      <4> QED
        BY <4>2, <4>3
    <3>3. CASE /\ reply.request.own /\ reply.request.kind \in {"load", "undo"}
               /\ apply(reply)
      <4>1. reply.ok => reply.states \in [Profiles -> BOOLEAN]
        BY <2>3, <3>3 DEF Rows
      <4> QED
        BY <2>1, <3>3, <4>1 DEF apply, TypeOK, Ready, Closed
    <3> QED
      BY <1>5, <3>1, <3>2, <3>3 DEF receive, bulk_done
  <2>5. command' = command /\ replies' \subseteq replies
    BY <1>5 DEF receive
  <2> QED
    BY <1>1, <2>2, <2>4, <2>5 DEF TypeOK
<1>6. CASE leave
  <2>1. requests' \subseteq Request
    BY <1>6, OrphanTyped DEF leave, TypeOK
  <2>2. command' \in Command \cup {None}
    BY <1>6, OrphanTyped DEF leave, TypeOK, Command
  <2> QED
    BY <1>1, <1>6, <2>1, <2>2 DEF leave, TypeOK, Closed, Ready
<1> QED
  BY <1>2, <1>3, <1>4, <1>5, <1>6 DEF Page

LEMMA SurroundingsTyped ==
    ASSUME TypeOK, Surroundings
    PROVE  TypeOK'
<1>1. CASE close
  <2>1. [of |-> db, intact |-> FALSE] \in [of : Database, intact : BOOLEAN]
    BY DEF TypeOK
  <2>2. copies' \subseteq [of : Database, intact : BOOLEAN]
    BY <1>1, <2>1 DEF close, TypeOK
  <2> QED
    BY <1>1, <2>2 DEF close, TypeOK, Closed, Ready, history
<1>2. ASSUME NEW o \in Others, OtherTool(o)
      PROVE  TypeOK'
  <2>1. o.p \in Profiles /\ o.id \in Ids /\ o.v \in AnyValue \cup {None}
    BY ProfileAssumption
  <2>2. db.user[o.p] \in Own /\ db.user \in [Profiles -> Own]
    BY <2>1 DEF TypeOK, Database
  <2>3. [db.user[o.p] EXCEPT ![o.id] = o.v] \in Own
    BY <2>1, <2>2 DEF Own
  <2>4. db' = [db EXCEPT !.user[o.p] = [db.user[o.p] EXCEPT ![o.id] = o.v]]
    BY <1>2, <2>1, <2>2 DEF OtherTool, TypeOK, Database
  <2>5. db' \in Database /\ db'.user[o.p] \in Own
    BY <2>1, <2>2, <2>3, <2>4 DEF TypeOK, Database
  <2>6. held' \in [Profiles -> [values : SUBSET Own, changed : BOOLEAN, lost : BOOLEAN]]
    BY <1>2, <2>1, <2>5 DEF OtherTool, TypeOK
  <2>7. command' \in Command \cup {None}
    BY <1>2 DEF OtherTool, TypeOK, Command
  <2> QED
    BY <1>2, <2>5, <2>6, <2>7 DEF OtherTool, TypeOK, files, Ready
<1>3. ASSUME NEW to \in Updates, Update(to)
      PROVE  TypeOK'
  <2>1. to \in Database
    BY ProfileAssumption
  <2>2. Unset \in Own
    BY DEF Unset, Own
  <2>3. db' \in Database
    BY <1>3, <2>1, <2>2 DEF Update, TypeOK, Database
  <2> QED
    BY <1>3, <2>3 DEF Update, TypeOK, files, work, Ready
<1>4. CASE Damage
  <2>1. held' \in [Profiles -> [values : SUBSET Own, changed : BOOLEAN, lost : BOOLEAN]]
    BY <1>4 DEF Damage, TypeOK
  <2> QED
    BY <1>4, <2>1 DEF Damage, TypeOK, work, Ready
<1> QED
  BY <1>1, <1>2, <1>3, <1>4 DEF Surroundings

LEMMA TypeStep ==
    ASSUME TypeOK, PendingInv, Told, [Next]_vars
    PROVE  TypeOK'
<1>1. CASE UNCHANGED vars
  BY <1>1 DEF vars, files, work, bounds, history, TypeOK, Ready
<1> QED
  BY <1>1, CommandsTyped, PageTyped, SurroundingsTyped DEF Next

-----------------------------------------------------------------------------
(* The database, its copies and the record.                                *)

LEMMA DataInit == Init => DataInv
<1> SUFFICES ASSUME Init PROVE DataInv
  OBVIOUS
<1>1. db \in Database
  BY ProfileAssumption DEF Init
<1>2. /\ record = None /\ copies = {} /\ command = None /\ ~ Readable
      /\ \A p \in Profiles : held[p].values = {db.user[p]} /\ ~ held[p].changed
  BY DEF Init, Readable
<1>3. Had \subseteq Profiles
  BY <1>1 DEF Had, Database
<1> QED
  BY <1>1, <1>2, <1>3 DEF DataInv, NamesInv, HeldInv, CopyInv, RecordInv, CommandInv

LEMMA HadProfiles ==
    ASSUME TypeOK
    PROVE  db.names \subseteq Had /\ Had \subseteq Profiles
BY DEF Had, TypeOK, Database

LEMMA HadStill ==
    ASSUME UNCHANGED version, db'.names = db.names
    PROVE  Had' = Had
BY DEF Had

\* Steps that end the command, or only take its result from the page.
LEMMA DataStill ==
    ASSUME DataInv, UNCHANGED <<db, version, record, copies, held>>,
           command' \in {None, command}
    PROVE  DataInv'
<1>1. NamesInv'
  BY DEF DataInv, NamesInv
<1>2. HeldInv'
  BY HadStill DEF DataInv, HeldInv, targets, recorded
<1>3. CopyInv'
  BY HadStill DEF DataInv, CopyInv, Copied, Readable, recorded, targets
<1>4. RecordInv'
  BY DEF DataInv, RecordInv, Readable
<1>5. CommandInv'
  BY DEF DataInv, CommandInv, Readable
<1> QED
  BY <1>1, <1>2, <1>3, <1>4, <1>5 DEF DataInv

LEMMA LeaveData ==
    ASSUME TypeOK, DataInv, leave
    PROVE  DataInv'
<1>1. UNCHANGED <<db, version, record, copies, held>>
  BY DEF leave, files, history
<1>2. CASE command = None
  BY <1>1, <1>2, DataStill DEF leave
<1>3. CASE command # None
  <2>1. command' = [command EXCEPT !.request = Orphan(command.request)] /\ command \in Command
    BY <1>3 DEF leave, TypeOK
  <2>2. /\ command' # None /\ command'.step = command.step
        /\ command'.session = command.session /\ command'.originals = command.originals
        /\ command'.stale = command.stale
        /\ command'.request.kind = command.request.kind
        /\ command'.request.target = command.request.target
        /\ command'.request.undo = command.request.undo
    BY <1>3, <2>1, OrphanTyped, Nothings DEF Command, Orphan, Request
  <2>3. targets(command)' = targets(command)
    BY <2>2 DEF targets
  <2>4. NamesInv'
    BY <1>1, <1>3, <2>2 DEF DataInv, NamesInv
  <2>5. HeldInv'
    BY <1>1, <1>3, <2>2, <2>3, HadStill DEF DataInv, HeldInv
  <2>6. CopyInv'
    BY <1>1, <1>3, <2>2, <2>3, HadStill DEF DataInv, CopyInv, Copied, Readable
  <2>7. RecordInv'
    BY <1>1 DEF DataInv, RecordInv, Readable
  <2>8. CommandInv'
    BY <1>1, <1>3, <2>2 DEF DataInv, CommandInv, Readable
  <2> QED
    BY <2>4, <2>5, <2>6, <2>7, <2>8 DEF DataInv
<1> QED
  BY <1>2, <1>3

\* The first copy is taken before the first change.
LEMMA BackupKeeps ==
    ASSUME TypeOK, DataInv, UNCHANGED <<db, version, record, held>>,
           ensure_backup \/ UNCHANGED copies
    PROVE  /\ \A c \in copies' : c.intact => \A p \in Had : c.of.user[p] \in held[p].values
           /\ \A p \in Profiles : Copied(p) => Copied(p)'
           /\ ensure_backup => \A p \in Had : Copied(p)'
<1>1. CASE UNCHANGED copies
  <2>1. ASSUME ensure_backup, ~ Intact
        PROVE  FALSE
    <3>1. [of |-> db, intact |-> TRUE] \in copies'
      BY <2>1 DEF ensure_backup
    <3>2. \E c \in copies : c.intact
      BY <1>1, <3>1
    <3> QED
      BY <2>1, <3>2 DEF Intact
  <2> QED
    BY <1>1, <2>1, HadProfiles DEF DataInv, CopyInv, Copied, Intact
<1>2. CASE ~ Intact /\ copies' = copies \cup {[of |-> db, intact |-> TRUE]}
  <2>1. \A p \in Profiles : ~ held[p].changed
    BY <1>2 DEF DataInv, CopyInv, Copied, Intact
  <2>2. \A p \in Had : db.user[p] \in held[p].values /\ p \in Profiles
    BY <2>1, HadProfiles DEF DataInv, HeldInv
  <2> DEFINE new == [of |-> db, intact |-> TRUE]
  <2>3. new.of = db /\ new.intact = TRUE
    OBVIOUS
  <2> HIDE DEF new
  <2>4. copies' = copies \cup {new}
    BY <1>2 DEF new
  <2>5. \A p \in Had : Copied(p)'
    BY <2>2, <2>3, <2>4 DEF Copied
  <2>6. \A p \in Profiles : Copied(p) => Copied(p)'
    BY <2>4 DEF Copied
  <2> QED
    BY <2>2, <2>3, <2>4, <2>5, <2>6 DEF DataInv, CopyInv
<1> QED
  BY <1>1, <1>2 DEF ensure_backup

LEMMA ChangeData ==
    ASSUME TypeOK, DataInv, NEW r \in requests, change(r)
    PROVE  DataInv'
<1>1. UNCHANGED <<db, version, record, held>> /\ r \in Request /\ r.kind \in {"game", "all"}
  BY DEF change, history, TypeOK
<1>2. /\ \A c \in copies' : c.intact => \A p \in Had : c.of.user[p] \in held[p].values
      /\ \A p \in Profiles : Copied(p) => Copied(p)'
      /\ ensure_backup => \A p \in Had : Copied(p)'
  BY <1>1, BackupKeeps DEF change
<1>3. RecordInv'
  BY <1>1 DEF DataInv, RecordInv, Readable
<1>4. \/ command' = None
      \/ /\ ensure_backup /\ r.target \in db.names
         /\ command' = [request |-> r, step |-> "record", session |-> db,
                        originals |-> None, stale |-> FALSE]
  BY DEF change, Answer
<1>5. command' # None => /\ ensure_backup /\ r.target \in db.names
                         /\ command'.request = r /\ command'.step = "record"
                         /\ command'.session = db
  BY <1>4
<1>6. NamesInv'
  BY <1>1, <1>5 DEF NamesInv
<1>7. HeldInv'
  BY <1>1, <1>5, HadStill DEF DataInv, HeldInv
<1>8. CopyInv'
  <2>1. command' # None => targets(command)' = {r.target} /\ r.target \in Had
    BY <1>1, <1>5, HadProfiles DEF targets
  <2> QED
    BY <1>1, <1>2, <1>5, <2>1, HadStill DEF DataInv, CopyInv, Readable, recorded
<1>9. CommandInv'
  BY <1>1, <1>5 DEF CommandInv
<1> QED
  BY <1>3, <1>6, <1>7, <1>8, <1>9 DEF DataInv

LEMMA UndoStartData ==
    ASSUME TypeOK, DataInv, NEW r \in requests, undo_start(r)
    PROVE  DataInv'
<1>1. UNCHANGED <<db, version, record, copies, held>> /\ r.kind = "undo"
  BY DEF undo_start, files, history
<1>2. CASE command' = None
  BY <1>1, <1>2, DataStill
<1>3. CASE /\ Readable /\ r.undo = record
           /\ command' = [request |-> r, step |-> "save", originals |-> record,
                          session |-> undone(record, db), stale |-> FALSE]
  <2>1. record \in Record /\ db \in Database
    BY <1>3 DEF TypeOK, Readable
  <2>2. undone(record, db).names = db.names
    BY <2>1, UndoneDiffers
  <2>3. targets(command)' = recorded(record)
    BY <1>1, <1>3 DEF targets
  <2>4. \A p \in Had \ recorded(record) : undone(record, db).user[p] = db.user[p]
    BY <2>1, UndoneDiffers, HadProfiles
  <2>5. /\ command'.session = undone(record, db) /\ command'.request = r
        /\ command'.step = "save" /\ command'.originals = record /\ ~ command'.stale
    BY <1>3
  <2>6. NamesInv'
    BY <1>1, <2>2, <2>5 DEF DataInv, NamesInv
  <2>7. HeldInv'
    BY <1>1, <2>3, <2>4, <2>5, HadStill DEF DataInv, HeldInv
  <2>8. CopyInv'
    BY <1>1, <1>3, <2>3, HadStill DEF DataInv, CopyInv, Copied, Readable, recorded
  <2>9. RecordInv'
    BY <1>1 DEF DataInv, RecordInv, Readable
  <2>10. undone(record, db)' = undone(record, db)
    BY <1>1 DEF undone, restorable, recorded
  <2>11. CommandInv'
    BY <1>1, <1>3, <2>1, <2>5, <2>10 DEF CommandInv
  <2> QED
    BY <2>6, <2>7, <2>8, <2>9, <2>11 DEF DataInv
<1> QED
  BY <1>2, <1>3 DEF undo_start, Answer

LEMMA RecordData ==
    ASSUME TypeOK, DataInv, record_and_stage
    PROVE  DataInv'
<1> DEFINE p == command.request.target
           d == command.session
<1>1. /\ command \in Command /\ command # None /\ command.step = "record"
      /\ command.request.kind \in {"game", "all"} /\ command.request \in Request
      /\ p \in Profiles /\ d \in Database /\ p \in db.names /\ d.names = db.names
      /\ targets(command) = {p}
  <2>1. command # None /\ command.step = "record" /\ command \in Command
    BY DEF record_and_stage, Holding, TypeOK
  <2>2. command.request.kind \in {"game", "all"}
    BY <2>1 DEF DataInv, CommandInv
  <2>3. command.request \in Request /\ p \in Profiles /\ d \in Database
    BY <2>1 DEF Command, Request
  <2> QED
    BY <2>1, <2>2, <2>3 DEF DataInv, NamesInv, targets
<1>2. UNCHANGED <<db, version, copies, held>>
  BY DEF record_and_stage
<1>3. /\ record_of(d, p) \in Record /\ record_of(d, p)[p] # None
      /\ \A q \in Profiles \ {p} : record_of(d, p)[q] = IF Readable THEN record[q] ELSE None
      /\ IF Readable /\ record[p] # None THEN record_of(d, p)[p] = record[p]
         ELSE record_of(d, p)[p].values = d.user[p]
  BY <1>1, Recorded DEF TypeOK
<1>4. record' \in {record_of(d, p), record, IF record = Damaged THEN None ELSE record}
  BY DEF record_and_stage
\* What is recorded is what the session found, from before the first change.
<1>5. ~ held[p].changed => d.user[p] \in held[p].values
  BY <1>1, HadProfiles DEF DataInv, HeldInv
<1>6. Copied(p)
  BY <1>1 DEF DataInv, CopyInv
<1>7. RecordInv'
  <2>1. CASE record' = record_of(d, p)
    <3>1. Readable'
      BY <1>3, <2>1, Nothings DEF Readable
    <3>2. \A q \in Profiles : held[q].changed /\ ~ held[q].lost
             => record_of(d, p)[q] # None
      BY <1>3 DEF DataInv, RecordInv
    <3>3. ASSUME NEW q \in Profiles, record_of(d, p)[q] # None, ~ held[q].lost
          PROVE  record_of(d, p)[q].values \in held[q].values
      <4>1. CASE q # p
        BY <1>3, <3>3, <4>1 DEF DataInv, RecordInv
      <4>2. CASE q = p /\ Readable /\ record[p] # None
        BY <1>3, <3>3, <4>2 DEF DataInv, RecordInv
      <4>3. CASE q = p /\ ~ (Readable /\ record[p] # None)
        <5>1. ~ held[p].changed
          BY <1>1, <3>3, <4>3 DEF DataInv, RecordInv
        <5> QED
          BY <1>3, <1>5, <4>3, <5>1
      <4> QED
        BY <4>1, <4>2, <4>3
    <3> HIDE DEF p, d
    <3> QED
      BY <1>2, <2>1, <3>1, <3>2, <3>3 DEF RecordInv
  <2>2. CASE record' = record
    BY <1>2, <2>2 DEF DataInv, RecordInv, Readable
  <2>3. CASE record = Damaged /\ record' = None
    BY <1>2, <2>3 DEF DataInv, RecordInv, Readable
  <2> QED
    BY <1>4, <2>1, <2>2, <2>3
<1>8. Readable' => \A q \in recorded(record') : Copied(q)'
  <2>1. CASE record' = record_of(d, p)
    BY <1>2, <1>3, <1>6, <2>1 DEF DataInv, CopyInv, Copied, recorded
  <2>2. CASE record' = record
    BY <1>2, <2>2 DEF DataInv, CopyInv, Copied, Readable, recorded
  <2>3. CASE record' = None
    BY <2>3 DEF Readable
  <2> QED
    BY <1>4, <2>1, <2>2, <2>3
<1>9. CASE command' = None
  <2>1. NamesInv' /\ HeldInv'
    BY <1>2, <1>9, HadStill DEF DataInv, NamesInv, HeldInv
  <2>2. CopyInv'
    BY <1>2, <1>8, <1>9, HadStill DEF DataInv, CopyInv, Copied
  <2>3. CommandInv'
    BY <1>9 DEF CommandInv
  <2> QED
    BY <1>7, <2>1, <2>2, <2>3 DEF DataInv
<1>10. CASE /\ record' = record_of(d, p)
            /\ command' = [command EXCEPT !.step = "save", !.session = staged(command)]
  <2>1. Differs(d, staged(command), p)
    BY <1>1, StagedDiffers
  <2>2. /\ command'.request = command.request /\ command'.step = "save"
        /\ command'.session = staged(command)
    BY <1>1, <1>10 DEF Command
  <2>3. targets(command)' = {p}
    BY <1>1, <2>2 DEF targets
  <2>4. NamesInv'
    BY <1>1, <1>2, <2>1, <2>2 DEF DataInv, NamesInv, Differs
  <2>5. HeldInv'
    <3>1. \A q \in Had \ {p} : staged(command).user[q] = d.user[q]
      BY <2>1, HadProfiles DEF Differs
    <3> QED
      BY <1>1, <1>2, <2>2, <2>3, <3>1, HadStill DEF DataInv, HeldInv
  <2>6. CopyInv'
    BY <1>2, <1>6, <1>8, <2>3, HadStill DEF DataInv, CopyInv, Copied
  <2>7. CommandInv'
    <3>1. Readable' /\ record'[p] # None
      BY <1>3, <1>10, Nothings DEF Readable
    <3> QED
      BY <1>1, <2>2, <3>1 DEF CommandInv
  <2> QED
    BY <1>7, <2>4, <2>5, <2>6, <2>7 DEF DataInv
<1> QED
  BY <1>9, <1>10 DEF record_and_stage, Answer

LEMMA SaveData ==
    ASSUME TypeOK, DataInv, save
    PROVE  DataInv'
<1>1. command \in Command /\ command # None /\ command.step = "save"
  BY DEF save, Holding, TypeOK
<1>2. UNCHANGED <<version, record, copies>>
  BY DEF save, files
<1>3. CASE command' = None /\ UNCHANGED <<db, held>>
  BY <1>2, <1>3, DataStill
<1>4. CASE command' = [command EXCEPT !.step = "read"]
  <2>1. /\ command' # None /\ command'.step = "read"
        /\ command'.session = command.session /\ command'.request = command.request
        /\ command'.originals = command.originals
    BY <1>1, <1>4, Nothings DEF Command
  <2>2. targets(command)' = targets(command)
    BY <2>1 DEF targets
  <2>3. CASE UNCHANGED <<db, held>>
    <3>1. NamesInv' /\ HeldInv' /\ RecordInv'
      BY <1>1, <1>2, <2>1, <2>3, HadStill DEF DataInv, NamesInv, HeldInv, RecordInv, Readable
    <3>2. CopyInv'
      BY <1>1, <1>2, <2>2, <2>3, HadStill DEF DataInv, CopyInv, Copied, Readable
    <3>3. CommandInv'
      BY <1>1, <1>2, <2>1, <2>3 DEF DataInv, CommandInv, Readable
    <3> QED
      BY <3>1, <3>2, <3>3 DEF DataInv
  <2>4. CASE /\ db' = command.session
             /\ held' = [q \in Profiles |->
                    IF q \in targets(command)
                    THEN [held[q] EXCEPT !.changed = TRUE] ELSE held[q]]
    <3>1. /\ db'.names = db.names /\ db'.names \subseteq Profiles
          /\ \A q \in Profiles :
                /\ held'[q].values = held[q].values /\ held'[q].lost = held[q].lost
                /\ held'[q].changed <=> held[q].changed \/ q \in targets(command)
      BY <1>1, <2>4 DEF DataInv, NamesInv, TypeOK, Database
    <3>0. Had' = Had /\ Had \subseteq Profiles
      BY <1>2, <3>1, HadStill, HadProfiles
    <3>2. NamesInv'
      BY <1>1, <1>2, <2>1, <3>1 DEF DataInv, NamesInv
    <3>3. HeldInv'
      BY <1>1, <2>1, <2>4, <3>0, <3>1 DEF DataInv, HeldInv
    <3>4. CopyInv'
      <4>1. \A q \in Profiles : Copied(q)' = Copied(q)
        BY <1>2, <3>1 DEF Copied
      <4>2. targets(command) \subseteq Profiles
        BY <1>1 DEF targets, recorded, Command, Request
      <4>3. recorded(record)' = recorded(record) /\ recorded(record) \subseteq Profiles
        BY <1>2 DEF recorded
      <4> QED
        BY <1>1, <1>2, <2>2, <3>0, <3>1, <4>1, <4>2, <4>3 DEF DataInv, CopyInv, Readable
    <3>5. ASSUME NEW q \in targets(command)
          PROVE  held[q].lost \/ (Readable /\ record[q] # None)
      <4>1. CASE command.request.kind = "undo"
        <5>1. command.originals \in Record /\ targets(command) = recorded(command.originals)
          BY <1>1, <4>1 DEF DataInv, CommandInv, targets
        <5>2. CASE record = command.originals
          BY <5>1, <5>2, Nothings DEF Readable, recorded
        <5>3. CASE \A r \in recorded(command.originals) : held[r].lost
          BY <5>1, <5>3
        <5> QED
          BY <1>1, <4>1, <5>2, <5>3 DEF DataInv, CommandInv
      <4>2. CASE command.request.kind # "undo"
        BY <1>1, <4>2 DEF DataInv, CommandInv, targets
      <4> QED
        BY <4>1, <4>2
    <3>6. RecordInv'
      BY <1>2, <3>1, <3>5 DEF DataInv, RecordInv, Readable
    <3>7. CommandInv'
      <4>1. command.request.kind # "undo" => command.request.target \in Profiles
        BY <1>1 DEF Command, Request
      <4>2. \A q \in recorded(command.originals) : q \in Profiles
        BY DEF recorded
      <4> QED
        BY <1>1, <1>2, <2>1, <3>1, <4>1, <4>2 DEF DataInv, CommandInv, Readable
    <3> QED
      BY <3>2, <3>3, <3>4, <3>6, <3>7 DEF DataInv
  <2> QED
    BY <1>4, <2>3, <2>4, <1>1 DEF save, history, Answer
<1> QED
  BY <1>3, <1>4 DEF save, Answer

LEMMA CloseData ==
    ASSUME TypeOK, DataInv, close
    PROVE  DataInv'
<1>1. UNCHANGED <<db, version, record, held>> /\ command' = None
  BY DEF close, history
<1>2. CASE UNCHANGED copies
  BY <1>1, <1>2, DataStill
<1>3. CASE copies' = copies \cup {[of |-> db, intact |-> FALSE]}
  <2>0. Had' = Had
    BY <1>1, HadStill
  <2>1. NamesInv' /\ HeldInv' /\ RecordInv' /\ CommandInv'
    BY <1>1, <1>3, <2>0 DEF DataInv, NamesInv, HeldInv, RecordInv, CommandInv, Readable
  <2>2. \A p \in Profiles : Copied(p) => Copied(p)'
    BY <1>1, <1>3 DEF Copied
  <2>3. CopyInv'
    BY <1>1, <1>3, <2>0, <2>2 DEF DataInv, CopyInv, Readable, recorded
  <2> QED
    BY <2>1, <2>3 DEF DataInv
<1> QED
  BY <1>2, <1>3 DEF close

LEMMA OtherToolData ==
    ASSUME TypeOK, DataInv, NEW o \in Others, OtherTool(o)
    PROVE  DataInv'
<1>1. o.p \in Profiles /\ db \in Database
  BY ProfileAssumption DEF TypeOK
<1>2. UNCHANGED <<version, record, copies>>
  BY DEF OtherTool, files
<1>3. db'.names = db.names /\ \A q \in Profiles \ {o.p} : db'.user[q] = db.user[q]
  BY <1>1 DEF OtherTool, Database
<1>4. /\ \A q \in Profiles : /\ held[q].values \subseteq held'[q].values
                             /\ held'[q].changed = held[q].changed
                             /\ held'[q].lost = held[q].lost
      /\ ~ held[o.p].changed => db'.user[o.p] \in held'[o.p].values
  BY <1>1 DEF OtherTool, TypeOK
<1>5. \/ command = None /\ command' = None
      \/ /\ command \in Command /\ command # None /\ command' # None
         /\ command'.request = command.request /\ command'.step = command.step
         /\ command'.session = command.session
         /\ command'.originals = command.originals /\ command'.stale
  BY Nothings DEF OtherTool, TypeOK, Command
<1>6. command # None => targets(command)' = targets(command)
  BY <1>5 DEF targets
<1>0. Had' = Had /\ Had \subseteq Profiles
  BY <1>2, <1>3, HadStill, HadProfiles
<1>7. NamesInv'
  BY <1>2, <1>3, <1>5 DEF DataInv, NamesInv
<1>8. HeldInv'
  BY <1>0, <1>3, <1>4, <1>5, <1>6 DEF DataInv, HeldInv
<1>9. CopyInv'
  <2>1. \A q \in Profiles : Copied(q) => Copied(q)'
    BY <1>2, <1>4 DEF Copied
  <2>2. command # None => targets(command) \subseteq Profiles
    BY <1>5 DEF targets, recorded, Command, Request
  <2>3. recorded(record)' = recorded(record) /\ recorded(record) \subseteq Profiles
    BY <1>2 DEF recorded
  <2> QED
    BY <1>0, <1>2, <1>4, <1>5, <1>6, <2>1, <2>2, <2>3 DEF DataInv, CopyInv, Readable
<1>10. RecordInv'
  BY <1>2, <1>4 DEF DataInv, RecordInv, Readable
<1>11. CommandInv'
  <2>1. command # None => command.request.target \in Profiles
    BY <1>5 DEF Command, Request
  <2>2. \A q \in recorded(command.originals) : q \in Profiles
    BY DEF recorded
  <2> QED
    BY <1>2, <1>4, <1>5, <2>1, <2>2 DEF DataInv, CommandInv, Readable
<1> QED
  BY <1>7, <1>8, <1>9, <1>10, <1>11 DEF DataInv

LEMMA UpdateData ==
    ASSUME TypeOK, DataInv, NEW to \in Updates, Update(to)
    PROVE  DataInv'
<1>1. /\ UNCHANGED <<record, copies, held>> /\ command' = None
      /\ Had = Profiles /\ version' = "new"
  BY DEF Update, files, work, Had
<1>2. /\ db'.names = to.names /\ Had' = to.names /\ to.names \subseteq Profiles
      /\ \A p \in to.names : db'.user[p] = db.user[p]
  BY <1>1, ProfileAssumption DEF Update, Database, Had
<1>3. NamesInv' /\ HeldInv' /\ RecordInv' /\ CommandInv'
  BY <1>1, <1>2 DEF DataInv, NamesInv, HeldInv, RecordInv, CommandInv, Readable
<1>4. CopyInv'
  BY <1>1, <1>2 DEF DataInv, CopyInv, Copied, Readable, recorded
<1> QED
  BY <1>3, <1>4 DEF DataInv

LEMMA DamageData ==
    ASSUME TypeOK, DataInv, Damage
    PROVE  DataInv'
<1>1. /\ UNCHANGED <<db, version, copies, command>>
      /\ record \in Record /\ Readable /\ record' = Damaged /\ ~ Readable'
      /\ \A p \in Profiles :
            /\ held'[p].values = held[p].values /\ held'[p].changed = held[p].changed
            /\ held'[p].lost <=> held[p].lost \/ record[p] # None
  BY DEF Damage, work, TypeOK, Readable
<1>2. command # None => targets(command)' = targets(command)
  BY <1>1 DEF targets
<1>0. Had' = Had /\ Had \subseteq Profiles
  BY <1>1, HadStill, HadProfiles
<1>3. NamesInv'
  BY <1>1 DEF DataInv, NamesInv
<1>4. HeldInv'
  BY <1>0, <1>1, <1>2 DEF DataInv, HeldInv
<1>5. CopyInv'
  <2>1. \A q \in Profiles : Copied(q)' = Copied(q)
    BY <1>1 DEF Copied
  <2>2. command # None => targets(command) \subseteq Profiles
    BY DEF targets, recorded, TypeOK, Command, Request
  <2> QED
    BY <1>0, <1>1, <1>2, <2>1, <2>2 DEF DataInv, CopyInv
<1>6. RecordInv'
  BY <1>1 DEF DataInv, RecordInv
<1>7. CommandInv'
  <2>1. command # None => command.request.target \in Profiles
    BY DEF TypeOK, Command, Request
  <2>2. \A q \in recorded(command.originals) :
           q \in Profiles /\ command.originals[q] # None
    BY DEF recorded
  <2> QED
    BY <1>1, <2>1, <2>2, Nothings DEF DataInv, CommandInv, Readable
<1> QED
  BY <1>3, <1>4, <1>5, <1>6, <1>7 DEF DataInv

LEMMA DataStep ==
    ASSUME TypeOK, DataInv, [Next]_vars
    PROVE  DataInv'
<1>1. CASE UNCHANGED vars
  BY <1>1, DataStill DEF vars, files, work, history
<1>2. ASSUME NEW r \in requests, load_nvidia_game_settings(r)
      PROVE  DataInv'
  BY <1>2, DataStill DEF load_nvidia_game_settings, Answer, files
<1>3. CASE read_back
  BY <1>3, DataStill DEF read_back, Answer, files
<1>4. CASE Commands
  BY <1>2, <1>3, <1>4, ChangeData, UndoStartData, RecordData, SaveData DEF Commands
<1>5. CASE Page
  <2>1. leave \/ UNCHANGED <<db, version, files, command, history>>
    BY <1>5 DEF Page, reload, setGame, setAllGames, confirmUndo, receive
  <2> QED
    BY <2>1, LeaveData, DataStill DEF files, history
<1>6. CASE Surroundings
  BY <1>6, CloseData, OtherToolData, UpdateData, DamageData DEF Surroundings
<1> QED
  BY <1>1, <1>4, <1>5, <1>6 DEF Next

-----------------------------------------------------------------------------
(* The commands of the page.                                               *)

LEMMA PendingParts ==
    /\ Pending = Waiting \cup Running \cup Answered
    /\ Pending' = Waiting' \cup Running' \cup Answered'
BY DEF Pending, Waiting, Running, Answered

\* Requests of the page wait, run and are answered, one after the other.
LEMMA FewerPending ==
    ASSUME PendingInv, Pending' \subseteq Pending, page'.state = page.state,
           Waiting' \cap Running' = {}, Waiting' \cap Answered' = {},
           Running' \cap Answered' = {},
           \A x, y \in replies' : x.request = y.request /\ x.request.own => x = y
    PROVE  PendingInv'
BY DEF PendingInv

LEMMA LockPending ==
    ASSUME TypeOK, PendingInv, NEW r \in requests, Lock(r), UNCHANGED <<replies, page>>,
           command' # None, command'.request = r
    PROVE  PendingInv'
<1>1. Running = {} /\ Waiting' = Waiting \ {r} /\ Answered' = Answered
  BY DEF Lock, Running, Waiting, Answered
<1>2. Running' = {s \in {r} : s.own}
  BY DEF Running
<1>3. Running' \subseteq Waiting
  BY <1>2 DEF Waiting
<1>4. Pending' \subseteq Pending
  BY <1>1, <1>3, PendingParts
<1>5. Waiting' \cap Running' = {} /\ Waiting' \cap Answered' = {} /\ Running' \cap Answered' = {}
  BY <1>1, <1>2, <1>3 DEF PendingInv
<1>6. \A x, y \in replies' : x.request = y.request /\ x.request.own => x = y
  BY DEF PendingInv
<1> QED
  BY <1>4, <1>5, <1>6, FewerPending

LEMMA AnsweredAtOnce ==
    ASSUME TypeOK, PendingInv, NEW r \in requests, Lock(r), UNCHANGED page,
           command' = None, NEW x, x.request = r, replies' = replies \cup {x}
    PROVE  PendingInv'
<1>1. Running = {} /\ Running' = {} /\ Waiting' = Waiting \ {r}
  BY DEF Lock, Running, Waiting
<1>2. Answered' = Answered \cup {s \in {r} : s.own}
  BY DEF Answered
<1>3. r.own => r \in Waiting
  BY DEF Waiting
<1>4. Pending' \subseteq Pending
  BY <1>1, <1>2, <1>3, PendingParts
<1>5. Waiting' \cap Running' = {} /\ Waiting' \cap Answered' = {} /\ Running' \cap Answered' = {}
  BY <1>1, <1>2 DEF PendingInv
<1>6. ASSUME NEW y \in replies', NEW z \in replies', y.request = z.request, y.request.own
      PROVE  y = z
  <2>1. \A w \in replies : w.request.own => w.request # r
    BY <1>3 DEF PendingInv, Answered
  <2> QED
    BY <1>6, <2>1 DEF PendingInv
<1> QED
  BY <1>4, <1>5, <1>6, FewerPending

LEMMA AnsweredAfterwards ==
    ASSUME TypeOK, PendingInv, command # None, UNCHANGED <<requests, page>>,
           command' = None, NEW x, x.request = command.request, replies' = replies \cup {x}
    PROVE  PendingInv'
<1> DEFINE r == command.request
<1>1. Running = {s \in {r} : s.own} /\ Running' = {} /\ Waiting' = Waiting
  BY DEF Running, Waiting
<1>2. Answered' = Answered \cup {s \in {r} : s.own}
  BY DEF Answered
<1>3. Pending' \subseteq Pending
  BY <1>1, <1>2, PendingParts
<1>4. Waiting' \cap Running' = {} /\ Waiting' \cap Answered' = {} /\ Running' \cap Answered' = {}
  BY <1>1, <1>2 DEF PendingInv
<1>5. ASSUME NEW y \in replies', NEW z \in replies', y.request = z.request, y.request.own
      PROVE  y = z
  <2>1. \A w \in replies : w.request.own => w.request # r
    BY <1>1 DEF PendingInv, Answered
  <2> QED
    BY <1>5, <2>1 DEF PendingInv
<1> QED
  BY <1>3, <1>4, <1>5, FewerPending

LEMMA CommandGoesOn ==
    ASSUME TypeOK, PendingInv, UNCHANGED <<requests, replies, page>>,
           command # None, command' # None, command'.request = command.request
    PROVE  PendingInv'
<1>1. Running' = Running /\ Waiting' = Waiting /\ Answered' = Answered
  BY DEF Running, Waiting, Answered
<1> QED
  BY <1>1, FewerPending, PendingParts DEF PendingInv

\* A command takes the lock, or it is answered at once.
LEMMA Locked ==
    ASSUME TypeOK, NEW r \in requests, change(r) \/ undo_start(r)
    PROVE  /\ Lock(r) /\ UNCHANGED page
           /\ \/ Answer(Failed(r))
              \/ /\ UNCHANGED replies
                 /\ command' \in Command /\ command' # None /\ command'.request = r
<1>1. r \in Request /\ db \in Database
  BY DEF TypeOK
<1>2. CASE change(r)
  <2> DEFINE c == [request |-> r, step |-> "record", session |-> db,
                   originals |-> None, stale |-> FALSE]
  <2>1. c \in Command /\ c.request = r
    BY <1>1 DEF Command
  <2>2. Lock(r) /\ UNCHANGED page /\ (Answer(Failed(r)) \/ (command' = c /\ UNCHANGED replies))
    BY <1>2 DEF change
  <2> HIDE DEF c
  <2> QED
    BY <2>1, <2>2, Nothings
<1>3. CASE undo_start(r)
  <2> DEFINE c == [request |-> r, step |-> "save", originals |-> record,
                   session |-> undone(record, db), stale |-> FALSE]
  <2>1. Readable => c \in Command /\ c.request = r
    BY <1>1, UndoneDiffers DEF Command, TypeOK, Readable
  <2>2. /\ Lock(r) /\ UNCHANGED page
        /\ Answer(Failed(r)) \/ (Readable /\ command' = c /\ UNCHANGED replies)
    BY <1>3 DEF undo_start
  <2> HIDE DEF c
  <2> QED
    BY <2>1, <2>2, Nothings
<1> QED
  BY <1>2, <1>3

LEMMA CommandsPending ==
    ASSUME TypeOK, DataInv, PendingInv, Commands
    PROVE  PendingInv'
<1>1. \A r : Done(r).request = r /\ Failed(r).request = r
  BY DEF Done, Failed
<1>2. UNCHANGED page
  BY DEF Commands, load_nvidia_game_settings, change, undo_start, record_and_stage, save,
         read_back
<1>3. ASSUME NEW r \in requests,
             load_nvidia_game_settings(r) \/ change(r) \/ undo_start(r)
      PROVE  PendingInv'
  <2>1. Lock(r)
    BY <1>3 DEF load_nvidia_game_settings, change, undo_start
  <2>2. CASE Answer(Done(r)) \/ Answer(Failed(r))
    BY <1>1, <1>2, <2>1, <2>2, AnsweredAtOnce DEF Answer
  <2>3. CASE UNCHANGED replies /\ command' # None /\ command'.request = r
    BY <1>2, <2>1, <2>3, LockPending
  <2> QED
    BY <1>3, <2>2, <2>3, Locked DEF load_nvidia_game_settings
<1>4. CASE record_and_stage \/ save \/ read_back
  <2>1. command # None /\ command \in Command /\ UNCHANGED requests
    BY <1>4 DEF record_and_stage, save, read_back, Holding, TypeOK
  <2>2. CASE Answer(Done(command.request)) \/ Answer(Failed(command.request))
    BY <1>1, <1>2, <2>1, <2>2, AnsweredAfterwards DEF Answer
  <2>3. CASE /\ UNCHANGED replies
             /\ \/ command' = [command EXCEPT !.step = "read"]
                \/ command' = [command EXCEPT !.step = "save", !.session = staged(command)]
    <3>1. command'.request = command.request
      BY <2>1, <2>3 DEF Command
    <3>2. staged(command) \in Database
      BY <2>1, StagedDiffers DEF Differs
    <3>3. command' \in Command
      BY <2>1, <2>3, <3>2 DEF Command
    <3> QED
      BY <1>2, <2>1, <2>3, <3>1, <3>3, CommandGoesOn, Nothings
  <2> QED
    BY <1>4, <2>2, <2>3 DEF record_and_stage, save, read_back
<1> QED
  BY <1>3, <1>4 DEF Commands

LEMMA NonePending ==
    ASSUME Waiting' = {}, Running' = {}, Answered' = {}
    PROVE  PendingInv'
<1>1. Pending' = {}
  BY PendingParts
<1>2. \A x \in replies' : ~ x.request.own
  BY DEF Answered
<1> QED
  BY <1>1, <1>2 DEF PendingInv

LEMMA OnePending ==
    ASSUME NEW r, Waiting' = {r}, Running' = {}, Answered' = {},
           r.kind # "game", r.target = AllGames, page'.state \notin {"closed", "failed"},
           page'.state = "loading" => r.kind = "load"
    PROVE  PendingInv'
<1>1. Pending' = {r}
  BY PendingParts
<1>2. \A x \in replies' : ~ x.request.own
  BY DEF Answered
<1> QED
  BY <1>1, <1>2 DEF PendingInv

LEMMA Asked ==
    ASSUME NEW kind, NEW target, NEW to, NEW shown, Ask(kind, target, to, shown)
    PROVE  \E r : /\ r.own /\ r.kind = kind /\ r.target = target
                  /\ requests' = requests \cup {r} /\ Waiting' = Waiting \cup {r}
<1> DEFINE r == [kind |-> kind, target |-> target, on |-> to, undo |-> shown, own |-> TRUE]
<1>1. r.own /\ r.kind = kind /\ r.target = target
  OBVIOUS
<1>2. requests' = requests \cup {r}
  BY DEF Ask
<1> HIDE DEF r
<1>3. Waiting' = Waiting \cup {r}
  BY <1>1, <1>2 DEF Waiting
<1> QED
  BY <1>1, <1>2, <1>3

LEMMA AskAlone ==
    ASSUME Pending = {}, NEW kind \in {"load", "all", "undo"}, NEW to, NEW shown,
           Ask(kind, AllGames, to, shown), UNCHANGED <<command, replies>>,
           page'.state \notin {"closed", "failed"},
           page'.state = "loading" => kind = "load"
    PROVE  PendingInv'
<1>1. PICK r : /\ r.kind = kind /\ r.target = AllGames
               /\ Waiting' = Waiting \cup {r}
  BY Asked
<1>2. Waiting = {} /\ Running = {} /\ Answered = {}
  BY PendingParts
<1>3. Running' = Running /\ Answered' = Answered
  BY DEF Running, Answered
<1> QED
  BY <1>1, <1>2, <1>3, OnePending

\* While an answer that is not of a game is on its way, the page waits for
\* nothing else.
LEMMA AnsweredAlone ==
    ASSUME PendingInv, NEW reply \in replies, reply.request.own,
           reply.request.kind # "game"
    PROVE  /\ Waiting = {} /\ Running = {}
           /\ \A x \in replies : x.request.own => x = reply
<1>1. reply.request \in Answered
  BY DEF Answered
<1>2. \A r \in Pending : r = reply.request
  BY <1>1, PendingParts DEF PendingInv
<1>3. Waiting = {} /\ Running = {}
  BY <1>1, <1>2, PendingParts DEF PendingInv
<1>4. ASSUME NEW x \in replies, x.request.own
      PROVE  x = reply
  <2>1. x.request \in Answered
    BY <1>4 DEF Answered
  <2>2. x.request = reply.request
    BY <1>2, <2>1, PendingParts
  <2> QED
    BY <1>4, <2>2 DEF PendingInv
<1> QED
  BY <1>3, <1>4

LEMMA ReceivePending ==
    ASSUME TypeOK, PendingInv, NEW reply \in replies, receive(reply)
    PROVE  PendingInv'
<1>1. /\ replies' = replies \ {reply} /\ Running' = Running
      /\ Answered' \subseteq Answered
  BY DEF receive, Running, Answered
<1>2. CASE page'.state = page.state /\ UNCHANGED requests
  <2>1. Waiting' = Waiting
    BY <1>2 DEF Waiting
  <2> QED
    BY <1>1, <1>2, <2>1, FewerPending, PendingParts DEF PendingInv
<1>3. CASE reply.request.own /\ reply.request.kind \in {"load", "undo"} /\ apply(reply)
  <2>1. Waiting = {} /\ Running = {} /\ \A x \in replies : x.request.own => x = reply
    BY <1>3, AnsweredAlone
  <2>2. Waiting' = Waiting /\ Answered' = {}
    BY <1>1, <1>3, <2>1 DEF apply, Waiting, Answered
  <2> QED
    BY <1>1, <2>1, <2>2, NonePending
<1>4. CASE /\ reply.request.own /\ reply.request.kind = "all" /\ UNCHANGED page
           /\ Ask("load", AllGames, FALSE, None)
  <2>1. Waiting = {} /\ Running = {} /\ \A x \in replies : x.request.own => x = reply
    BY <1>4, AnsweredAlone
  <2>2. Answered' = {}
    BY <1>1, <2>1 DEF Answered
  <2>3. PICK r : r.kind = "load" /\ r.target = AllGames /\ Waiting' = Waiting \cup {r}
    <3>1. \E to, shown : Ask("load", AllGames, to, shown)
      BY <1>4
    <3>2. PICK to, shown : Ask("load", AllGames, to, shown)
      BY <3>1
    <3> QED
      BY <3>2, Asked
  <2>4. page'.state \notin {"closed", "failed"}
    <3>1. reply.request \in Pending
      BY <1>4, PendingParts DEF Answered
    <3> QED
      BY <1>4, <3>1 DEF PendingInv
  <2> QED
    BY <1>1, <2>1, <2>2, <2>3, <2>4, OnePending
<1>5. reply.request.own /\ reply.request.kind = "game" /\ setGame_done(reply)
         => page'.state = page.state /\ UNCHANGED requests
  BY DEF setGame_done, TypeOK
<1> QED
  BY <1>2, <1>3, <1>4, <1>5 DEF receive, bulk_done

LEMMA PagePending ==
    ASSUME TypeOK, PendingInv, Page
    PROVE  PendingInv'
<1>1. CASE reload
  <2>1. Pending = {} /\ page'.state = "loading"
    BY <1>1 DEF reload, PendingInv, Closed
  <2> QED
    BY <1>1, <2>1, AskAlone DEF reload
<1>2. ASSUME NEW g \in Games, NEW to \in BOOLEAN, setGame(g, to)
      PROVE  PendingInv'
  <2>1. PICK r : /\ r.own /\ r.kind = "game" /\ r.target = g
                 /\ Waiting' = Waiting \cup {r}
    BY <1>2, Asked DEF setGame
  <2>2. Running' = Running /\ Answered' = Answered /\ UNCHANGED <<replies, page>>
    BY <1>2 DEF setGame, Running, Answered
  <2>3. \A s \in Pending : s.kind = "game" /\ s.target # g
    BY <1>2 DEF setGame
  <2>4. Pending' = Pending \cup {r}
    BY <2>1, <2>2, PendingParts
  <2>5. r \notin Running /\ r \notin Answered
    BY <2>1, <2>3, PendingParts
  <2>6. page.state = "ready"
    BY <1>2 DEF setGame, Ready
  <2> QED
    BY <2>1, <2>2, <2>3, <2>4, <2>5, <2>6 DEF PendingInv
<1>3. ASSUME NEW to \in BOOLEAN, setAllGames(to)
      PROVE  PendingInv'
  BY <1>3, AskAlone DEF setAllGames, Ready
<1>4. CASE confirmUndo
  BY <1>4, AskAlone DEF confirmUndo, Ready
<1>5. CASE leave
  <2>1. \A r \in Request : ~ Orphan(r).own
    BY DEF Orphan, Request
  <2>2. Waiting' = {} /\ Answered' = {}
    BY <1>5, <2>1 DEF leave, Waiting, Answered, TypeOK
  <2>3. Running' = {}
    <3>1. command' # None => /\ command \in Command
                             /\ command'.request = Orphan(command.request)
      BY <1>5 DEF leave, TypeOK, Command
    <3> QED
      BY <2>1, <3>1 DEF Running, Command
  <2> QED
    BY <2>2, <2>3, NonePending
<1> QED
  BY <1>1, <1>2, <1>3, <1>4, <1>5, ReceivePending DEF Page

LEMMA SurroundingsPending ==
    ASSUME TypeOK, PendingInv, Surroundings
    PROVE  PendingInv'
<1>1. CASE close
  <2>1. Waiting' = {} /\ Running' = {} /\ Answered' = {}
    BY <1>1 DEF close, Waiting, Running, Answered
  <2> QED
    BY <2>1, NonePending
<1>2. ASSUME NEW o \in Others, OtherTool(o)
      PROVE  PendingInv'
  <2>1. Waiting' = Waiting /\ Answered' = Answered /\ UNCHANGED <<page, replies>>
    BY <1>2 DEF OtherTool, Waiting, Answered
  <2>2. \/ command' = command
        \/ /\ command # None /\ command' # None /\ command'.request = command.request
    BY <1>2, Nothings DEF OtherTool, TypeOK, Command
  <2>3. Running' = Running
    BY <2>2 DEF Running
  <2> QED
    BY <2>1, <2>3, FewerPending, PendingParts DEF PendingInv
<1>3. CASE UNCHANGED <<work, page>>
  <2>1. Waiting' = Waiting /\ Running' = Running /\ Answered' = Answered
    BY <1>3 DEF work, Waiting, Running, Answered
  <2> QED
    BY <1>3, <2>1, FewerPending, PendingParts DEF PendingInv, work
<1> QED
  BY <1>1, <1>2, <1>3 DEF Surroundings, Update, Damage

LEMMA PendingStep ==
    ASSUME TypeOK, DataInv, PendingInv, [Next]_vars
    PROVE  PendingInv'
<1>1. CASE UNCHANGED vars
  <2>1. Waiting' = Waiting /\ Running' = Running /\ Answered' = Answered
    BY <1>1 DEF vars, work, Waiting, Running, Answered
  <2> QED
    BY <1>1, <2>1, FewerPending, PendingParts DEF PendingInv, vars, work
<1> QED
  BY <1>1, CommandsPending, PagePending, SurroundingsPending DEF Next

-----------------------------------------------------------------------------
(* What the page is told.                                                  *)

LEMMA OnSame ==
    ASSUME UNCHANGED <<db, version>>
    PROVE  \A p : on(db, p)' = on(db, p)
BY DEF on, value, own, app_setting_supported

LEMMA OnAfter ==
    ASSUME UNCHANGED version
    PROVE  \A p : on(db, p)' = on(db', p)
BY DEF on, value, own, app_setting_supported

\* The switch of a game does not change what the driver resolves for another
\* profile: games inherit from the profile for all games only.
LEMMA OnElsewhere ==
    ASSUME NEW d \in Database, NEW e \in Database, NEW g \in Games, e.nvidia = d.nvidia,
           \A q \in Profiles \ {g} : e.user[q] = d.user[q],
           NEW p \in Profiles, p # g
    PROVE  on(e, p) = on(d, p)
<1>1. AllGames \in Profiles \ {g}
  BY Nothings
<1>2. e.user[p] = d.user[p] /\ e.user[AllGames] = d.user[AllGames]
  BY <1>1
<1>3. \A id \in Ids : own(e, p, id) = own(d, p, id) /\ own(e, AllGames, id) = own(d, AllGames, id)
  BY <1>2 DEF own
<1>4. \A id \in Ids : value(e, p, id) = value(d, p, id)
  BY <1>2, <1>3 DEF value
<1> QED
  BY <1>4 DEF on, Ids

LEMMA DoneTold ==
    ASSUME NEW r \in Request
    PROVE  /\ Done(r).request = r /\ Done(r).ok /\ Done(r).states \in [Rows(r) -> BOOLEAN]
           /\ \A p \in Rows(r) : Done(r).states[p] = on(db, p)
<1>1. r.target \in Profiles
  BY DEF Request
<1>2. \A p \in Profiles : on(db, p) \in BOOLEAN /\ states[p] = on(db, p)
  BY DEF states, on
<1>3. states \in [Profiles -> BOOLEAN]
  BY <1>2 DEF states
<1>4. Done(r).states = IF r.kind = "game" THEN [p \in {r.target} |-> states[p]] ELSE states
  BY DEF Done
<1>5. Done(r).request = r /\ Done(r).ok
  BY DEF Done
<1> QED
  BY <1>1, <1>2, <1>3, <1>4, <1>5 DEF Rows

LEMMA FailedTold == \A r : Failed(r).request = r /\ ~ Failed(r).ok
BY DEF Failed

\* Steps that answer with a failure at most.
LEMMA ToldStill ==
    ASSUME Told, UNCHANGED <<db, version>>, current' => current,
           \A x \in replies' : x \in replies \/ ~ x.ok
    PROVE  Told'
BY OnSame DEF Told, Rows

\* Steps after which the page may be wrong.
LEMMA ToldNothing ==
    ASSUME Told, ~ current', \A x \in replies' : x \in replies \/ ~ x.ok
    PROVE  Told'
BY DEF Told, Rows

LEMMA ToldDone ==
    ASSUME Told, UNCHANGED <<db, version>>, NEW r \in Request,
           replies' = replies \cup {Done(r)},
           current' => current \/ \A x \in replies : ~ x.request.own
    PROVE  Told'
<1> SUFFICES ASSUME NEW x \in replies', x.request.own, x.ok
             PROVE  /\ x.states \in [Rows(x.request) -> BOOLEAN]
                    /\ current' => \A p \in DOMAIN x.states : x.states[p] = on(db, p)'
  BY DEF Told, Rows
<1>1. CASE x = Done(r)
  BY <1>1, DoneTold, OnSame
<1>2. CASE x \in replies
  BY <1>2, OnSame DEF Told
<1> QED
  BY <1>1, <1>2

LEMMA ToldSave ==
    ASSUME TypeOK, DataInv, PendingInv, Told, Fresh, save
    PROVE  Told'
<1>1. /\ UNCHANGED version /\ command \in Command /\ command # None
      /\ command.step = "save"
  BY DEF save, Holding, TypeOK
<1>2. CASE UNCHANGED <<db, current>> /\ UNCHANGED replies
  BY <1>1, <1>2, ToldStill
<1>3. CASE UNCHANGED db /\ Answer(Failed(command.request)) /\ current' = FALSE
  BY <1>1, <1>3, ToldNothing, FailedTold DEF Answer
<1>4. CASE /\ db' = command.session /\ UNCHANGED replies
           /\ current' = (current /\ command.request.own)
  <2>1. CASE ~ current'
    BY <1>4, <2>1, ToldNothing
  <2>2. CASE current'
    <3> DEFINE r == command.request
    <3>1. current /\ r.own /\ r \in Running
      BY <1>1, <1>4, <2>2 DEF Running
    <3>2. SUFFICES ASSUME NEW x \in replies, x.request.own, x.ok
                   PROVE  /\ x.states \in [Rows(x.request) -> BOOLEAN]
                          /\ \A p \in DOMAIN x.states : x.states[p] = on(db, p)'
      BY <1>4 DEF Told, Rows
    <3>3. x.request \in Answered
      BY <3>2 DEF Answered
    <3>4. x.request # r /\ x.request \in Pending /\ r \in Pending
      BY <3>1, <3>3, PendingParts DEF PendingInv
    <3>5. r.kind = "game" /\ x.request.kind = "game" /\ x.request.target # r.target
          /\ x.request.target \in Games /\ r.target \in Games
      BY <3>4 DEF PendingInv
    <3>6. x.states \in [{x.request.target} -> BOOLEAN]
          /\ x.states[x.request.target] = on(db, x.request.target)
      BY <3>1, <3>2, <3>5 DEF Told, Rows
    <3>7. /\ command.session.nvidia = db.nvidia
          /\ \A q \in Profiles \ {r.target} : command.session.user[q] = db.user[q]
      BY <1>1, <3>1, <3>5 DEF Fresh
    <3>8. command.session \in Database /\ db \in Database
      BY <1>1 DEF Command, TypeOK
    <3> HIDE DEF r
    <3>9. on(command.session, x.request.target) = on(db, x.request.target)
      BY <3>5, <3>7, <3>8, OnElsewhere, Nothings
    <3>10. on(db, x.request.target)' = on(db', x.request.target)
      BY <1>1, OnAfter
    <3> QED
      BY <1>4, <3>2, <3>5, <3>6, <3>9, <3>10 DEF Rows
  <2> QED
    BY <2>1, <2>2
<1> QED
  BY <1>2, <1>3, <1>4 DEF save, history

LEMMA ToldStep ==
    ASSUME TypeOK, DataInv, PendingInv, Told, Fresh, [Next]_vars
    PROVE  Told'
<1>1. ASSUME NEW r \in requests, load_nvidia_game_settings(r)
      PROVE  Told'
  <2>1. UNCHANGED <<db, version>> /\ r \in Request /\ r.kind = "load"
    BY <1>1 DEF load_nvidia_game_settings, TypeOK
  <2>2. CASE Answer(Done(r)) /\ current' = (current \/ r.own)
    <3>1. r.own => \A x \in replies : ~ x.request.own
      <4>1. r.own => r \in Waiting
        BY DEF Waiting
      <4>2. \A x \in replies : x.request.own => x.request \in Answered
        BY DEF Answered
      <4> QED
        BY <2>1, <4>1, <4>2, PendingParts DEF PendingInv
    <3> QED
      BY <2>1, <2>2, <3>1, ToldDone DEF Answer
  <2>3. CASE Answer(Failed(r)) /\ current' = (current /\ ~ r.own)
    BY <2>1, <2>3, ToldStill, FailedTold DEF Answer
  <2> QED
    BY <1>1, <2>2, <2>3 DEF load_nvidia_game_settings
<1>2. ASSUME NEW r \in requests, change(r) \/ undo_start(r)
      PROVE  Told'
  BY <1>2, ToldStill, FailedTold DEF change, undo_start, Answer, history
<1>3. CASE record_and_stage
  BY <1>3, ToldStill, FailedTold DEF record_and_stage, Answer
<1>4. CASE save
  BY <1>4, ToldSave
<1>5. CASE read_back
  <2>1. command.request \in Request /\ UNCHANGED <<db, version>>
    BY <1>5 DEF read_back, Holding, TypeOK, Command
  <2>2. CASE Answer(Done(command.request)) /\ UNCHANGED current
    BY <2>1, <2>2, ToldDone DEF Answer
  <2>3. CASE Answer(Failed(command.request)) /\ current' = FALSE
    BY <2>3, ToldNothing, FailedTold DEF Answer
  <2> QED
    BY <1>5, <2>2, <2>3 DEF read_back
<1>6. CASE Page
  <2>1. UNCHANGED <<db, version, current>> /\ replies' \subseteq replies
    BY <1>6 DEF Page, reload, setGame, setAllGames, confirmUndo, receive, leave, history
  <2> QED
    BY <2>1, ToldStill
<1>7. CASE Surroundings
  <2>1. replies' \subseteq replies /\ (UNCHANGED <<db, version, current>> \/ ~ current')
    BY <1>7 DEF Surroundings, close, OtherTool, Update, Damage, work, history
  <2> QED
    BY <2>1, ToldStill, ToldNothing
<1>8. CASE UNCHANGED vars
  BY <1>8, ToldStill DEF vars, work, history
<1> QED
  BY <1>1, <1>2, <1>3, <1>4, <1>5, <1>6, <1>7, <1>8 DEF Next, Commands

LEMMA RecordFresh ==
    ASSUME TypeOK, Fresh, record_and_stage
    PROVE  Fresh'
<1>1. command \in Command /\ command # None /\ command.step = "record" /\ UNCHANGED db
  BY DEF record_and_stage, Holding, TypeOK
<1>2. CASE command' = None
  BY <1>2 DEF Fresh
<1>3. CASE /\ command' = [command EXCEPT !.step = "save", !.session = staged(command)]
           /\ UNCHANGED current
  <2>1. /\ command'.step = "save" /\ command'.session = staged(command)
        /\ command'.request = command.request
    BY <1>1, <1>3 DEF Command
  <2>2. Differs(command.session, staged(command), command.request.target)
    BY <1>1, StagedDiffers
  <2> QED
    BY <1>1, <1>3, <2>1, <2>2 DEF Fresh, Differs
<1> QED
  BY <1>2, <1>3 DEF record_and_stage, Answer

LEMMA FreshStep ==
    ASSUME TypeOK, Fresh, [Next]_vars
    PROVE  Fresh'
<1>1. CASE command' = None \/ ~ current'
  BY <1>1 DEF Fresh
<1>2. CASE UNCHANGED <<db, command, current>>
  BY <1>2 DEF Fresh
<1>3. ASSUME NEW r \in requests, change(r)
      PROVE  Fresh'
  <2>1. CASE command' = [request |-> r, step |-> "record", session |-> db,
                         originals |-> None, stale |-> FALSE]
    <3>1. command'.step = "record" /\ command'.session = db /\ UNCHANGED db
      BY <1>3, <2>1 DEF change
    <3> QED
      BY <3>1 DEF Fresh
  <2> QED
    BY <1>1, <1>3, <2>1 DEF change, Answer
<1>4. ASSUME NEW r \in requests, undo_start(r)
      PROVE  Fresh'
  <2>1. CASE command' = [request |-> r, step |-> "save", originals |-> record,
                         session |-> undone(record, db), stale |-> FALSE]
    <3>1. command'.step = "save" /\ command'.request.kind = "undo"
      BY <1>4, <2>1 DEF undo_start
    <3> QED
      BY <3>1 DEF Fresh
  <2> QED
    BY <1>1, <1>4, <2>1 DEF undo_start, Answer
<1>5. CASE save
  <2>1. CASE command' = [command EXCEPT !.step = "read"]
    <3>1. command'.step = "read"
      BY <1>5, <2>1 DEF save, Holding, TypeOK, Command
    <3> QED
      BY <3>1 DEF Fresh
  <2> QED
    BY <1>1, <1>5, <2>1 DEF save, Answer
<1>6. CASE Page
  <2>1. UNCHANGED <<db, current>>
    BY <1>6 DEF Page, reload, setGame, setAllGames, confirmUndo, receive, leave, history
  <2>2. CASE UNCHANGED command
    BY <1>2, <2>1, <2>2
  <2>3. CASE leave
    <3>1. command' # None =>
             /\ command # None /\ command \in Command
             /\ command'.step = command.step /\ command'.session = command.session
             /\ command'.request.kind = command.request.kind
             /\ command'.request.target = command.request.target
      BY <2>3 DEF leave, TypeOK, Command, Request, Orphan
    <3> QED
      BY <2>1, <3>1 DEF Fresh
  <2> QED
    BY <1>6, <2>2, <2>3 DEF Page, reload, setGame, setAllGames, confirmUndo, receive
<1>7. CASE Surroundings
  BY <1>1, <1>7 DEF Surroundings, close, OtherTool, Update, Damage
<1>8. ASSUME NEW r \in requests, load_nvidia_game_settings(r)
      PROVE  Fresh'
  BY <1>1, <1>8 DEF load_nvidia_game_settings, Answer
<1>9. CASE read_back
  BY <1>1, <1>9 DEF read_back, Answer
<1>10. CASE UNCHANGED vars
  BY <1>2, <1>10 DEF vars, work, history
<1> QED
  BY <1>3, <1>4, <1>5, <1>6, <1>7, <1>8, <1>9, <1>10, RecordFresh DEF Next, Commands

-----------------------------------------------------------------------------
(* What the page shows.                                                    *)

\* What is to be told is still to be told: requests to read the list stay,
\* and an answer comes from the command that was running.
LEMMA StillToBeTold ==
    ASSUME NEW p,
           \A x \in replies : x.request.own /\ x.ok /\ Covers(x.request, p) => x \in replies',
           \A r \in requests : r.own /\ r.kind = "load" => r \in requests',
           command # None /\ command.step = "read" =>
              \/ /\ command' # None /\ command'.step = "read"
                 /\ command'.request = command.request
              \/ \E x \in replies' : x.request = command.request /\ x.ok,
           ToBeTold(p)
    PROVE  ToBeTold(p)'
BY DEF ToBeTold, Covers

\* Steps after which the driver and the page are as they were.
LEMMA StillPromised ==
    ASSUME Promised, UNCHANGED <<db, version, page>>, current' => current,
           current' => \A p \in Profiles : ToBeTold(p) => ToBeTold(p)'
    PROVE  Promised'
<1> SUFFICES ASSUME Ready', current', NEW p \in Profiles
             PROVE  page'.states[p] = on(db, p)' \/ ToBeTold(p)'
  BY DEF Promised
<1>1. page.states[p] = on(db, p) \/ ToBeTold(p)
  BY DEF Promised, Ready
<1>2. on(db, p)' = on(db, p)
  BY OnSame
<1> QED
  BY <1>1, <1>2

LEMMA LoadPromised ==
    ASSUME TypeOK, Promised, NEW r \in requests, load_nvidia_game_settings(r)
    PROVE  Promised'
<1>1. /\ UNCHANGED <<db, version, page>> /\ r \in Request /\ r.kind = "load"
      /\ requests' = requests \ {r} /\ command = None
  BY DEF load_nvidia_game_settings, Lock, TypeOK
<1>2. CASE ~ current'
  BY <1>2 DEF Promised
<1>3. CASE r.own /\ current'
  <2>1. replies' = replies \cup {Done(r)}
    BY <1>1, <1>3 DEF load_nvidia_game_settings, Answer
  <2>2. Done(r).request = r /\ Done(r).ok
    BY <1>1, DoneTold
  <2>3. \A p \in Profiles : ToBeTold(p)'
    BY <1>1, <1>3, <2>1, <2>2 DEF ToBeTold, Covers
  <2> QED
    BY <2>3 DEF Promised
<1>4. CASE ~ r.own
  <2>1. (current' => current) /\ replies \subseteq replies'
    BY <1>1, <1>4 DEF load_nvidia_game_settings, Answer
  <2>2. \A p \in Profiles : ToBeTold(p) => ToBeTold(p)'
    BY <1>1, <1>4, <2>1, StillToBeTold
  <2> QED
    BY <1>1, <2>1, <2>2, StillPromised
<1> QED
  BY <1>2, <1>3, <1>4

LEMMA SavePromised ==
    ASSUME TypeOK, DataInv, PendingInv, Fresh, Promised, save
    PROVE  Promised'
<1>1. /\ UNCHANGED <<version, page, requests>> /\ command \in Command /\ command # None
      /\ command.step = "save"
  BY DEF save, Holding, TypeOK
<1>2. CASE ~ current'
  BY <1>2 DEF Promised
<1>3. CASE UNCHANGED <<db, current, replies>>
  <2>1. \A p \in Profiles : ToBeTold(p) => ToBeTold(p)'
    BY <1>1, <1>3, StillToBeTold
  <2> QED
    BY <1>1, <1>3, <2>1, StillPromised
<1>4. CASE /\ current' /\ db' = command.session /\ UNCHANGED replies
           /\ command' = [command EXCEPT !.step = "read"]
           /\ current' = (current /\ command.request.own)
  <2> DEFINE r == command.request
  <2>1. /\ current /\ r.own /\ r \in Request /\ command.session \in Database /\ db \in Database
        /\ command' # None /\ command'.step = "read" /\ command'.request = r
    BY <1>1, <1>4, Nothings DEF Command, TypeOK
  <2>2. SUFFICES ASSUME Ready', NEW p \in Profiles
                 PROVE  page'.states[p] = on(db, p)' \/ ToBeTold(p)'
    BY DEF Promised
  <2>3. CASE Covers(r, p)
    BY <2>1, <2>3 DEF ToBeTold, Covers
  <2>4. CASE ~ Covers(r, p)
    <3>1. r.kind = "game" /\ r.target # p
      BY <2>4 DEF Covers
    <3>2. r.target \in Games
      BY <1>1, <2>1, <3>1, PendingParts DEF PendingInv, Running
    <3>3. /\ command.session.nvidia = db.nvidia
          /\ \A q \in Profiles \ {r.target} : command.session.user[q] = db.user[q]
      BY <1>1, <2>1, <3>1 DEF Fresh
    <3> HIDE DEF r
    <3>4. on(command.session, p) = on(db, p)
      BY <2>1, <3>1, <3>2, <3>3, OnElsewhere
    <3>5. on(db, p)' = on(db', p)
      BY <1>1, OnAfter
    <3>6. page.states[p] = on(db, p) \/ ToBeTold(p)
      BY <1>1, <2>1, <2>2 DEF Promised, Ready
    <3>7. ToBeTold(p) => ToBeTold(p)'
      BY <1>1, <1>4, StillToBeTold
    <3> QED
      BY <1>1, <1>4, <3>4, <3>5, <3>6, <3>7
  <2> QED
    BY <2>3, <2>4
<1> QED
  BY <1>2, <1>3, <1>4 DEF save, history

LEMMA CommandsPromised ==
    ASSUME TypeOK, DataInv, PendingInv, Fresh, Promised, Commands
    PROVE  Promised'
<1>1. ASSUME NEW r \in requests, change(r) \/ undo_start(r)
      PROVE  Promised'
  <2>1. /\ UNCHANGED <<db, version, page, current>> /\ requests' = requests \ {r}
        /\ r.kind # "load" /\ replies \subseteq replies' /\ command = None
    BY <1>1 DEF change, undo_start, Lock, Answer, history
  <2>2. \A p \in Profiles : ToBeTold(p) => ToBeTold(p)'
    BY <2>1, StillToBeTold
  <2> QED
    BY <2>1, <2>2, StillPromised
<1>2. CASE record_and_stage
  <2>1. /\ UNCHANGED <<db, version, page, requests>> /\ command.step = "record"
        /\ ~ current' \/ UNCHANGED <<replies, current>>
    BY <1>2 DEF record_and_stage, Holding
  <2>2. CASE ~ current'
    BY <2>2 DEF Promised
  <2>3. CASE UNCHANGED <<replies, current>>
    <3>1. \A p \in Profiles : ToBeTold(p) => ToBeTold(p)'
      BY <2>1, <2>3, StillToBeTold
    <3> QED
      BY <2>1, <2>3, <3>1, StillPromised
  <2> QED
    BY <2>1, <2>2, <2>3
<1>3. CASE read_back
  <2>1. UNCHANGED <<db, version, page, requests>> /\ command.request \in Request
    BY <1>3 DEF read_back, Holding, TypeOK, Command
  <2>2. CASE ~ current'
    BY <2>2 DEF Promised
  <2>3. CASE Answer(Done(command.request)) /\ UNCHANGED current
    <3>1. Done(command.request).request = command.request /\ Done(command.request).ok
      BY <2>1, DoneTold
    <3>2. replies' = replies \cup {Done(command.request)}
      BY <2>3 DEF Answer
    <3>3. \A p \in Profiles : ToBeTold(p) => ToBeTold(p)'
      BY <2>1, <3>1, <3>2, StillToBeTold
    <3> QED
      BY <2>1, <2>3, <3>3, StillPromised
  <2> QED
    BY <1>3, <2>2, <2>3 DEF read_back
<1> QED
  BY <1>1, <1>2, <1>3, LoadPromised, SavePromised DEF Commands

LEMMA ReceivePromised ==
    ASSUME TypeOK, PendingInv, Told, Promised, NEW reply \in replies, receive(reply)
    PROVE  Promised'
<1> DEFINE r == reply.request
<1>1. UNCHANGED <<db, version, command, current>> /\ replies' = replies \ {reply}
  BY DEF receive, history
<1>2. CASE UNCHANGED page /\ requests \subseteq requests' /\ ~ (r.own /\ reply.ok)
  <2>1. \A p \in Profiles : ToBeTold(p) => ToBeTold(p)'
    BY <1>1, <1>2, StillToBeTold
  <2> QED
    BY <1>1, <1>2, <2>1, StillPromised
<1>3. CASE r.own /\ reply.ok /\ r.kind = "game" /\ setGame_done(reply)
  <2>1. r.target \in Profiles /\ Rows(r) = {r.target}
    BY <1>3 DEF TypeOK, Request, Rows
  <2>2. SUFFICES ASSUME Ready', current', NEW p \in Profiles
                 PROVE  page'.states[p] = on(db, p)' \/ ToBeTold(p)'
    BY DEF Promised
  <2>3. page' = [page EXCEPT !.undo = reply.undo,
                             !.states[r.target] = reply.states[r.target]]
    BY <1>3 DEF setGame_done
  <2>4. Ready /\ page.states \in [Profiles -> BOOLEAN]
    BY <2>2, <2>3 DEF Ready, TypeOK
  <2>5. page'.states = [page.states EXCEPT ![r.target] = reply.states[r.target]]
    BY <2>3 DEF TypeOK
  <2>6. on(db, p)' = on(db, p)
    BY <1>1, OnSame
  <2>7. CASE p = r.target
    <3>1. reply.states[p] = on(db, p)
      BY <1>1, <1>3, <2>1, <2>2, <2>7 DEF Told
    <3> QED
      BY <2>4, <2>5, <2>6, <2>7, <3>1
  <2>8. CASE p # r.target
    <3>1. page'.states[p] = page.states[p]
      BY <2>4, <2>5, <2>8
    <3>2. page.states[p] = on(db, p) \/ ToBeTold(p)
      BY <1>1, <2>2, <2>4 DEF Promised
    <3>3. ~ Covers(r, p) /\ UNCHANGED requests
      BY <1>3, <2>8 DEF Covers, setGame_done
    <3>4. ToBeTold(p) => ToBeTold(p)'
      BY <1>1, <3>3, StillToBeTold
    <3> QED
      BY <2>6, <3>1, <3>2, <3>4
  <2> QED
    BY <2>7, <2>8
<1>4. CASE r.own /\ reply.ok /\ r.kind = "all" /\ Ask("load", AllGames, FALSE, None)
  <2>1. PICK s : s.own /\ s.kind = "load" /\ requests' = requests \cup {s}
    <3>1. \E to, shown : Ask("load", AllGames, to, shown)
      BY <1>4
    <3> QED
      BY <3>1, Asked
  <2>2. \A p \in Profiles : ToBeTold(p)'
    BY <2>1 DEF ToBeTold
  <2> QED
    BY <2>2 DEF Promised
<1>5. CASE r.own /\ reply.ok /\ r.kind \in {"load", "undo"} /\ apply(reply)
  <2>1. page'.states = reply.states
    BY <1>5 DEF apply
  <2>2. current => \A p \in Profiles : reply.states[p] = on(db, p)
    BY <1>5 DEF Told, Rows
  <2>3. \A p : on(db, p)' = on(db, p)
    BY <1>1, OnSame
  <2> QED
    BY <1>1, <2>1, <2>2, <2>3 DEF Promised
<1>6. CASE page'.state # "ready"
  BY <1>6 DEF Promised, Ready
<1>7. CASE ~ r.own
  BY <1>2, <1>7 DEF receive
<1>8. CASE r.own /\ ~ reply.ok
  <2>1. page'.state # "ready" \/ (UNCHANGED page /\ requests \subseteq requests')
    BY <1>8 DEF receive, setGame_done, bulk_done, apply, Closed
  <2> QED
    BY <1>2, <1>6, <1>8, <2>1
<1>9. CASE r.own /\ reply.ok
  BY <1>3, <1>4, <1>5, <1>9 DEF receive, bulk_done
<1> QED
  BY <1>7, <1>8, <1>9

LEMMA PagePromised ==
    ASSUME TypeOK, PendingInv, Told, Promised, Page
    PROVE  Promised'
<1>1. CASE reload \/ leave
  <2>1. Closed.state = "closed" /\ [Closed EXCEPT !.state = "loading"].state = "loading"
    BY DEF Closed
  <2>2. page' = Closed \/ page' = [Closed EXCEPT !.state = "loading"]
    BY <1>1 DEF reload, leave
  <2>3. page'.state # "ready"
    BY <2>1, <2>2
  <2> QED
    BY <2>3 DEF Promised, Ready
<1>2. CASE /\ UNCHANGED <<db, version, page, command, replies, current>>
           /\ requests \subseteq requests'
  <2>1. \A p \in Profiles : ToBeTold(p) => ToBeTold(p)'
    BY <1>2, StillToBeTold
  <2> QED
    BY <1>2, <2>1, StillPromised
<1>3. ASSUME NEW g \in Games, NEW to \in BOOLEAN, setGame(g, to)
      PROVE  Promised'
  BY <1>2, <1>3 DEF setGame, Ask, history
<1>4. ASSUME NEW to \in BOOLEAN, setAllGames(to)
      PROVE  Promised'
  BY <1>2, <1>4 DEF setAllGames, Ask, history
<1>5. CASE confirmUndo
  BY <1>2, <1>5 DEF confirmUndo, Ask, history
<1> QED
  BY <1>1, <1>3, <1>4, <1>5, ReceivePromised DEF Page

LEMMA PromisedStep ==
    ASSUME TypeOK, DataInv, ScreenInv, [Next]_vars
    PROVE  Promised'
<1>1. CASE Surroundings
  <2>1. Closed.state = "closed"
    BY DEF Closed
  <2>2. page' = Closed \/ ~ current'
    BY <1>1 DEF Surroundings, close, OtherTool, Update, Damage
  <2> QED
    BY <2>1, <2>2 DEF Promised, Ready
<1>2. CASE UNCHANGED vars
  <2>1. UNCHANGED <<db, version, page, command, replies, requests, current>>
    BY <1>2 DEF vars, work, history
  <2>2. \A p \in Profiles : ToBeTold(p) => ToBeTold(p)'
    BY <2>1, StillToBeTold
  <2> QED
    BY <2>1, <2>2, StillPromised DEF ScreenInv
<1> QED
  BY <1>1, <1>2, CommandsPromised, PagePromised DEF Next, ScreenInv

LEMMA ScreenInit == Init => ScreenInv
<1> SUFFICES ASSUME Init PROVE ScreenInv
  OBVIOUS
<1>1. /\ requests = {} /\ replies = {} /\ command = None /\ page.state = "closed"
      /\ current = FALSE
  BY DEF Init, Closed
<1>2. Waiting = {} /\ Running = {} /\ Answered = {}
  BY <1>1 DEF Waiting, Running, Answered
<1> QED
  BY <1>1, <1>2, PendingParts DEF ScreenInv, PendingInv, Told, Fresh, Promised

-----------------------------------------------------------------------------
(* Theorems.                                                               *)

\* What the files, the session and the database have to do with each other,
\* and the page with its commands, holds of every state: the reason for the
\* theorems below.
THEOREM InductiveInvariant == Spec => []IInv
<1>1. Init => IInv
  BY TypeInit, DataInit, ScreenInit DEF IInv
<1>2. IInv /\ [Next]_vars => IInv'
  BY TypeStep, DataStep, PendingStep, ToldStep, FreshStep, PromisedStep DEF IInv, ScreenInv
<1> QED
  BY <1>1, <1>2, PTL DEF Spec

\* Sessions, records, requests and rows are what their types say, whatever
\* other tools, updates and crashes leave behind.
THEOREM TypeCorrect == Spec => []TypeOK
<1>1. IInv => TypeOK
  BY DEF IInv
<1> QED
  BY <1>1, InductiveInvariant, PTL

\* Every profile that was ever changed is in an intact copy with values it
\* had before (mod.rs ensure_backup).
THEOREM CopyKept == Spec => []CopyHasEarlierValues
<1>1. IInv => CopyHasEarlierValues
  BY DEF IInv, DataInv, CopyInv, Copied, CopyHasEarlierValues
<1> QED
  BY <1>1, InductiveInvariant, PTL

\* An undo that reports success has put back values from before the first
\* change (undo.rs).
THEOREM PutsBack == Spec => UndoPutsBack
<1> DEFINE A == \A p \in Profiles :
                   /\ read_back /\ command.request.kind = "undo"
                   /\ \E reply \in replies' \ replies : reply.ok
                   /\ held[p].changed /\ ~held[p].lost /\ p \in db.names
                   => db.user[p] \in held[p].values
<1>1. IInv => A
  <2> SUFFICES ASSUME IInv, NEW p \in Profiles, read_back, command.request.kind = "undo",
                      NEW reply \in replies' \ replies, reply.ok,
                      held[p].changed, ~ held[p].lost, p \in db.names
               PROVE  db.user[p] \in held[p].values
    OBVIOUS
  <2>1. ~ Answer(Failed(command.request))
    BY FailedTold DEF Answer
  <2>2. command # None /\ verified(command)
    BY <2>1 DEF read_back, Holding
  <2>3. Readable /\ record[p] # None /\ record[p].values \in held[p].values
    BY DEF IInv, DataInv, RecordInv
  <2>4. command.originals = record
    BY <2>2, <2>3 DEF IInv, DataInv, CommandInv, Readable
  <2>5. p \in restorable(record, db)
    BY <2>3 DEF restorable, recorded
  <2>6. matches(record, db, p)
    BY <2>2, <2>4, <2>5 DEF verified
  <2> QED
    BY <2>3, <2>6 DEF matches
<1>2. IInv /\ [Next]_vars => [A]_vars
  BY <1>1
<1> QED
  BY <1>2, InductiveInvariant, PTL DEF Spec, UndoPutsBack

\* An undo saves changes of no profile that the user was not shown as
\* changed (undo.rs).
THEOREM UndoesShown == Spec => UndoesWhatWasShown
<1> DEFINE A == save /\ command.request.kind = "undo" /\ ~command.stale =>
                   \A p \in Profiles :
                      command.request.undo[p] = None => db'.user[p] = db.user[p]
<1>1. IInv => A
  <2> SUFFICES ASSUME IInv, save, command.request.kind = "undo", ~ command.stale,
                      NEW p \in Profiles, command.request.undo[p] = None
               PROVE  db'.user[p] = db.user[p]
    OBVIOUS
  <2>1. command # None /\ command.step = "save"
    BY DEF save, Holding
  <2>2. /\ command.originals \in Record /\ command.request.undo = command.originals
        /\ command.session = undone(command.originals, db)
    BY <2>1 DEF IInv, DataInv, CommandInv
  <2>3. p \notin recorded(command.originals)
    BY <2>2 DEF recorded
  <2>4. command.session.user[p] = db.user[p]
    BY <2>2, <2>3, UndoneDiffers DEF IInv, TypeOK
  <2> QED
    BY <2>4 DEF save
<1>2. IInv /\ [Next]_vars => [A]_vars
  BY <1>1
<1> QED
  BY <1>2, InductiveInvariant, PTL DEF Spec, UndoesWhatWasShown

\* A page that waits for nothing, and behind whose back nothing went on,
\* shows for each game what the driver resolves (use-game-settings.ts).
THEOREM PageShows == Spec => []ShowsTheDriver
<1>1. IInv => ShowsTheDriver
  <2> SUFFICES ASSUME IInv, Ready, Pending = {}, current
               PROVE  page.states = states
    BY DEF ShowsTheDriver
  <2>1. page.states \in [Profiles -> BOOLEAN]
    BY DEF IInv, TypeOK
  <2>2. Waiting = {} /\ Running = {} /\ Answered = {}
    BY PendingParts
  <2>3. \A p \in Profiles : ~ ToBeTold(p)
    BY <2>2 DEF ToBeTold, Waiting, Running, Answered
  <2>4. \A p \in Profiles : page.states[p] = on(db, p)
    BY <2>3 DEF IInv, ScreenInv, Promised
  <2> QED
    BY <2>1, <2>4 DEF states
<1> QED
  BY <1>1, InductiveInvariant, PTL
=============================================================================
