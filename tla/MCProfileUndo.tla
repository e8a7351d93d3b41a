--------------------------- MODULE MCProfileUndo ---------------------------
(***************************************************************************)
(* Two games.  NVIDIA turned the first one on and the user off again, and  *)
(* the user chose options for the second, or the driver does not have the  *)
(* second yet.  An update drops the first game and has the second one on.  *)
(***************************************************************************)
EXTENDS ProfileUndo, TLC

CONSTANTS g1, g2, all

TwoGames == {g1, g2}

Set(app, enable, options, size) ==
    [id \in Ids |-> CASE id = "app" -> app [] id = "enable" -> enable
                      [] id = "options" -> options [] OTHER -> size]

Nothing == Set(None, None, None, None)

Profile(first, second) == (g1 :> first) @@ (g2 :> second) @@ (all :> Nothing)

ByNvidia == Profile(Set(None, "on", "other", "other"), Nothing)

TwoDatabases ==
    {[names |-> Profiles, nvidia |-> ByNvidia,
      user |-> Profile(Set(None, "off", None, None),
                       Set(None, None, "other", "1GiB"))],
     [names |-> {g1, all}, nvidia |-> ByNvidia,
      user |-> Profile(Set(None, "off", None, None), Nothing)]}

OneUpdate ==
    {[names |-> {g2, all}, user |-> Profile(Nothing, Nothing),
      nvidia |-> Profile(Nothing, Set(None, "on", None, None))]}

SomeOthers ==
    {[p |-> g1, id |-> "enable", v |-> None],
     [p |-> all, id |-> "enable", v |-> "on"]}

-----------------------------------------------------------------------------
(* One command down to the calls of the driver, on every small database.   *)

Session == INSTANCE DriverSession

N(n) == Session!Dword(n)

\* A profile of the user: values off and on, of another tool, in each type.
ByUser ==
    {Set(a, e, o, s) : a \in {None, N(0), N(2)}, e \in {None, N(0), N(1), Session!Text},
                          o \in {None, N(1), N(3)},
                          s \in {None, N(1), Session!Qword(1), Session!Qword(4), Session!Text}}

\* NVIDIA has the game on, by either setting, or off, or knows nothing of it.
OfNvidia ==
    {Nothing, Set(N(1), N(1), N(3), Session!Qword(4)), Set(N(2), None, None, None),
     Set(None, N(0), None, Session!Binary(4))}

ForAll == {Nothing, Set(N(2), N(1), None, N(1)), Set(None, N(1), N(1), Session!Binary(1))}

Db(user, global, nvidia) ==
    [user |-> (Session!Game :> user) @@ (Session!GlobalProfile :> global),
     nvidia |-> (Session!Game :> nvidia) @@ (Session!GlobalProfile :> Nothing)]

Drivers == [version : {44000, 60000, 61000, 61656}, own : BOOLEAN]

Fails == {None, "read", "write", "read back"}

\* A switch that saves anything leaves the profile as asked, no other profile and
\* none of NVIDIA's values changed, what the user or NVIDIA chose of options and
\* size, and the type of the size where the driver has no fixed one.  It does unless a
\* call fails or the driver has no accessor that knows the settings.
ASSUME SwitchIsWhole ==
    \A user \in ByUser, nvidia \in OfNvidia, global \in ForAll, driver \in Drivers,
       asked \in BOOLEAN, fails \in Fails :
        LET before == Db(user, global, nvidia)
            end == Session!change(driver, before, None, Session!Game, asked, fails)
            after == end.db.user[Session!Game]
            size(d) == Session!setting(driver, d, Session!Game, "size")
        IN  /\ fails = None /\ Session!Known(driver) => end.result = "done"
            /\ end.db # before => /\ fails \notin {"read", "write"}
                             /\ Session!On(driver, end.db, Session!Game) = asked
            /\ end.db.nvidia = before.nvidia
            /\ end.db.user[Session!GlobalProfile] = global
            /\ \A id \in {"options", "size"} :
                   after[id] # user[id] => IF asked THEN user[id] = None /\ nvidia[id] = None
                                           ELSE user[id].n = 1
            /\ ~Session!qword_size_limit(driver) /\ asked /\ size(end.db) # None =>
                  size(end.db).value.type = size(before).value.type

\* The undo puts every value back in its type, whatever a switch, another tool
\* or an update has made of the profile since; only texts, which cannot be
\* written, stay, and only for a value NVIDIA has withdrawn does the driver
\* refuse it.  It takes none of NVIDIA's values along.
ASSUME UndoIsExact ==
    \A user \in ByUser, nvidia \in OfNvidia, driver \in {d \in Drivers : Session!Known(d)},
       now \in {Nothing, Set(N(0), N(0), None, None), Set(N(2), N(1), N(1), Session!Qword(1)),
                Set(None, Session!Text, N(3), Session!Text)},
       later \in OfNvidia :
        LET found == Db(user, Nothing, nvidia)
            kept == Session!record(Session!rebar_settings(driver, found, Session!Game))
            end == Session!undo(driver, Db(now, Nothing, later), kept, Session!Game, None)
        IN  /\ end.result = "refused" =>
                  \E id \in Session!Ids : nvidia[id] # None /\ later[id] = None
            /\ end.result # "refused" =>
                  /\ end.result = "done"
                  /\ \A id \in Session!Ids :
                        end.db.user[Session!Game][id] =
                            IF user[id] = Session!Text THEN now[id] ELSE user[id]
            /\ end.db.nvidia[Session!Game] = later

=============================================================================
