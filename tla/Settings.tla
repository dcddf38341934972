------------------------------- MODULE Settings -------------------------------
(***************************************************************************)
(* The settings of the rig as an operator changes them in a browser        *)
(* (ui/App.tsx, ui/ConfigDrawer.tsx, ui/api.ts), as any other client does, *)
(* and as the server sanitizes and keeps them (app.ts, shared): cached     *)
(* queries, a drawer that copies them into a form, and Apply, which is     *)
(* four requests one after the other.                                      *)
(*                                                                         *)
(* Of a profile the model keeps the rate and the weights of two scenarios, *)
(* of the gateway its two URLs, of the thresholds one.                     *)
(***************************************************************************)
EXTENDS Integers, Sequences, FiniteSets, FiniteSetsExt

CONSTANTS
    MaxRps,        \* LIMITS.rps
    Edits,         \* what may be typed into the form: by key, a set of values
    Puts,          \* what another client may send: by key, a set of bodies
    LateKeys,      \* bound: the queries with answers that come late
    MaxOpens, MaxEvents   \* bounds: drawers opened; edits, PUTs of others and failures

\* The order of Apply.
Keys == <<"gw", "profile", "slo", "policy">>
KeySet == {Keys[i] : i \in DOMAIN Keys}
\* Asked for again and again while the dashboard is open; slo only by the drawer.
Polled == {"gw", "profile", "policy"}

Junk == -1000000   \* not a number
Null == -1000001
NoUrl == "junk"    \* not an http(s) URL

----------------------------------------------------------------------------
(* Sanitizers.  A body is a record with some of the fields of the value.   *)

Field(raw, f) == IF f \in DOMAIN raw THEN raw[f] ELSE Junk
Url(raw, s) == IF s \in DOMAIN raw THEN raw[s] ELSE NoUrl
Clamped(n, lo, hi) == Min({hi, Max({lo, n})})
\* clampNum: null counts as 0, as Number(null) does.
ClampNum(v, lo, hi, fallback) ==
    IF v = Junk THEN fallback ELSE Clamped(IF v = Null THEN 0 ELSE v, lo, hi)
\* optClamp and its ?? fallback: null is nothing.
OptClamp(v, lo, hi, fallback) == IF v \in {Junk, Null} THEN fallback ELSE Clamped(v, lo, hi)

\* sanitizeLoadProfile: a mix of nothing but zeros is replaced by the base's.
SanitizedProfile(raw, base) ==
    LET w == [s \in DOMAIN base.weights |->
                ClampNum(IF "weights" \in DOMAIN raw THEN Field(raw.weights, s) ELSE Junk, 0, 9, base.weights[s])]
    IN  [rps |-> OptClamp(Field(raw, "rps"), 0, MaxRps, base.rps),
         weights |-> IF \A s \in DOMAIN w : w[s] = 0 THEN base.weights ELSE w]

\* sanitizeGwTargets: a flat body of an older version is for both sides.
Sides == {"rest", "soap"}
SanitizedUrl(url, base) == IF url = NoUrl THEN base ELSE url
SanitizedGw(raw, base) ==
    LET flat == "baseUrl" \in DOMAIN raw /\ DOMAIN raw \cap Sides = {} IN
    [s \in Sides |-> SanitizedUrl(IF flat THEN raw.baseUrl ELSE Url(raw, s), base[s])]
\* validateGwTargets
ValidGw(raw) == \A s \in Sides : Url(raw, s) # NoUrl

\* sanitizeSlo: null is a value.
SanitizedSlo(raw, base) ==
    LET v == Field(raw, "leaked") IN
    [leaked |-> IF v = Null THEN Null ELSE OptClamp(v, 0, 9, base.leaked)]
\* sanitizePolicyConfig: the list is the body's or the base's, whole.
SanitizedPolicy(raw, base) ==
    [required |-> IF "required" \in DOMAIN raw THEN raw.required ELSE base.required]

Sanitized(k, raw, base) ==
    CASE k = "gw" -> SanitizedGw(raw, base) [] k = "profile" -> SanitizedProfile(raw, base)
      [] k = "slo" -> SanitizedSlo(raw, base) [] k = "policy" -> SanitizedPolicy(raw, base)

\* DEFAULT_GW_TARGETS, DEFAULT_LOAD_PROFILE, DEFAULT_SLO, DEFAULT_POLICY_CONFIG.
Default ==
    [gw |-> [s \in Sides |-> "self"], profile |-> [rps |-> 1, weights |-> [list |-> 2, create |-> 1]],
     slo |-> [leaked |-> 0], policy |-> [required |-> {}]]

\* What a form can show of a setting, and of what kind a body's fields are.
IsForm(k, v) ==
    CASE k = "gw" -> v = [s \in Sides |-> v[s]]
      [] k = "profile" -> v \in [rps : 0..MaxRps, weights : [{"list", "create"} -> 0..9]]
      [] k = "slo" -> v \in [leaked : 0..9 \union {Null}]
      [] k = "policy" -> v = [required |-> v.required]
IsBody(k, raw) ==
    /\ k = "profile" =>
          /\ Field(raw, "rps") \in Int
          /\ "weights" \in DOMAIN raw => \A s \in DOMAIN raw.weights : raw.weights[s] \in Int
    /\ k = "slo" => Field(raw, "leaked") \in Int
ASSUME SettingsAssumption ==
    /\ MaxRps \in Nat \ {0} /\ MaxOpens \in Nat
    /\ \A k \in KeySet : (\A v \in Edits[k] : IsForm(k, v)) /\ (\A raw \in Puts[k] : IsBody(k, raw))

----------------------------------------------------------------------------
VARIABLES
    server,   \* the stored settings
    cache,    \* data of the queries in this tab
    late,     \* an answer under way that was read before what came since
    asked,    \* the GET of slo that a closing drawer leaves behind is under way
    drawer,   \* the configuration drawer
    saves,    \* handleSave of each drawer that was opened, while it runs
    typed,    \* history: what was typed into the form since it was filled
    written,  \* history: the keys others have written since
    opens, events   \* what is used of the bounds
bound == <<opens, events>>
getting == <<late, asked>>
settingsVars == <<server, cache, getting, drawer, saves, typed, written, bound>>
history == <<typed, written>>

NotLoaded == <<>>
NoAnswer == [key |-> "none"]
Closed == [pc |-> "closed"]
Open == drawer.pc # "closed"
With(f, x, v) == [y \in DOMAIN f \union {x} |-> IF y = x THEN v ELSE f[y]]
Event == events < MaxEvents /\ events' = events + 1 /\ UNCHANGED opens

SettingsInit ==
    /\ server = Default /\ cache = [k \in KeySet |-> IF k \in {"gw", "profile"} THEN Default[k] ELSE NotLoaded]
    /\ late = NoAnswer /\ asked = FALSE
    /\ drawer = Closed /\ saves = <<>> /\ typed = <<>> /\ written = {}
    /\ opens = 0 /\ events = 0

----------------------------------------------------------------------------
(* Queries.  One request per key is under way at most, and only one answer *)
(* at a time is late (bound).  A request goes on when its observer is gone.*)

Observed(k) == k \in Polled \/ Open
UnderWay(k) == Observed(k) \/ (k = "slo" /\ asked)
Answered(k) == asked' = (asked /\ k # "slo")

\* Mutant: the form is filled again whenever the server's values land.
AdoptedAgain(d, c) ==
    IF c["slo"] # NotLoaded /\ c["policy"] # NotLoaded
    THEN [d EXCEPT !.adopted = TRUE, !.form["slo"] = c["slo"], !.form["policy"] = c["policy"]] ELSE d

\* The effect of the drawer: once both have landed, and only once.
Adopted(d, c) ==
    IF ~d.adopted /\ c["slo"] # NotLoaded /\ c["policy"] # NotLoaded
    THEN [d EXCEPT !.adopted = TRUE, !.form["slo"] = c["slo"], !.form["policy"] = c["policy"]] ELSE d
Refilled(c) == IF Open THEN Adopted(drawer, c) ELSE drawer

\* What was typed into the two before they were filled is gone.
KeptTyped(d) == IF Open /\ d # drawer THEN [k \in DOMAIN typed \ {"slo", "policy"} |-> typed[k]] ELSE typed

Lands(k, v) ==
    LET c == [cache EXCEPT ![k] = v] IN
    /\ cache' = c /\ drawer' = Refilled(c)
    /\ typed' = IF Open /\ ~drawer.adopted THEN KeptTyped(Refilled(c)) ELSE typed
    /\ UNCHANGED <<server, saves, written, bound>>

Refresh(k) == UnderWay(k) /\ late.key # k /\ Lands(k, server[k]) /\ Answered(k) /\ UNCHANGED late
Delayed(k) ==
    /\ k \in LateKeys /\ UnderWay(k) /\ late = NoAnswer /\ late' = [key |-> k, value |-> server[k]]
    /\ UNCHANGED <<server, cache, asked, drawer, saves, history, bound>>
LateLands == late # NoAnswer /\ late' = NoAnswer /\ Lands(late.key, late.value) /\ Answered(late.key)
\* It is lost, and its one retry too.
AskedInVain ==
    /\ asked /\ asked' = FALSE /\ late' = (IF late.key = "slo" THEN NoAnswer ELSE late) /\ Event
    /\ UNCHANGED <<server, cache, drawer, saves, history>>

(* qc.invalidateQueries: what has an observer is asked for again, whatever *)
(* is under way.  The drawer is still mounted when its own onClose calls   *)
(* it, but not when a save ends whose drawer is gone.                      *)
Invalidated ==
    /\ asked' = (asked \/ Open)
    /\ late' = IF late # NoAnswer /\ ~Observed(late.key) THEN late ELSE NoAnswer

----------------------------------------------------------------------------
(* The drawer.                                                             *)

Shown(k) == IF cache[k] = NotLoaded THEN Default[k] ELSE cache[k]

OpenDrawer ==
    /\ ~Open /\ opens < MaxOpens /\ opens' = opens + 1 /\ UNCHANGED events
    /\ drawer' = Adopted([pc |-> "open", id |-> opens + 1, adopted |-> FALSE,
                          form |-> [Default EXCEPT !["gw"] = Shown("gw"), !["profile"] = Shown("profile")]], cache)
    /\ typed' = <<>> /\ written' = {}
    /\ UNCHANGED <<server, cache, getting, saves>>

\* NumField and its like: junk is not committed, a number is clamped.
Edit(k, v) ==
    /\ Open /\ drawer.form[k] # v /\ Event
    /\ drawer' = [drawer EXCEPT !.form[k] = v]
    /\ typed' = With(typed, k, v)
    /\ UNCHANGED <<server, cache, getting, saves, written>>

\* onClose of App: by Escape, Cancel, or the end of a save, whoever began it.
Closes == drawer' = Closed /\ Invalidated
Cancel ==
    /\ Open /\ Closes
    /\ UNCHANGED <<server, cache, saves, history, bound>>

\* handleSave sends what the form shows now; the props are what App shows now.
Sent ==
    [gw |-> SanitizedGw(drawer.form["gw"], Shown("gw")),
     profile |-> SanitizedProfile(drawer.form["profile"], Shown("profile")),
     slo |-> SanitizedSlo(drawer.form["slo"], drawer.form["slo"]),
     policy |-> SanitizedPolicy(drawer.form["policy"], drawer.form["policy"])]
Saving(id) == id \in DOMAIN saves
Apply ==
    /\ Open /\ ~Saving(drawer.id) /\ ValidGw(drawer.form["gw"])
    /\ saves' = With(saves, drawer.id, [sent |-> Sent, next |-> 1, typed |-> typed])
    /\ UNCHANGED <<server, cache, getting, drawer, history, bound>>

\* The PUT handler: sanitized over what is stored.
Stored(k, raw) == server' = [server EXCEPT ![k] = Sanitized(k, raw, server[k])]
Finished(id) == saves' = [i \in DOMAIN saves \ {id} |-> saves[i]]
\* (History: the save of a drawer that was closed is somebody else.)
Notes(id) == written' = IF Open /\ drawer.id = id THEN written ELSE written \union {Keys[saves[id].next]}

PutNext(id) ==
    /\ Saving(id)
    /\ Stored(Keys[saves[id].next], saves[id].sent[Keys[saves[id].next]])
    /\ Notes(id)
    /\ IF saves[id].next < Len(Keys)
       THEN saves' = [saves EXCEPT ![id].next = @ + 1] /\ UNCHANGED <<drawer, getting>>
       ELSE Finished(id) /\ Closes
    /\ UNCHANGED <<cache, typed, bound>>

\* The request or its answer is lost: the rest is not sent, the drawer stays.
PutFails(id) ==
    /\ Saving(id) /\ Event
    /\ \/ Stored(Keys[saves[id].next], saves[id].sent[Keys[saves[id].next]]) \/ UNCHANGED server
    /\ Finished(id) /\ Notes(id)
    /\ UNCHANGED <<cache, getting, drawer, typed>>

\* Another tab, or curl.
PutByOthers(k, body) ==
    /\ k = "gw" => ValidGw(body)
    /\ Event
    /\ Stored(k, body) /\ written' = written \union {k}
    /\ UNCHANGED <<cache, getting, drawer, saves, typed>>

SettingsNext ==
    \/ \E k \in KeySet :
          \/ Refresh(k) \/ Delayed(k)
          \/ \E v \in Edits[k] : Edit(k, v)
          \/ \E body \in Puts[k] : PutByOthers(k, body)
    \/ LateLands \/ AskedInVain \/ OpenDrawer \/ Cancel \/ Apply
    \/ \E id \in 1..MaxOpens : PutNext(id) \/ PutFails(id)

\* Polls go on and requests end.
SettingsFairness ==
    /\ \A k \in Polled : WF_settingsVars(Refresh(k))
    /\ WF_settingsVars(LateLands)
    /\ WF_settingsVars(asked /\ (Refresh("slo") \/ AskedInVain))
    /\ \A id \in 1..MaxOpens : WF_settingsVars(PutNext(id) \/ PutFails(id))
SettingsSpec == SettingsInit /\ [][SettingsNext]_settingsVars /\ SettingsFairness

----------------------------------------------------------------------------
(* Type invariant.                                                         *)
SettingsTypeOK ==
    /\ DOMAIN server = KeySet /\ DOMAIN cache = KeySet /\ drawer.pc \in {"closed", "open"}
    /\ DOMAIN saves \subseteq 1..MaxOpens /\ DOMAIN typed \subseteq KeySet /\ written \subseteq KeySet

\* The save of the open drawer is done, with all of its four requests.
Applied(id) == Open /\ drawer.id = id /\ Saving(id) /\ id \notin DOMAIN saves' /\ ~Open'

(* An Apply that goes through leaves what it sent in force, sanitized      *)
(* twice or not, and what it sent is what was typed since the form was     *)
(* filled, wherever the polls and late answers came in and whichever       *)
(* earlier Apply failed halfway: unless somebody else wrote that setting   *)
(* in between ("so what the drawer shows after saving is what actually     *)
(* runs", "without clobbering later edits").                               *)
AppliedIsInForce ==
    [][\A id \in 1..MaxOpens : Applied(id) =>
        \A k \in KeySet \ written :
            /\ server'[k] = saves[id].sent[k]
            /\ k \in DOMAIN saves[id].typed =>
                  Sanitized(k, saves[id].typed[k], server'[k]) = server'[k]]_settingsVars

(* What the operator did not touch, and nobody else has written since the  *)
(* drawer was opened, an Apply leaves as it is stored ("adopt the server's *)
(* values once they land"), with no earlier Apply still running.  It does  *)
(* not: a drawer opened again adopts the thresholds of the last time from  *)
(* the cache, when the GET that its closing began is still under way, was  *)
(* lost, or was answered before a save that outlived the drawer; or it is  *)
(* applied before any have landed.                                         *)
UntouchedSettingsKept ==
    [][\A id \in 1..MaxOpens, k \in KeySet :
        /\ Open /\ drawer.id = id /\ DOMAIN saves = {id} /\ Keys[saves[id].next] = k
        /\ written' = written /\ k \notin DOMAIN saves[id].typed \union written
        => server'[k] = server[k]]_settingsVars
=============================================================================
