------------------------------ MODULE Profiles ------------------------------
(***************************************************************************)
(* The browser profile of a run (profiles/factory.py, profiles/catalog.py) *)
(* A spec is drawn at random: a user agent of the catalog with one of its  *)
(* viewports, and the locale of the proxy's country or one of the fallback *)
(* locales.  With cookies the user agent is pinned.                        *)
(***************************************************************************)
EXTENDS Naturals, Sequences, FiniteSetsExt, Functions

CONSTANTS
    Catalog,         \* the user agents, in order, with their viewports
    GeoLocale,       \* the locale of each country known
    FallbackLocales

ASSUME ProfileAssumption ==
    /\ Len(Catalog) > 0
    /\ \A i \in DOMAIN Catalog : Catalog[i].viewports # {}
    /\ FallbackLocales # {}

\* The first desktop Chrome on Windows, or else the first entry.
PinnedEntry ==
    LET desktops == {i \in DOMAIN Catalog : Catalog[i].windowsChrome}
    IN  Catalog[IF desktops = {} THEN 1 ELSE Min(desktops)]

\* Mutant: any desktop Chrome on Windows will do.
Entries_AnyDesktop(pin) ==
    {e \in Range(Catalog) : pin => e.windowsChrome}

Entries(pin) == IF pin THEN {PinnedEntry} ELSE Range(Catalog)

Locales(geo) == IF geo \in DOMAIN GeoLocale THEN {GeoLocale[geo]} ELSE FallbackLocales

\* build_spec: all that random.choice can yield.
Specs(geo, pin) ==
    UNION {{[agent |-> e.agent, viewport |-> v, locale |-> l] : v \in e.viewports, l \in Locales(geo)} :
              e \in Entries(pin)}

\* build_browser_profile, as _handle calls it.
BrowserProfile(spec, cookies, extensionsByDefault) ==
    [agent      |-> spec.agent,
     viewport   |-> spec.viewport,
     locale     |-> spec.locale,
     storage    |-> cookies,
     extensions |-> cookies = <<>> /\ extensionsByDefault]
=============================================================================
