----------------------------- MODULE Inventory ------------------------------
(***************************************************************************)
(* The inventory Bellhop keeps in bellhop.db: its guest entries, what it   *)
(* knows of the hosts, and one setting that stands for the settings        *)
(* scalars.  What may be saved (validateInventory and the tables' keys),   *)
(* how a guest is edited, and how a provisioned one is merged in.          *)
(*                                                                         *)
(* A place is a host and a machine id: resolveMid derives the VMID and the *)
(* address from it by the host's midScheme, and validateInventory refuses  *)
(* two hosts whose schemes would derive the same ones.                     *)
(***************************************************************************)
EXTENDS Naturals, FiniteSets, Functions

CONSTANTS
  Hosts,
  Mids,
  OffScheme,    \* hosts without a midScheme
  ManagedLogin, \* people sign in through Bellhop's own guest: webUiAuthMode is oidc, no custom set
  Invalid       \* a value of an edit that its parser refuses

Places == Hosts \X Mids
NoIp == <<>>

(* A guest entry as GuestEntrySchema types it; ip is the place whose       *)
(* address it names, sub the subdomains, port, callback and bellhop        *)
(* whether the field is set.                                               *)
Entry(name, type, place) ==
  [name |-> name, type |-> type, place |-> place, ip |-> place, port |-> FALSE, sub |-> {},
   manual |-> FALSE, authGroup |-> "none", authMode |-> "forward", callback |-> FALSE,
   bellhop |-> FALSE, proxy |-> FALSE, authentik |-> FALSE, gateway |-> FALSE,
   vpn |-> "none", creator |-> "none"]

Names(guests) == {e.name : e \in guests}
Guest(guests, name) == CHOOSE e \in guests : e.name = name

-----------------------------------------------------------------------------
effectiveAuth(e) ==
  IF e.authGroup = "none" THEN "ungated" ELSE e.authMode

AtMostOne(S) == \A x, y \in S : x = y

(* Two entries for one role, a gate with no Authentik to send people to, a *)
(* route with no address, a subdomain claimed twice.                       *)
validateInventory(guests) ==
  LET authentik == {e \in guests : e.authentik}
  IN /\ AtMostOne({e \in guests : e.proxy})
     /\ AtMostOne({e \in guests : e.bellhop})
     /\ AtMostOne(authentik)
     /\ (\E e \in guests : effectiveAuth(e) = "forward") => \E e \in authentik : e.ip # NoIp
     /\ \A e \in guests : e.place[1] \in Hosts
     /\ \A e \in guests : e.manual \/ e.sub = {} \/ e.ip # NoIp
     /\ \A d, e \in guests : d # e => d.sub \cap e.sub = {}

(* The guests table: name is its primary key, host and vmid are unique.    *)
GuestKeys(guests) == \A d, e \in guests : d # e => d.name # e.name /\ d.place # e.place

saveable(guests) == validateInventory(guests) /\ GuestKeys(guests)

(* withFreshSettings: the settings as they are stored, the rest as held.   *)
withFreshSettings(stored, held) == [held EXCEPT !.setting = stored.setting]

(* findProxyEntry: where the reverse proxy runs.                           *)
findProxyEntry(guests) == {e \in guests : e.proxy}

-----------------------------------------------------------------------------
(* Editing.  A body gives some fields a value; each goes through its       *)
(* parser, and a field that is not in the body is left alone.              *)
parses(body) == \A f \in DOMAIN body : body[f] # Invalid

applyGuestEdits(e, body) ==
  [f \in DOMAIN e |-> IF f \in DOMAIN body THEN body[f] ELSE e[f]]

editDeletesOidcClient(old, new) ==
  effectiveAuth(old) = "oidc" /\ effectiveAuth(new) # "oidc"

oidcConfigErrors(e) == effectiveAuth(e) = "oidc" /\ e.sub # {} /\ ~e.callback

(* Signing in through Bellhop's own guest works while that guest is gated  *)
(* by OIDC with a callback.                                                *)
managedGuestProblem(guests) ==
  ~\E e \in guests : e.bellhop /\ effectiveAuth(e) = "oidc" /\ e.callback

managedLoginLockoutError(old, new) ==
  ManagedLogin /\ ~managedGuestProblem(old) /\ managedGuestProblem(new)

-----------------------------------------------------------------------------
(* An entry at the new guest's place gives it everything the new entry     *)
(* leaves open.                                                            *)
upsertGuestEntry(guests, new) ==
  LET at == {e \in guests : e.place = new.place}
      Merge(old) ==
        [old EXCEPT !.name = new.name, !.type = new.type, !.ip = new.ip,
           !.sub = @ \cup new.sub,
           !.port = @ \/ new.port,
           !.creator = IF new.creator = "none" THEN @ ELSE new.creator]
  IN IF at = {} THEN guests \cup {new} ELSE (guests \ at) \cup {Merge(e) : e \in at}

(* resolveMid refuses a host without a scheme and an id out of range.      *)
resolves(place) == place \in Places /\ place[1] \notin OffScheme
=============================================================================
