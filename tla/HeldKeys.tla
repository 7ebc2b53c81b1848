------------------------------ MODULE HeldKeys ------------------------------
(***************************************************************************)
(* src/platform/held_keys.c: the HP keys that are down, each with the time *)
(* it must at least stay down.  The slots of the table are a function from *)
(* the codes in use to their slots; which slot a code has is not modelled. *)
(* A deadline is the time left until it, which saturates at zero: the wrap *)
(* of the clock (after 49 days) is compared by difference in the code.     *)
(***************************************************************************)
EXTENDS Naturals, FiniteSets

CONSTANT HELD_KEYS_CAPACITY

ASSUME CapacityAssumption == HELD_KEYS_CAPACITY \in Nat \ {0}

NoKeys == [c \in {} |-> {}]

HeldKeySlots(maxHold) ==
  [left : 0 .. maxHold, requested : BOOLEAN, consumes : BOOLEAN]

held_keys_empty(keys) == DOMAIN keys = {}

Fits(keys, code) ==
  code \in DOMAIN keys \/ Cardinality(DOMAIN keys) < HELD_KEYS_CAPACITY

(* A code that is held already keeps its deadline, and its release request. *)
held_keys_press(keys, code, hold, consumes) ==
  IF ~Fits(keys, code) THEN keys
  ELSE [c \in DOMAIN keys \union {code} |->
          IF c # code THEN keys[c]
          ELSE IF c \in DOMAIN keys
               THEN [keys[c] EXCEPT !.consumes = @ \/ consumes]
               ELSE [left |-> hold, requested |-> FALSE, consumes |-> consumes]]

held_keys_request_release(keys, code) ==
  [c \in DOMAIN keys |->
     IF c = code THEN [keys[c] EXCEPT !.requested = TRUE] ELSE keys[c]]

Requested(keys) == {c \in DOMAIN keys : keys[c].requested}

held_keys_release_waiting(keys) == Requested(keys) # {}

(* Mutant: a release does not wait for its deadline.                       *)
DueWhenRequested(keys) == Requested(keys)

DueReleases(keys) == {c \in Requested(keys) : keys[c].left = 0}

Popped(keys, codes) == [c \in DOMAIN keys \ codes |-> keys[c]]

(* A unit of time passes.                                                  *)
Elapse(keys) ==
  [c \in DOMAIN keys |->
     [keys[c] EXCEPT !.left = IF @ = 0 THEN 0 ELSE @ - 1]]
=============================================================================
