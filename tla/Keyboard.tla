----------------------------- MODULE Keyboard ------------------------------
(***************************************************************************)
(* The keyboard driver, src/src/drivers/keyboard.c.  keyboard_handler runs *)
(* behind an interrupt gate: it is atomic, and may land between any two    *)
(* memory accesses of kbd_get, which the shell task calls once per turn of *)
(* the kernel's main loop.  The ring has no lock: the handler writes the   *)
(* head, the shell the tail.                                               *)
(*                                                                         *)
(* Page Up and Page Down only call the screen driver and leave this state  *)
(* alone.  The accesses of kbd_get are taken in program order, which is    *)
(* also the order gcc gives them with the -O2 of run.sh.                   *)
(***************************************************************************)
EXTENDS Integers, Sequences

CONSTANTS
    RingSize,      \* 256 in the source
    Presses,       \* keys the user presses, among Keys
    MaxKeys        \* bound: characters accepted in a behaviour

Modifiers == {"lshift", "rshift", "ctrl", "caps"}
Keys == Modifiers \cup {"pgup", "f1", "a", "c", "1"}

ASSUME RingAssumption ==
    /\ RingSize \in Nat /\ RingSize > 1
    /\ Presses \subseteq Keys /\ MaxKeys \in Nat

None == "0"         \* the NUL character
ETX  == "ETX"
Chars == {"a", "A", "c", "C", "1", "!", ETX}

VARIABLES
    kbd_buffer, kbd_head, kbd_tail,
    shift_pressed, ctrl_pressed, caps_lock,
    get_pc,        \* where kbd_get stands: "idle", "read", "advance"
    get_c,         \* its local variable c
    held,          \* history: keys that are down
    accepted,      \* history: characters stored in the ring
    delivered,     \* history: characters returned to the shell
    dropped        \* history: whether the last character was refused

ring == <<kbd_buffer, kbd_head, kbd_tail>>
mods == <<shift_pressed, ctrl_pressed, caps_lock>>
kbdVars == <<ring, mods, get_pc, get_c, held, accepted, delivered, dropped>>

KbdInit ==
    /\ kbd_buffer = [i \in 0 .. RingSize - 1 |-> None]
    /\ kbd_head = 0 /\ kbd_tail = 0
    /\ shift_pressed = FALSE /\ ctrl_pressed = FALSE /\ caps_lock = FALSE
    /\ get_pc = "idle" /\ get_c = None
    /\ held = {} /\ accepted = <<>> /\ delivered = <<>> /\ dropped = FALSE

\* kbd_us and kbd_us_shift at the keys that are modelled; 0 for the others.
Table(key, shift) ==
    CASE key = "a" -> IF shift THEN "A" ELSE "a"
      [] key = "c" -> IF shift THEN "C" ELSE "c"
      [] key = "1" -> IF shift THEN "!" ELSE "1"
      [] OTHER -> None

\* The character of a key press: Ctrl+C, the table, then Caps Lock on a letter
\* that came out in lower case.
Translate(key) ==
    LET ch == Table(key, shift_pressed)
    IN  CASE ctrl_pressed /\ key = "c" -> ETX
          [] ~(ctrl_pressed /\ key = "c") /\ caps_lock /\ ch = "a" -> "A"
          [] ~(ctrl_pressed /\ key = "c") /\ caps_lock /\ ch = "c" -> "C"
          [] OTHER -> ch

\* Mutant: the head catches up with the tail and a full ring looks empty.
kbd_put_NoCheck(ch) ==
    /\ kbd_buffer' = [kbd_buffer EXCEPT ![kbd_head] = ch]
    /\ kbd_head' = (kbd_head + 1) % RingSize
    /\ accepted' = Append(accepted, ch) /\ dropped' = FALSE

\* Mutant: one more slot is kept free than needed.
kbd_put_Early(ch) ==
    IF (kbd_head + 1) % RingSize # kbd_tail /\ (kbd_head + 2) % RingSize # kbd_tail
    THEN /\ kbd_buffer' = [kbd_buffer EXCEPT ![kbd_head] = ch]
         /\ kbd_head' = (kbd_head + 1) % RingSize
         /\ accepted' = Append(accepted, ch) /\ dropped' = FALSE
    ELSE /\ UNCHANGED <<kbd_buffer, kbd_head, accepted>> /\ dropped' = TRUE

\* A character is stored unless the ring is full; then it is lost.
kbd_put(ch) ==
    LET next == (kbd_head + 1) % RingSize
    IN  IF next # kbd_tail
        THEN /\ kbd_buffer' = [kbd_buffer EXCEPT ![kbd_head] = ch]
             /\ kbd_head' = next
             /\ accepted' = Append(accepted, ch) /\ dropped' = FALSE
        ELSE /\ UNCHANGED <<kbd_buffer, kbd_head, accepted>> /\ dropped' = TRUE

-----------------------------------------------------------------------------
(* keyboard_handler.                                                       *)

\* A break code (bit 7 set) clears the modifier it names.
Release(key) ==
    /\ key \in held
    /\ held' = held \ {key}
    /\ shift_pressed' = IF key \in {"lshift", "rshift"} THEN FALSE ELSE shift_pressed
    /\ ctrl_pressed' = IF key = "ctrl" THEN FALSE ELSE ctrl_pressed
    /\ UNCHANGED <<ring, caps_lock, get_pc, get_c, accepted, delivered, dropped>>

\* A make code of a modifier.
PressModifier(key) ==
    /\ key \in Modifiers \ held
    /\ held' = held \cup {key}
    /\ shift_pressed' = IF key \in {"lshift", "rshift"} THEN TRUE ELSE shift_pressed
    /\ ctrl_pressed' = IF key = "ctrl" THEN TRUE ELSE ctrl_pressed
    /\ caps_lock' = IF key = "caps" THEN ~caps_lock ELSE caps_lock
    /\ UNCHANGED <<ring, get_pc, get_c, accepted, delivered, dropped>>

\* A make code of another key; keys without a character are ignored.  Key
\* repeat sends it again while the key is down, so `held' need not record it.
PressKey(key) ==
    /\ key \in Keys \ Modifiers
    /\ IF Translate(key) # None
       THEN /\ Len(accepted) < MaxKeys
            /\ kbd_put(Translate(key))
            /\ UNCHANGED kbd_tail
       ELSE UNCHANGED <<ring, accepted, dropped>>
    /\ UNCHANGED <<mods, get_pc, get_c, held, delivered>>

keyboard_handler ==
    \/ \E key \in Presses : PressModifier(key) \/ PressKey(key)
    \/ \E key \in held : Release(key)

-----------------------------------------------------------------------------
(* kbd_get, as the shell task calls it.                                    *)

\* if (kbd_head == kbd_tail) return 0;
GetCheck ==
    /\ get_pc = "idle" /\ kbd_head # kbd_tail
    /\ get_pc' = "read"
    /\ UNCHANGED <<ring, mods, get_c, held, accepted, delivered, dropped>>

\* c = kbd_buffer[kbd_tail];
GetRead ==
    /\ get_pc = "read"
    /\ get_c' = kbd_buffer[kbd_tail]
    /\ get_pc' = "advance"
    /\ UNCHANGED <<ring, mods, held, accepted, delivered, dropped>>

\* Mutant: the tail is set to the head, which drops what arrived meanwhile.
GetAdvance_ToHead ==
    /\ get_pc = "advance"
    /\ kbd_tail' = kbd_head
    /\ delivered' = Append(delivered, get_c)
    /\ get_pc' = "idle" /\ get_c' = None
    /\ UNCHANGED <<kbd_buffer, kbd_head, mods, held, accepted, dropped>>

\* kbd_tail = (kbd_tail + 1) % 256; return c;
GetAdvance ==
    /\ get_pc = "advance"
    /\ kbd_tail' = (kbd_tail + 1) % RingSize
    /\ delivered' = Append(delivered, get_c)
    /\ get_pc' = "idle" /\ get_c' = None
    /\ UNCHANGED <<kbd_buffer, kbd_head, mods, held, accepted, dropped>>

kbd_get == GetCheck \/ GetRead \/ GetAdvance

KbdNext == keyboard_handler \/ kbd_get

KbdSpec == KbdInit /\ [][KbdNext]_kbdVars

\* The kernel's main loop calls the shell task, and that kbd_get, for ever.  No
\* fairness is assumed of the keyboard.
KbdFairSpec == KbdSpec /\ WF_kbdVars(kbd_get)

-----------------------------------------------------------------------------
(* Properties.                                                             *)

RingTypeOK ==
    /\ kbd_buffer \in [0 .. RingSize - 1 -> Chars \cup {None}]
    /\ kbd_head \in 0 .. RingSize - 1 /\ kbd_tail \in 0 .. RingSize - 1
    /\ shift_pressed \in BOOLEAN /\ ctrl_pressed \in BOOLEAN /\ caps_lock \in BOOLEAN
    /\ get_pc \in {"idle", "read", "advance"} /\ get_c \in Chars \cup {None}
    /\ held \subseteq Modifiers
    /\ accepted \in Seq(Chars) /\ delivered \in Seq(Chars \cup {None})
    /\ dropped \in BOOLEAN

\* What the shell has been given is, character by character, the beginning of
\* what the handler stored, wherever interrupts landed inside kbd_get.
InOrder ==
    /\ Len(delivered) <= Len(accepted)
    /\ \A i \in 1 .. Len(delivered) : delivered[i] = accepted[i]

\* A character is refused only when RingSize - 1 characters are waiting, and
\* never more than that many wait.
LossOnlyWhenFull ==
    [][/\ dropped' /\ ~dropped => Len(accepted) - Len(delivered) = RingSize - 1
       /\ Len(accepted') - Len(delivered') <= RingSize - 1]_kbdVars

\* Every stored character reaches the shell.
Drains == \A n \in 1 .. MaxKeys : Len(accepted) >= n ~> Len(delivered) >= n

=============================================================================
