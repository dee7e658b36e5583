------------------------------ MODULE SettingsStore ------------------------------
(***************************************************************************)
(* What the commands that edit the configuration promise: each of them      *)
(* changes, at once, the settings it is about and no others.  Once, when a   *)
(* legacy file is replaced, settings may be lost.                           *)
(***************************************************************************)
CONSTANTS
  SettingKeys, \* the keys of a configuration
  Requests,    \* what may be set: records of a key and a value
  Tokens,      \* values that are auth tokens
  Blanks,      \* values that count as no token
  Kept,        \* keys `init` leaves alone if they have a value
  Unset        \* no value

VARIABLES
  settings,
  cut          \* settings were lost

Token == "auth-token"

HasToken == settings[Token] \notin Blanks \union {Unset}

Start == DOMAIN settings = SettingKeys /\ ~cut

Put(key, v) == settings' = [settings EXCEPT ![key] = v]

Rotate == \E t \in Tokens : Put(Token, t)

(* A second init keeps what the first one found out, and the token.          *)
Reset ==
  /\ DOMAIN settings' = SettingKeys
  /\ \A key \in SettingKeys : settings'[key] # Unset
  /\ \A key \in Kept \ {Token} : settings[key] # Unset => settings'[key] = settings[key]
  /\ IF HasToken THEN settings'[Token] = settings[Token] ELSE settings'[Token] \in Tokens

Edit ==
  \/ \E r \in Requests : r.key # Token /\ Put(r.key, r.value)
  \/ Rotate
  \/ Reset

Lose ==
  /\ ~cut /\ cut'
  /\ DOMAIN settings' = SettingKeys
  /\ \A key \in SettingKeys : settings'[key] \in {settings[key], Unset}

Step == Lose \/ (Edit /\ UNCHANGED cut)

Store == Start /\ [][Step]_<<settings, cut>>
=============================================================================
