----------------------------- MODULE Validation -----------------------------
(***************************************************************************)
(* What each part of the program demands of a message: the checks of       *)
(* internal/domain/models.go, those of CreateMessage and of the query for  *)
(* unsent messages in internal/repository/postgres.go, the columns of      *)
(* migrations/001_initial_schema.sql and the provider of cmd/mock-api.     *)
(*                                                                         *)
(* Go's len counts bytes; LENGTH and VARCHAR(n) count characters.  A text  *)
(* is here the pair of both counts, of any UTF-8 string.  No code calls    *)
(* the checks of models.go before a row is inserted.                       *)
(***************************************************************************)
EXTENDS Naturals

Text == {t \in [bytes: Nat, chars: Nat]:
            t.chars <= t.bytes /\ t.bytes <= 4 * t.chars}

Message == [phone: Text, content: Text]

Ascii(t) == t.bytes = t.chars

----------------------------------------------------------------------------
ValidatePhoneNumber(m) == m.phone.bytes # 0 /\ m.phone.bytes \in 10..20

ValidateContent(m, maxLength) == m.content.bytes # 0 /\ m.content.bytes <= maxLength

IsValid(m) == /\ m.phone.bytes # 0
              /\ ~(m.phone.bytes < 10 \/ m.phone.bytes > 20)
              /\ m.content.bytes # 0
              /\ ~(m.content.bytes > 160)

\* CreateMessage looks at the content only.
CreateAccepts(m) == ~(m.content.bytes > 160) /\ m.content.bytes # 0

\* VARCHAR(20), VARCHAR(160): the row can be inserted.
Storable(m) == m.phone.chars <= 20 /\ m.content.chars <= 160

\* The conditions of GetUnsentMessages besides sent = FALSE.
Selected(m) == /\ m.phone.chars # 0 /\ m.content.chars # 0
               /\ m.phone.chars \in 10..20
               /\ m.content.chars <= 160

\* binding:"required" of the mock provider: otherwise 400.
ProviderBinds(m) == m.phone.bytes # 0 /\ m.content.bytes # 0
=============================================================================
