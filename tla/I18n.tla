-------------------------------- MODULE I18n --------------------------------
(***************************************************************************)
(* mobile/src/lib/i18n/i18n-provider.tsx: the language of the app, which   *)
(* every screen reads.  It is American English until the stored choice, or *)
(* the language of the device, has been read.                              *)
(***************************************************************************)
CONSTANTS
    Locales,
    EnUS            \* the locale before the read

ASSUME I18nAssumption == EnUS \in Locales

VARIABLES
    locale,
    reading         \* the first read is not over

i18n == <<locale, reading>>

I18nInit == locale = EnUS /\ reading = TRUE

(* Whatever setLocale did meanwhile. *)
LocaleRead(l) ==
    /\ reading /\ reading' = FALSE
    /\ locale' = l

SetLocale(l) ==
    /\ l # locale /\ locale' = l
    /\ UNCHANGED reading

I18nTypeOK == locale \in Locales /\ reading \in BOOLEAN
=============================================================================
