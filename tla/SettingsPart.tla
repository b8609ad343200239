---------------------------- MODULE SettingsPart ----------------------------
(* Settings as a part of a whole.                                          *)
EXTENDS SettingsState

Set == INSTANCE Settings
=============================================================================
