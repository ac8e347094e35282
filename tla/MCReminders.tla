------------------------------ MODULE MCReminders ------------------------------
EXTENDS Reminders
==============================================================================
