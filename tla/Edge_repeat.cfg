SPECIFICATION EdgeSpec
CONSTANTS
    ann = ann
    bob = bob
    Emails <- MCEmails
    Calls <- MCCalls
    Slots <- MCSlots
    Founder <- MCFounder
    Legacy <- MCLegacy
    Names = {n1}
    Keys = {k1}
    Hosts = {h1, h2}
    Limit = 2
    MaxMinute = 2
    Lifetime = 0
    MaxRestarts = 1
INVARIANTS
    KeysAreUnique
CHECK_DEADLOCK FALSE
