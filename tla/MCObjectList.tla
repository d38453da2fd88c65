----------------------------- MODULE MCObjectList -----------------------------
EXTENDS ObjectList
CONSTANTS actor, zone

MCObject  == {actor, zone}
MCGarbage == {zone}
MCNone    == {}
MCLinks   == {[holder |-> actor, via |-> "feel", target |-> zone],
              [holder |-> zone, via |-> "object", target |-> actor]}
=============================================================================
