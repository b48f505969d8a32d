-------------------------- MODULE MCAntennaSelect ---------------------------
\* AntennaSelect for TLC.
EXTENDS AntennaSelectSafe, TLC

\* One frequency on the followed beam, one on the fallback, through the tuner.
TwoBands  == 1 :> "20m" @@ 2 :> "80m"
BeamBands == "20m" :> "port1"

\* The elements and the lock; presence; the switch.
Things == {{"lock", "link"}, {"lock", "dev", "restart"},
           {"tune", "key", "slice", "idle"}, {"slice", "radio", "bridge", "idle"},
           {"slice", "link"}, {"tune", "restart", "idle"}, {"tune", "link", "idle"},
           {"hold", "link"}, {"request", "link"}, {"request", "restart"},
           {"hand", "reboot", "lock"}, {"hand", "key", "request"}}
=============================================================================
