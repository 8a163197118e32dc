------------------------------ MODULE MCInput ------------------------------
EXTENDS InputProperties

CONSTANTS d1, d2, h1, none

MCDevices == {d1, d2}
MCLevels == {0, 100}

OneDevice == {d1}
OneHero == {h1}
=============================================================================
