\* One session of two cars: two laps of three timing points for the camera,
\* three for the gaps of a timed session.
CONSTANTS
    NumCars = 2
    Points = 3
    FirstPoint = 1
    FirstThird = 1
    LastThird = 0
    MaxLap = 2
    Facts = {"box"}
    Millis = 400
    Elapsed = {4}
    MaxPackets = 4
    Marks = 3
    MaxPosition = 4
    Rounds <- MCRounds
    Sector1 = 0
    Sector2 = 1
    Starts <- MCStarts
    LapsTimed = 3
    PacketsTimed = 5
SPECIFICATION AllSpec
INVARIANTS TypeOK DetailsAsDriven GapsAsDriven
PROPERTIES GapIsTimeBehind FocusOnTrack FlyLapReleased
CHECK_DEADLOCK FALSE
