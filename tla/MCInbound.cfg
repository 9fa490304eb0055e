SPECIFICATION FairSpec
CONSTANTS
    None = None
    hope = hope
    david = david
    ruth = ruth
    poster = poster
    song = song
    video = video
    Handlers = {1, 2}
    Users = {hope, david, ruth}
    Tasks = {poster, song, video}
    Mails <- MCMails
    InitialRoles <- MCRoles
    InitialRows <- MCRows
    Models = 2
    Limit <- MCLimit
    MaxMessages = 2
    MaxFaults = 1
INVARIANTS HandledOnce OnlyAuthorised 
PROPERTIES EveryMessageAnswered
CHECK_DEADLOCK FALSE
