SPECIFICATION Spec
CONSTANTS
    page = page
    image = image
    query = query
    post = post
    bad = bad
    drop = drop
    flag = flag
    Clients = {page, image}
    Scenes <- MCPatientScenes
    Request <- MCRequest
    MaxFd = 3
    Nobody = Nobody
INVARIANT
    EveryConnectionGetsAThread
CHECK_DEADLOCK FALSE
